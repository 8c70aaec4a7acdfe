-------------------------------- MODULE Pipe --------------------------------
(***************************************************************************)
(* One pipe of pipe.c, used by several processes that share its two ends   *)
(* through fork().  plk is the process inside p->lock; a process in        *)
(* sleep() has given it up, and starts its loop again when woken.          *)
(***************************************************************************)
EXTENDS Integers, Sequences

CONSTANTS Procs,     \* processes that may hold an end of the pipe
          NoProc,    \* nobody holds p->lock
          Killable,  \* processes kill() is called on
          PIPESIZE,
          UINT,      \* nread and nwrite are uint: they wrap at UINT
          Bytes,
          MaxWrite, MaxRead   \* bounds: largest n of write() and read()

ASSUME SizeAssumption == PIPESIZE \in Nat \ {0} /\ UINT \in Nat \ {0} /\ PIPESIZE < UINT
ASSUME ProcAssumption == NoProc \notin Procs /\ Killable \subseteq Procs
ASSUME WrapAssumption == UINT % PIPESIZE = 0   \* 2^32 and 512

VARIABLES
  data, nread, nwrite, readopen, writeopen,  \* struct pipe
  freed,      \* kfree() has been called on it
  plk,
  fdr, fdw,   \* the processes with the read end, the write end open
  killed,
  pc,         \* where each process is
  addr,       \* write(): the bytes still to go; read(): what it has copied
  cnt         \* n of read()

pipe == <<data, nread, nwrite, readopen, writeopen, freed>>
ends == <<fdr, fdw, killed>>
vars == <<pipe, plk, ends, pc, addr, cnt>>

InRead  == {"read", "r_copy", "r_sleep", "r_asleep"}
InWrite == {"write", "w_copy", "w_sleep", "w_asleep"}
Locations == {"user", "close_r", "close_w"} \cup InRead \cup InWrite

\* Every variable has its type; nread and nwrite stay within a uint.
TypeOK ==
  /\ data \in [0..PIPESIZE-1 -> Bytes]
  /\ nread \in 0..UINT-1 /\ nwrite \in 0..UINT-1
  /\ readopen \in BOOLEAN /\ writeopen \in BOOLEAN /\ freed \in BOOLEAN
  /\ plk \in Procs \cup {NoProc}
  /\ fdr \subseteq Procs /\ fdw \subseteq Procs
  /\ killed \in [Procs -> BOOLEAN]
  /\ pc \in [Procs -> Locations]
  /\ addr \in [Procs -> Seq(Bytes \cup Int)]
  /\ cnt \in [Procs -> Nat]

\* After pipe() and any number of fork()s: who holds which end.
Init ==
  /\ data \in [0..PIPESIZE-1 -> Bytes] /\ \A i, j \in 0..PIPESIZE-1 : data[i] = data[j]
  /\ nread = 0 /\ nwrite = 0 /\ readopen = TRUE /\ writeopen = TRUE /\ freed = FALSE
  /\ plk = NoProc
  /\ fdr \in SUBSET Procs \ {{}} /\ fdw \in SUBSET Procs \ {{}}
  /\ killed = [p \in Procs |-> FALSE]
  /\ pc = [p \in Procs |-> "user"]
  /\ addr = [p \in Procs |-> <<>>] /\ cnt = [p \in Procs |-> 0]

\* n++ on a uint.
Inc(n) == (n + 1) % UINT

Empty == nread = nwrite

\* A bug: one byte too many fits.
Full_late == nwrite = (nread + PIPESIZE + 1) % UINT

Full  == nwrite = (nread + PIPESIZE) % UINT

\* A bug: nobody is woken.
WakeReaders_none(f) == f

\* wakeup(&p->nread) and wakeup(&p->nwrite) applied to the locations f.
WakeReaders(f) == [q \in Procs |-> IF f[q] = "r_asleep" THEN "read" ELSE f[q]]
WakeWriters(f) == [q \in Procs |-> IF f[q] = "w_asleep" THEN "write" ELSE f[q]]

At(p, l) == pc[p] = l
Goto(p, l) == [pc EXCEPT ![p] = l]

\* A system call on an end p has open; a killed process makes no more.
Call(p, fds) == At(p, "user") /\ p \in fds /\ ~killed[p]

\* The calls in the order of pipewrite(), piperead() and pipeclose().
sys_write(p, s) ==
  /\ Call(p, fdw) /\ pc' = Goto(p, "write")
  /\ addr' = [addr EXCEPT ![p] = s]
  /\ UNCHANGED <<pipe, plk, ends, cnt>>

write_lock(p) ==
  /\ At(p, "write") /\ plk = NoProc
  /\ plk' = p /\ pc' = Goto(p, "w_copy")
  /\ UNCHANGED <<pipe, ends, addr, cnt>>

write_byte(p) ==
  /\ At(p, "w_copy") /\ addr[p] # <<>> /\ ~Full
  /\ data' = [data EXCEPT ![nwrite % PIPESIZE] = Head(addr[p])]
  /\ nwrite' = Inc(nwrite)
  /\ addr' = [addr EXCEPT ![p] = Tail(addr[p])]
  /\ UNCHANGED <<nread, readopen, writeopen, freed, plk, ends, pc, cnt>>

\* Full, and nobody to read or no reason to wait: -1.
write_fail(p) ==
  /\ At(p, "w_copy") /\ addr[p] # <<>> /\ Full /\ (~readopen \/ killed[p])
  /\ plk' = NoProc /\ pc' = Goto(p, "user")
  /\ addr' = [addr EXCEPT ![p] = <<>>]
  /\ UNCHANGED <<pipe, ends, cnt>>

write_full(p) ==
  /\ At(p, "w_copy") /\ addr[p] # <<>> /\ Full /\ readopen /\ ~killed[p]
  /\ pc' = WakeReaders(Goto(p, "w_sleep"))
  /\ UNCHANGED <<pipe, plk, ends, addr, cnt>>

write_done(p) ==
  /\ At(p, "w_copy") /\ addr[p] = <<>>
  /\ plk' = NoProc /\ pc' = WakeReaders(Goto(p, "user"))
  /\ UNCHANGED <<pipe, ends, addr, cnt>>

sys_read(p, n) ==
  /\ Call(p, fdr) /\ pc' = Goto(p, "read")
  /\ addr' = [addr EXCEPT ![p] = <<>>] /\ cnt' = [cnt EXCEPT ![p] = n]
  /\ UNCHANGED <<pipe, plk, ends>>

\* Nothing to read yet, but a writer may come: wait, or give up if killed.
read_empty(p) ==
  /\ At(p, "read") /\ plk = NoProc /\ Empty /\ writeopen
  /\ \/ /\ killed[p]
        /\ pc' = Goto(p, "user") /\ plk' = plk
        /\ addr' = [addr EXCEPT ![p] = <<-1>>] /\ cnt' = [cnt EXCEPT ![p] = 0]
     \/ /\ ~killed[p]
        /\ pc' = Goto(p, "r_sleep") /\ plk' = p
        /\ UNCHANGED <<addr, cnt>>
  /\ UNCHANGED <<pipe, ends>>

read_lock(p) ==
  /\ At(p, "read") /\ plk = NoProc /\ ~(Empty /\ writeopen)
  /\ plk' = p /\ pc' = Goto(p, "r_copy")
  /\ UNCHANGED <<pipe, ends, addr, cnt>>

read_byte(p) ==
  /\ At(p, "r_copy") /\ Len(addr[p]) < cnt[p] /\ ~Empty
  /\ addr' = [addr EXCEPT ![p] = Append(addr[p], data[nread % PIPESIZE])]
  /\ nread' = Inc(nread)
  /\ UNCHANGED <<data, nwrite, readopen, writeopen, freed, plk, ends, pc, cnt>>

read_done(p) ==
  /\ At(p, "r_copy") /\ (Len(addr[p]) = cnt[p] \/ Empty)
  /\ plk' = NoProc /\ pc' = WakeWriters(Goto(p, "user"))
  /\ addr' = [addr EXCEPT ![p] = <<Len(addr[p])>> \o addr[p]]
  /\ cnt' = [cnt EXCEPT ![p] = 0]
  /\ UNCHANGED <<pipe, ends>>

\* sleep(chan, &p->lock), up to which kill() finds the process awake.
sleep(p) ==
  /\ pc[p] \in {"r_sleep", "w_sleep"}
  /\ plk' = NoProc
  /\ pc' = Goto(p, IF At(p, "r_sleep") THEN "r_asleep" ELSE "w_asleep")
  /\ UNCHANGED <<pipe, ends, addr, cnt>>

\* fileclose(): the last reference to the file of an end goes on to pipeclose().
close_r(p) ==
  /\ At(p, "user") /\ p \in fdr
  /\ fdr' = fdr \ {p}
  /\ pc' = IF fdr' = {} THEN Goto(p, "close_r") ELSE pc
  /\ UNCHANGED <<pipe, plk, fdw, killed, addr, cnt>>

close_w(p) ==
  /\ At(p, "user") /\ p \in fdw
  /\ fdw' = fdw \ {p}
  /\ pc' = IF fdw' = {} THEN Goto(p, "close_w") ELSE pc
  /\ UNCHANGED <<pipe, plk, fdr, killed, addr, cnt>>

\* A bug: the page is freed with the first end.
Gone_either(r, w) == ~r \/ ~w

\* The page is freed with the second end.
Gone(r, w) == ~r /\ ~w

pipeclose(p) ==
  /\ plk = NoProc
  /\ \/ /\ At(p, "close_w")
        /\ writeopen' = FALSE /\ readopen' = readopen
        /\ pc' = WakeReaders(Goto(p, "user"))
     \/ /\ At(p, "close_r")
        /\ readopen' = FALSE /\ writeopen' = writeopen
        /\ pc' = WakeWriters(Goto(p, "user"))
  /\ freed' = (freed \/ Gone(readopen', writeopen'))
  /\ UNCHANGED <<data, nread, nwrite, plk, ends, addr, cnt>>

\* The child c (a process without an end) gets what its parent has.
fork(p, c) ==
  /\ At(p, "user") /\ ~killed[p] /\ p \in fdr \cup fdw
  /\ At(c, "user") /\ c \notin fdr \cup fdw
  /\ fdr' = IF p \in fdr THEN fdr \cup {c} ELSE fdr
  /\ fdw' = IF p \in fdw THEN fdw \cup {c} ELSE fdw
  /\ killed' = [killed EXCEPT ![c] = FALSE]
  /\ addr' = [addr EXCEPT ![c] = <<>>]
  /\ UNCHANGED <<pipe, plk, pc, cnt>>

\* kill() wakes its victim only if it finds it asleep.
kill(p) ==
  /\ p \in Killable /\ ~killed[p] /\ p \in fdr \cup fdw
  /\ killed' = [killed EXCEPT ![p] = TRUE]
  /\ pc' = [pc EXCEPT ![p] = CASE @ = "r_asleep" -> "read" [] @ = "w_asleep" -> "write" [] OTHER -> @]
  /\ UNCHANGED <<pipe, plk, fdr, fdw, addr, cnt>>

Kernel(p) ==
  \/ write_lock(p) \/ write_byte(p) \/ write_fail(p) \/ write_full(p) \/ write_done(p)
  \/ read_empty(p) \/ read_lock(p) \/ read_byte(p) \/ read_done(p)
  \/ sleep(p) \/ pipeclose(p)

\* exit() of a killed process closes its ends.
Exit(p) == killed[p] /\ (close_r(p) \/ close_w(p))

User(p) ==
  \/ \E n \in 1..MaxWrite : \E s \in [1..n -> Bytes] : sys_write(p, s)
  \/ \E n \in 1..MaxRead : sys_read(p, n)
  \/ close_r(p)
  \/ close_w(p)
  \/ \E c \in Procs : fork(p, c)
  \/ kill(p)

Next == \E p \in Procs : Kernel(p) \/ User(p)

Spec == Init /\ [][Next]_vars

\* A process in the kernel is scheduled again and again, and finds p->lock
\* free: the lock is held for a bounded number of steps.
LiveSpec == Spec /\ \A p \in Procs : SF_vars(Kernel(p)) /\ WF_vars(Exit(p))

\* Reads return the bytes written, in order, none lost and none twice, across
\* the wrap of the counters and of the buffer, and 0 only once every writer
\* has closed and the buffer is drained (ByteStream).  The bytes a read has
\* copied under the lock count as returned when it returns.
InFlight ==
  LET n == (nwrite - nread) % UINT
      copied == IF plk # NoProc /\ pc[plk] = "r_copy" THEN addr[plk] ELSE <<>>
  IN  copied \o [i \in 1..n |-> data[(nread + i - 1) % PIPESIZE]]
Returned == [p \in Procs |-> IF pc[p] \in InRead \cup InWrite THEN <<>> ELSE addr[p]]
Stream ==
  INSTANCE ByteStream WITH q <- InFlight, wopen <- writeopen, ret <- Returned,
                           Capacity <- PIPESIZE
\* piperead() and pipewrite() implement ByteStream.
IsByteStream == Stream!Spec

\* A writer asleep waits for something that will be announced to it: the
\* pipe is full and its read end open, unless a reader that will wake it on
\* leaving the lock has already made room.  No wakeup is lost, in spite of
\* kills.
WriterNotForgotten ==
  \A p \in Procs : At(p, "w_asleep") =>
    (Full /\ readopen) \/ (plk # NoProc /\ pc[plk] = "r_copy")

NobodyKilled == \A p \in Procs : ~killed[p]

ReadersWait ==
  \A p \in Procs : At(p, "r_asleep") =>
    (Empty /\ writeopen) \/ (plk # NoProc /\ pc[plk] = "w_copy")

\* Likewise a reader asleep waits on an empty pipe that can still be written,
\* unless the writer that filled it holds the lock; so long as nobody is ever
\* killed, since a killed writer leaves without a wakeup (NoReaderOnFullPipe).
ReaderNotForgotten == []NobodyKilled => []ReadersWait

\* The page of the pipe is not used once it is freed: a process in the pipe's
\* code, asleep there included, has its end of the pipe open, and the page is
\* freed exactly when both ends are closed.
UsersHoldEnds ==
  /\ \A p \in Procs : pc[p] \in InRead => p \in fdr /\ readopen
  /\ \A p \in Procs : pc[p] \in InWrite => p \in fdw /\ writeopen
  /\ \A p \in Procs : pc[p] \in {"close_r", "close_w"} => ~freed
  /\ freed <=> ~readopen /\ ~writeopen

\* Once the last writer has closed its end, every read returns: it drains the
\* pipe, then sees the end of the stream.
ReadersReturn ==
  \A p \in Procs : fdw = {} /\ pc[p] \in InRead ~> At(p, "user")

\* "DOC: pipe-empty": piperead() waits while the pipe is empty.
NoReaderOnFullPipe ==
  \A p \in Procs : At(p, "r_asleep") => ~Full \/ (plk # NoProc /\ pc[plk] = "w_copy")

\* "Wake process from sleep if necessary": a process killed in read() or
\* write() comes out of it and exits.
KilledLeaves ==
  \A p \in Procs : killed[p] ~> ~killed[p] \/ At(p, "user")
=============================================================================
