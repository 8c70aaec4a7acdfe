-------------------------------- MODULE Bio ---------------------------------
(***************************************************************************)
(* The buffer cache of bio.c over the disk driver of ide.c, or over the    *)
(* in-memory disk of memide.c.  A thread gets a block's buffer, may change *)
(* it, and writes it with bwrite() or leaves it to the log with            *)
(* log_write(), which pins it in the cache.  It may hold two buffers, each *)
(* by a reference <<p, 1>> or <<p, 2>> of its own: the second is asked for *)
(* while the first is held.                                                *)
(***************************************************************************)
EXTENDS Integers, Sequences, FiniteSets, Functions

CONSTANTS Procs, Blocks, Data,
          Body,        \* the blocks of the log
          Indirect,    \* the blocks that hold addresses of a file's blocks
          NBUF,
          NoBlock,     \* b->dev = -1
          MaxPinned,   \* bound: blocks in the log and not yet installed
          Drivers,     \* "ide" for ide.c, "mem" for memide.c: the Makefile links one
          IoErrors     \* the disk may report an error on a read

ASSUME BioAssumption ==
  /\ NBUF \in Nat \ {0} /\ MaxPinned \in Nat /\ Drivers \subseteq {"ide", "mem"} /\ IoErrors \in BOOLEAN
  /\ Body \subseteq Blocks /\ Indirect \subseteq Blocks \ Body
  /\ NoBlock \notin Blocks /\ Data # {} /\ IsFiniteSet(Procs)

VARIABLES
  buf,      \* the buffers: blockno, flags and data
  mru,      \* the list from bcache.head, most recently used first
  idequeue,
  active,   \* the buffer the disk is working for, 0 if none
  irq,      \* it has finished, and its interrupt is pending
  driver, disk,
  pc, want, \* where each reference is, and the block it was asked for
  cur,      \* the buffer it holds or sleeps on, 0 if none
  last      \* (history) what a holder last put in each block

cache == <<buf, mru>>
ide == <<idequeue, active, irq, driver, disk>>
vars == <<cache, ide, pc, want, cur, last>>

Bufs == 1..NBUF
Refs == Procs \X {1, 2}
Other(r) == <<r[1], 3 - r[2]>>

Init ==
  /\ buf = [b \in Bufs |-> [blk |-> NoBlock, busy |-> FALSE, valid |-> FALSE, dirty |-> FALSE,
                            data |-> CHOOSE d \in Data : TRUE]]
  /\ mru = [i \in Bufs |-> NBUF + 1 - i]        \* binit()
  /\ idequeue = <<>> /\ active = 0 /\ irq = FALSE
  /\ driver \in Drivers /\ disk \in [Blocks -> Data]
  /\ pc = [r \in Refs |-> "user"] /\ want = [r \in Refs |-> NoBlock]
  /\ cur = [r \in Refs |-> 0]
  /\ last = disk

At(r, l) == pc[r] = l

\* A bug: a sleeper in bget() takes the buffer it slept on, whatever it is now.
Wake_take(b) ==
  [q \in Refs |-> IF cur[q] = b /\ pc[q] \in {"b_asleep", "io_asleep"} THEN "iowait" ELSE pc[q]]

\* wakeup(b): those in bget() and in iderw() sleep on the same channel.
Wake(b) ==
  [q \in Refs |-> CASE cur[q] = b /\ pc[q] = "b_asleep"  -> "bget"
                     [] cur[q] = b /\ pc[q] = "io_asleep" -> "iowait"
                     [] OTHER -> pc[q]]

(***************************************************************************)
(* bio.c                                                                   *)
(***************************************************************************)
\* Bug: the file system takes a second block in any order.
Nested_any(j, k) == j \in Body => k \notin Body

\* Who asks for block k while holding j.  write_log() and install_trans() hold a
\* block of the log and ask for the home block.
LogNests(j, k) == j \in Body /\ k \notin Body

\* bmap() and itrunc() hold an indirect block while balloc() and bfree() ask for
\* a bitmap block, or bzero() for the block just allocated.
Nested(j, k) == LogNests(j, k) \/ (j \in Indirect /\ k \notin Body \cup Indirect)

\* The thread is not inside a call for its other buffer.
Free(r) == pc[Other(r)] \in {"user", "hold"}

bread(r, k) ==
  /\ At(r, "user")
  /\ \/ r[2] = 1 /\ At(Other(r), "user")
     \/ r[2] = 2 /\ At(Other(r), "hold") /\ Nested(want[Other(r)], k)
  /\ want' = [want EXCEPT ![r] = k] /\ pc' = [pc EXCEPT ![r] = "bget"]
  /\ UNCHANGED <<cache, ide, cur, last>>

Cached(k) == {b \in Bufs : buf[b].blk = k}

\* Bug: a buffer the log has not installed yet is recycled.
Recyclable_dirty(b) == ~buf[b].busy
Recyclable(b) == ~buf[b].busy /\ ~buf[b].dirty

\* Once it has the buffer, bread() reads it in if it must.
Got(r, b, valid) ==
  /\ cur' = [cur EXCEPT ![r] = b]
  /\ pc' = [pc EXCEPT ![r] = IF valid THEN "hold" ELSE "iderw"]
  /\ UNCHANGED <<mru, ide, want, last>>

bget_hit(r) ==
  /\ At(r, "bget")
  /\ \E b \in Cached(want[r]) :
       /\ ~buf[b].busy
       /\ buf' = [buf EXCEPT ![b].busy = TRUE]
       /\ Got(r, b, buf[b].valid)

bget_sleep(r) ==
  /\ At(r, "bget")
  /\ \E b \in Cached(want[r]) : buf[b].busy /\ cur' = [cur EXCEPT ![r] = b]
  /\ pc' = [pc EXCEPT ![r] = "b_asleep"]
  /\ UNCHANGED <<cache, ide, want, last>>

\* Not cached: the least recently used buffer that may be recycled.
bget_recycle(r) ==
  /\ At(r, "bget") /\ Cached(want[r]) = {}
  /\ \E i \in Bufs :
       /\ Recyclable(mru[i]) /\ \A j \in i+1..NBUF : ~Recyclable(mru[j])
       /\ buf' = [buf EXCEPT ![mru[i]] = [@ EXCEPT !.blk = want[r], !.busy = TRUE, !.valid = FALSE, !.dirty = FALSE]]
       /\ Got(r, mru[i], FALSE)

bget_panic(r) ==
  /\ At(r, "bget") /\ Cached(want[r]) = {} /\ \A b \in Bufs : ~Recyclable(b)
  /\ pc' = [pc EXCEPT ![r] = "panic"]
  /\ UNCHANGED <<cache, ide, want, cur, last>>

\* The holder changes the data and calls bwrite() ...
bwrite(r, d) ==
  /\ At(r, "hold") /\ Free(r)
  /\ buf' = [buf EXCEPT ![cur[r]] = [@ EXCEPT !.data = d, !.dirty = TRUE]]
  /\ last' = [last EXCEPT ![buf[cur[r]].blk] = d]
  /\ pc' = [pc EXCEPT ![r] = "iderw"]
  /\ UNCHANGED <<mru, ide, want, cur>>

Writing(b) == \E r \in Refs : cur[r] = b /\ pc[r] \in {"iderw", "io_asleep"}
Pinned == {b \in Bufs : buf[b].dirty /\ ~Writing(b)}

\* ... or log_write(), which reserves room in the log.
log_write(r, d) ==
  /\ At(r, "hold") /\ Free(r) /\ Cardinality(Pinned \cup {cur[r]}) <= MaxPinned
  /\ buf' = [buf EXCEPT ![cur[r]] = [@ EXCEPT !.data = d, !.dirty = TRUE]]
  /\ last' = [last EXCEPT ![buf[cur[r]].blk] = d]
  /\ UNCHANGED <<mru, ide, pc, want, cur>>

\* The list with b moved from its place to the front.
ToFront(b) ==
  LET i == CHOOSE i \in Bufs : mru[i] = b
  IN  [j \in Bufs |-> CASE j = 1 -> b [] j \in 2..i -> mru[j-1] [] OTHER -> mru[j]]

brelse(r) ==
  /\ At(r, "hold") /\ Free(r)
  /\ LET b == cur[r] IN
       /\ mru' = ToFront(b)
       /\ buf' = [buf EXCEPT ![b].busy = FALSE]
       /\ pc' = [Wake(b) EXCEPT ![r] = "user"]
  /\ cur' = [cur EXCEPT ![r] = 0] /\ want' = [want EXCEPT ![r] = NoBlock]
  /\ UNCHANGED <<ide, last>>

(***************************************************************************)
(* ide.c                                                                   *)
(***************************************************************************)
iderw(r) ==
  /\ driver = "ide" /\ At(r, "iderw")
  /\ idequeue' = Append(idequeue, cur[r])
  /\ active' = IF idequeue = <<>> THEN cur[r] ELSE active   \* idestart()
  /\ pc' = [pc EXCEPT ![r] = "io_asleep"]
  /\ UNCHANGED <<cache, irq, driver, disk, want, cur, last>>

\* The loop around sleep() in iderw().
iderw_wait(r) ==
  /\ At(r, "iowait")
  /\ pc' = [pc EXCEPT ![r] = IF buf[cur[r]].valid /\ ~buf[cur[r]].dirty THEN "hold" ELSE "io_asleep"]
  /\ UNCHANGED <<cache, ide, want, cur, last>>

\* The disk does what idestart() asked and raises its interrupt.
disk_done ==
  /\ active # 0 /\ ~irq
  /\ irq' = TRUE
  /\ disk' = IF buf[active].dirty THEN [disk EXCEPT ![buf[active].blk] = buf[active].data] ELSE disk
  /\ UNCHANGED <<cache, idequeue, active, driver, pc, want, cur, last>>

\* A bug: the disk is left idle although requests are queued.
NextActive_idle(q) == 0
NextActive(q) == IF q = <<>> THEN 0 ELSE Head(q)

\* A read takes the data in, if the disk reports no error.
Served(b, error) ==
  [buf[b] EXCEPT !.data = IF buf[b].dirty \/ error THEN @ ELSE disk[buf[b].blk],
                 !.valid = TRUE, !.dirty = FALSE]

ideintr ==
  /\ irq /\ irq' = FALSE
  /\ LET b == Head(idequeue) IN
       /\ idequeue' = Tail(idequeue)
       /\ \E error \in {FALSE, IoErrors} : buf' = [buf EXCEPT ![b] = Served(b, error)]
       /\ pc' = Wake(b)
  /\ active' = NextActive(Tail(idequeue))
  /\ UNCHANGED <<mru, driver, disk, want, cur, last>>

\* memide.c: the transfer is a memmove().
iderw_mem(r) ==
  /\ driver = "mem" /\ At(r, "iderw")
  /\ LET b == cur[r]
         k == buf[b].blk
     IN  /\ disk' = IF buf[b].dirty THEN [disk EXCEPT ![k] = buf[b].data] ELSE disk
         /\ buf' = [buf EXCEPT ![b] = [@ EXCEPT !.data = disk'[k], !.valid = TRUE, !.dirty = FALSE]]
  /\ pc' = [pc EXCEPT ![r] = "hold"]
  /\ UNCHANGED <<mru, idequeue, active, irq, driver, want, cur, last>>

Kernel(r) ==
  \/ bget_hit(r) \/ bget_sleep(r) \/ bget_recycle(r) \/ bget_panic(r)
  \/ iderw(r) \/ iderw_wait(r) \/ iderw_mem(r)

\* panic() stops every CPU.
Next ==
  /\ \A r \in Refs : ~At(r, "panic")
  /\ \/ \E r \in Refs :
          \/ \E k \in Blocks : bread(r, k)
          \/ \E d \in Data : bwrite(r, d) \/ log_write(r, d)
          \/ brelse(r)
          \/ Kernel(r)
     \/ disk_done
     \/ ideintr

Spec == Init /\ [][Next]_vars

(***************************************************************************)
(* Properties                                                              *)
(***************************************************************************)
BufRec == [blk : Blocks \cup {NoBlock}, busy : BOOLEAN, valid : BOOLEAN, dirty : BOOLEAN, data : Data]
Labels == {"user", "bget", "b_asleep", "hold", "iderw", "io_asleep", "iowait", "panic"}

\* The types; the list of buffers holds each of them once.
TypeOK ==
  /\ buf \in [Bufs -> BufRec]
  /\ mru \in [Bufs -> Bufs] /\ \A b \in Bufs : \E i \in Bufs : mru[i] = b
  /\ idequeue \in Seq(Bufs) /\ active \in 0..NBUF /\ irq \in BOOLEAN
  /\ driver \in {"ide", "mem"} /\ disk \in [Blocks -> Data] /\ last \in [Blocks -> Data]
  /\ pc \in [Refs -> Labels]
  /\ cur \in [Refs -> 0..NBUF] /\ want \in [Refs -> Blocks \cup {NoBlock}]

\* "Return a B_BUSY buf with the contents of the indicated block."
BreadReturnsBlock ==
  \A r \in Refs : At(r, "hold") => buf[cur[r]].data = last[buf[cur[r]].blk]

\* What a process between bread() and brelse() sees is what was last put in
\* the block, whichever of evictions, log pins, disk writes and other
\* processes' updates came between; and a block with no valid buffer is up to
\* date on the disk.
Coherent ==
  /\ BreadReturnsBlock
  /\ \A k \in Blocks : (\A b \in Cached(k) : ~buf[b].valid) => disk[k] = last[k]

\* A block has one buffer, and that buffer one holder, who asked for the block:
\* a sleeper in bget() that wakes up looks for its block again.
OneHolder ==
  /\ \A b, c \in Bufs : buf[b].blk = buf[c].blk /\ buf[b].blk # NoBlock => b = c
  /\ \A b \in Bufs :
       Cardinality({r \in Refs : cur[r] = b /\ pc[r] \in {"hold", "iderw", "iowait", "io_asleep"}})
         = IF buf[b].busy THEN 1 ELSE 0
  /\ \A r \in Refs : At(r, "hold") => buf[cur[r]].blk = want[r] /\ buf[cur[r]].valid

\* The disk works for the head of the queue whenever there is one, and every
\* request in the queue, once, has a process waiting for it.
DriverBusy ==
  /\ active = (IF idequeue = <<>> THEN 0 ELSE Head(idequeue))
  /\ IsInjective(idequeue)
  /\ \A i \in DOMAIN idequeue : \E r \in Refs : cur[r] = idequeue[i] /\ pc[r] \in {"io_asleep", "iowait"}

\* Nobody is left asleep: a process that sleeps in bget() waits for a buffer
\* that somebody holds and will release, and one that sleeps in iderw() for a
\* request in the queue the disk works on, although both sleep on the same
\* channel and a wakeup() ends the sleep of all.
NobodyForgotten ==
  /\ DriverBusy
  /\ \A r \in Refs : /\ At(r, "b_asleep") => buf[cur[r]].busy
                     /\ At(r, "io_asleep") => \E n \in DOMAIN idequeue : idequeue[n] = cur[r]

\* A thread asleep in bget() for a buffer that another thread holds.
WaitsFor(p, q) ==
  \E r \in {p} \X {1, 2}, s \in {q} \X {1, 2} :
    At(r, "b_asleep") /\ cur[s] = cur[r] /\ pc[s] \in {"hold", "iderw", "iowait", "io_asleep"}

\* bmap(), itrunc() and the log ask for a second buffer while they hold one
\* (fs.c:373-377, 406-412, log.c), and no order of such calls leaves threads asleep
\* in bget() for each other's buffers.
NoCircularWait ==
  \A S \in SUBSET Procs : S # {} => \E p \in S : \A q \in S : ~WaitsFor(p, q)
=============================================================================
