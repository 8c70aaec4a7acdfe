-------------------------------- MODULE Log ---------------------------------
(***************************************************************************)
(* The redo log of log.c: group commit of concurrent file system calls,    *)
(* power failure between any two disk writes, and recovery at boot.        *)
(*                                                                         *)
(* Blocks are numbered from log.start: block 0 is the header, the body of  *)
(* the log is 1..NLOG-1, and the home blocks follow it immediately, as     *)
(* mkfs lays them out.  A write past the body therefore lands in a home    *)
(* block, exactly as log.start+tail+1 does in the code.                    *)
(***************************************************************************)
EXTENDS Integers, Sequences, FiniteSets, Functions

CONSTANTS Procs,        \* processes that issue file system calls
          NHOME,        \* number of home blocks
          NLOG,         \* sb.nlog, header block included
          LOGSIZE,      \* capacity of struct logheader
          MAXOPBLOCKS,  \* blocks that begin_op() reserves for a call
          Data, Zero    \* block contents; Zero is what mkfs writes

ASSUME ProcsAssumption == IsFiniteSet(Procs)
ASSUME SizeAssumption ==
  /\ NHOME \in Nat /\ NLOG \in Nat \ {0} /\ LOGSIZE \in Nat
  /\ MAXOPBLOCKS \in 1..LOGSIZE
ASSUME DataAssumption == Zero \in Data

LogBody == 1 .. NLOG-1
Home    == NLOG .. NLOG+NHOME-1

VARIABLES
  disk,         \* body of the log and home blocks
  head,         \* the header block on disk: the block numbers it names
  mem,          \* home blocks as bread() returns them
  lh,           \* log.lh: block[0..n-1]
  outstanding, committing,
  pc,           \* where each process is
  cur,          \* b->blockno of a log_write() past its checks
  added,        \* blocks the current call of each process has added to lh
  largest,      \* the most any call has added since the log was last cleared
  step, tail,   \* progress of commit() or recover_from_log(), and its loop index
  panicked      \* panic() was called: nothing runs until a reboot

vars == <<disk, head, mem, lh, outstanding, committing, pc, cur, added,
          largest, step, tail, panicked>>
ops  == <<outstanding, committing, pc, cur, added>>

\* A commit or recovery can be running in one place only.
Steps == {"up", "write_log", "write_head", "install_trans", "clear", "finish", "read_head"}

\* Processes exist only once recover_from_log() has returned.
Running == ~panicked /\ (step = "up" \/ committing)

Active == {p \in Procs : pc[p] \in {"op", "append"}}

\* Every variable has its type; the log names blocks that exist.
TypeOK ==
  /\ disk \in [LogBody \cup Home -> Data]
  /\ head \in Seq(Home)
  /\ mem \in [Home -> Data]
  /\ lh \in Seq(Home)
  /\ outstanding \in Int /\ committing \in BOOLEAN
  /\ pc \in [Procs -> {"idle", "asleep", "begin", "op", "append", "commit"}]
  /\ cur \in [Procs -> Home \cup {0}]
  /\ added \in [Procs -> Nat]
  /\ largest \in Nat
  /\ step \in Steps
  /\ tail \in Nat
  /\ panicked \in BOOLEAN

\* A freshly made file system, booted, with nothing to recover.
Init ==
  /\ disk = [b \in LogBody \cup Home |-> Zero]
  /\ head = <<>>
  /\ mem = [b \in Home |-> Zero]
  /\ lh = <<>>
  /\ outstanding = 0 /\ committing = FALSE
  /\ pc = [p \in Procs |-> "idle"]
  /\ cur = [p \in Procs |-> 0]
  /\ added = [p \in Procs |-> 0]
  /\ largest = 0
  /\ step = "up" /\ tail = 0
  /\ panicked = FALSE

(***************************************************************************)
(* The buffer cache as the log uses it: bread() returns the cached         *)
(* contents, bwrite() updates the cache and the disk in one step.          *)
(***************************************************************************)
bread(b) == IF b \in Home THEN mem[b] ELSE disk[b]

bwrite(b, v) ==
  /\ disk' = [disk EXCEPT ![b] = v]
  /\ mem'  = IF b \in Home THEN [mem EXCEPT ![b] = v] ELSE mem

\* Mutant: the wakeup is forgotten.
wakeup_none(f) == f

\* wakeup(&log): every process asleep in begin_op() evaluates its tests again.
wakeup(f) == [p \in Procs |-> IF f[p] = "asleep" THEN "begin" ELSE f[p]]

panic ==
  /\ panicked' = TRUE
  /\ UNCHANGED <<disk, head, mem, lh, outstanding, committing, pc, cur, added, largest, step, tail>>

(***************************************************************************)
(* begin_op(): one pass of the loop under log.lock.                        *)
(***************************************************************************)
\* Mutant: the reservation forgets the call that is asking.
LogSpaceShort_others == Len(lh) + outstanding * MAXOPBLOCKS > LOGSIZE

LogSpaceShort == Len(lh) + (outstanding + 1) * MAXOPBLOCKS > LOGSIZE

MustWait == committing \/ LogSpaceShort

begin_op_sleep(p) ==
  /\ Running /\ pc[p] \in {"idle", "begin"}
  /\ MustWait
  /\ pc' = [pc EXCEPT ![p] = "asleep"]
  /\ UNCHANGED <<disk, head, mem, lh, outstanding, committing, cur, added, largest, step, tail, panicked>>

begin_op_enter(p) ==
  /\ Running /\ pc[p] \in {"idle", "begin"}
  /\ ~MustWait
  /\ outstanding' = outstanding + 1
  /\ pc' = [pc EXCEPT ![p] = "op"]
  /\ UNCHANGED <<disk, head, mem, lh, committing, cur, added, largest, step, tail, panicked>>

(***************************************************************************)
(* bread, modify and log_write() of one block.  The two panic tests read   *)
(* log.lh.n and log.outstanding before log.lock is taken; the block stays  *)
(* B_BUSY until log_write() has appended it.  A call may log any number of *)
(* blocks: nothing in log.c holds it to MAXOPBLOCKS.  When a transaction   *)
(* grows past LOGSIZE the model goes on as if lh.block[] had the room.     *)
(***************************************************************************)
TooBig == Len(lh) >= LOGSIZE \/ Len(lh) >= NLOG - 1

Modifies(p, b) ==
  /\ Running /\ pc[p] = "op"
  /\ \A q \in Procs : pc[q] = "append" => cur[q] # b

log_write_check(p, b, v) ==
  /\ Modifies(p, b)
  /\ ~TooBig /\ outstanding >= 1
  /\ mem' = [mem EXCEPT ![b] = v]
  /\ cur' = [cur EXCEPT ![p] = b]
  /\ pc' = [pc EXCEPT ![p] = "append"]
  /\ UNCHANGED <<disk, head, lh, outstanding, committing, added, largest, step, tail, panicked>>

log_write_panic(p, b) ==
  /\ Modifies(p, b)
  /\ TooBig \/ outstanding < 1
  /\ panic

Larger(m, n) == IF n > m THEN n ELSE m

Absorb(s, b) == IF b \in Range(s) THEN s ELSE Append(s, b)

log_write_append(p) ==
  /\ Running /\ pc[p] = "append"
  /\ lh' = Absorb(lh, cur[p])
  /\ added' = [added EXCEPT ![p] = @ + Len(lh') - Len(lh)]
  /\ largest' = Larger(largest, added'[p])
  /\ cur' = [cur EXCEPT ![p] = 0]
  /\ pc' = [pc EXCEPT ![p] = "op"]
  /\ UNCHANGED <<disk, head, mem, outstanding, committing, step, tail, panicked>>

(***************************************************************************)
(* end_op(): the last call out commits.  The panic("log.committing") test  *)
(* is CommitIsolated below: a call never reaches end_op() during a commit. *)
(***************************************************************************)
end_op_leave(p) ==
  /\ Running /\ pc[p] = "op" /\ ~committing
  /\ outstanding # 1
  /\ outstanding' = outstanding - 1
  /\ added' = [added EXCEPT ![p] = 0]
  /\ pc' = wakeup([pc EXCEPT ![p] = "idle"])
  /\ UNCHANGED <<disk, head, mem, lh, committing, cur, largest, step, tail, panicked>>

\* Mutant: the header goes out before the blocks it names.
CommitStart_head_first == IF Len(lh) > 0 THEN "write_head" ELSE "finish"

\* commit() does nothing for a transaction that logged no block.
CommitStart == IF Len(lh) > 0 THEN "write_log" ELSE "finish"

end_op_commit(p) ==
  /\ Running /\ pc[p] = "op" /\ ~committing
  /\ outstanding = 1
  /\ outstanding' = 0
  /\ committing' = TRUE
  /\ added' = [added EXCEPT ![p] = 0]
  /\ pc' = [pc EXCEPT ![p] = "commit"]
  /\ step' = CommitStart
  /\ tail' = 0
  /\ UNCHANGED <<disk, head, mem, lh, cur, largest, panicked>>

(***************************************************************************)
(* commit() and recover_from_log(): one disk write per step.               *)
(***************************************************************************)
write_log ==
  /\ ~panicked /\ step = "write_log"
  /\ tail < Len(lh)
  /\ bwrite(tail + 1, bread(lh[tail + 1]))
  /\ tail' = tail + 1
  /\ step' = IF tail + 1 = Len(lh) THEN "write_head" ELSE step
  /\ UNCHANGED <<head, lh, ops, largest, panicked>>

\* write_head() with n > 0: the commit point.
write_head ==
  /\ ~panicked /\ step = "write_head"
  /\ head' = lh
  /\ step' = "install_trans" /\ tail' = 0
  /\ UNCHANGED <<disk, mem, lh, ops, largest, panicked>>

install_trans ==
  /\ ~panicked /\ step = "install_trans"
  /\ tail < Len(lh)
  /\ bwrite(lh[tail + 1], bread(tail + 1))
  /\ tail' = tail + 1
  /\ UNCHANGED <<head, lh, ops, step, largest, panicked>>

\* The loop of install_trans() is over: log.lh.n = 0.
install_done ==
  /\ ~panicked /\ step = "install_trans"
  /\ tail >= Len(lh)
  /\ lh' = <<>>
  /\ step' = "clear" /\ tail' = 0
  /\ UNCHANGED <<disk, head, mem, ops, largest, panicked>>

\* write_head() with n = 0.
clear_head ==
  /\ ~panicked /\ step = "clear"
  /\ head' = lh /\ largest' = 0
  /\ step' = IF committing THEN "finish" ELSE "up"
  /\ UNCHANGED <<disk, mem, lh, ops, tail, panicked>>

end_op_finish(p) ==
  /\ Running /\ step = "finish" /\ pc[p] = "commit"
  /\ committing' = FALSE
  /\ pc' = wakeup([pc EXCEPT ![p] = "idle"])
  /\ step' = "up"
  /\ UNCHANGED <<disk, head, mem, lh, outstanding, cur, added, tail, largest, panicked>>

\* read_head() of recover_from_log().
read_head ==
  /\ ~panicked /\ step = "read_head"
  /\ lh' = head
  /\ step' = "install_trans" /\ tail' = 0
  /\ UNCHANGED <<disk, head, mem, ops, largest, panicked>>

(***************************************************************************)
(* Power failure, or the reboot after a panic: memory is lost, the disk is *)
(* kept, and initlog() starts recovery.                                    *)
(***************************************************************************)
Crash ==
  /\ mem' = [b \in Home |-> disk[b]]
  /\ lh' = <<>>
  /\ outstanding' = 0 /\ committing' = FALSE
  /\ pc' = [p \in Procs |-> "idle"]
  /\ cur' = [p \in Procs |-> 0]
  /\ added' = [p \in Procs |-> 0]
  /\ step' = "read_head" /\ tail' = 0
  /\ panicked' = FALSE
  /\ UNCHANGED <<disk, head, largest>>

Call(p) ==
  \/ begin_op_sleep(p)
  \/ begin_op_enter(p)
  \/ \E b \in Home, v \in Data : log_write_check(p, b, v)
  \/ \E b \in Home : log_write_panic(p, b)
  \/ log_write_append(p)
  \/ end_op_leave(p)
  \/ end_op_commit(p)

Committer ==
  \/ write_log
  \/ write_head
  \/ install_trans
  \/ install_done
  \/ clear_head
  \/ read_head
  \/ \E p \in Procs : end_op_finish(p)

Run  == Committer \/ \E p \in Procs : Call(p)
Next == Run \/ Crash

Spec == Init /\ [][Next]_vars

(***************************************************************************)
(* Fairness: the committer makes progress (the disk answers), a process    *)
(* past the checks of log_write() appends, and a file system call writes   *)
(* finitely many blocks and then calls end_op().  Power may fail at any    *)
(* time.                                                                   *)
(***************************************************************************)
LiveSpec ==
  /\ Spec
  /\ WF_vars(Committer)
  /\ \A p \in Procs : /\ WF_vars(log_write_append(p))
                       /\ SF_vars(end_op_leave(p) \/ end_op_commit(p))

-----------------------------------------------------------------------------
\* Contents of the home blocks after a crash now and a complete recovery:
\* the blocks named by the header come from the body of the log.
LogSlot(h, b) == CHOOSE i \in 1..Len(h) : h[i] = b

Recovered ==
  [b \in Home |-> IF b \in Range(head) THEN disk[LogSlot(head, b)] ELSE disk[b]]

\* outstanding counts the calls in progress, and the one process that set
\* committing runs commit() while no call is in progress: the panic in
\* end_op() cannot fire, and begin_op() keeps newcomers out (log.c:129-135).
CommitIsolated ==
  /\ outstanding = Cardinality(Active)
  /\ committing => Active = {}
  /\ committing <=> \E p \in Procs : pc[p] = "commit"
  /\ \A p, q \in Procs : pc[p] = "commit" /\ pc[q] = "commit" => p = q

\* What the calls in progress have not used of what begin_op() reserved for them.
Reserved == {t \in Active \X (1..MAXOPBLOCKS) : t[2] > added[t[1]]}

\* Reservation in begin_op(): as long as no call of the transaction has added
\* more than the MAXOPBLOCKS blocks reserved for it, the blocks logged and the
\* reservations of the calls in progress fit the LOGSIZE entries of lh.block[],
\* although log_write() tests log.lh.n before it takes log.lock.
HeaderFits == largest <= MAXOPBLOCKS => Len(lh) + Cardinality(Reserved) <= LOGSIZE

\* With calls of any size, the unlocked tests of log_write() let a transaction
\* past the limit that they test, by fewer blocks than begin_op() admits calls at
\* a time (LOGSIZE / MAXOPBLOCKS of them).
Limit == IF LOGSIZE < NLOG - 1 THEN LOGSIZE ELSE NLOG - 1
OverrunBounded == (Len(lh) - Limit + 1) * MAXOPBLOCKS <= LOGSIZE

\* The assertion of log_write(), log.lh.n < log.size - 1 before an append: the
\* body of the on-disk log never spills into the blocks that follow it.
LogRegionFits == Len(lh) <= NLOG - 1

\* begin_op() waits for log space, so a call that keeps to MAXOPBLOCKS blocks
\* never dies in log_write() with "too big a transaction".
ReservationSuffices == ~panicked

\* Whenever no call is in progress and no commit is running, a crash loses
\* nothing: end_op() of the last call has made every finished call durable.
QuiescentDurable == Running /\ ~committing /\ outstanding = 0 => Recovered = mem

\* A process asleep in begin_op() has somebody left to wake it: a commit in
\* progress or a call that has yet to reach end_op().
SleeperHasWaker ==
  (\E p \in Procs : pc[p] = "asleep") => panicked \/ committing \/ outstanding > 0

\* Nobody sleeps in begin_op() while its call could start: whenever a process is
\* asleep, the tests of begin_op() would send it back to sleep.  So every change
\* that frees log space, also one call leaving while others go on
\* (log.c:156-159), is followed by a wakeup() in the same critical section.
SleepsForSpace == (\E p \in Procs : pc[p] = "asleep") => panicked \/ MustWait

\* Every process that begin_op() puts to sleep is woken, even when the other
\* calls overlap so that outstanding never drops to zero (log.c:156-159),
\* unless a panic stops the system first or a power failure ends the process.
BeginOpWoken == \A p \in Procs : pc[p] = "asleep" ~> pc[p] # "asleep" \/ panicked

\* What a call would read: after a crash nothing runs before recovery is over.
MemView == IF Running \/ panicked THEN mem ELSE Recovered

\* Each call is atomic across crashes: the log implements AtomicDisk, with the
\* recovered contents as the stable disk.
Disk == INSTANCE AtomicDisk WITH
  mem    <- MemView,
  stable <- Recovered,
  active <- Active
\* The log implements AtomicDisk at every step of a transaction that fits the
\* body of the on-disk log, also after one that did not.
Overrun == ~(LogRegionFits /\ Len(head) <= NLOG - 1)
DiskSpec == Disk!Init /\ [][Disk!Next \/ Overrun]_(Disk!vars)
=============================================================================
