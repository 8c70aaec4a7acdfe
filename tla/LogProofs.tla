----------------------------- MODULE LogProofs ------------------------------
(***************************************************************************)
(* Proofs about the redo log, for every number of processes, every log     *)
(* size and every number of home blocks.                                   *)
(***************************************************************************)
EXTENDS Log, FiniteSetTheorems, TLAPS

\* Leaves that name no prover are Zenon's.
USE Zenon

NoDup(s) == \A i, j \in 1..Len(s) : s[i] = s[j] => i = j

\* log_write() appends a block it was given, and absorption keeps lh.block[]
\* and the header on disk free of duplicates.
AppendOK == \A p \in Procs : pc[p] = "append" => cur[p] \in Home
SlotsOK  == NoDup(lh) /\ NoDup(head)

TypeInv == TypeOK /\ AppendOK /\ SlotsOK

\* A duplicate-free list of home blocks is no longer than the home area.
LEMMA NoDupBound ==
  ASSUME NEW s \in Seq(Home), NoDup(s)
  PROVE  Len(s) <= NHOME
<1>. DEFINE S == 1..Len(s)
<1>1. IsFiniteSet(S) /\ Cardinality(S) = Len(s)
  <2>1. 1 \in Int /\ Len(s) \in Int /\ Len(s) >= 0
    BY SMT
  <2>. QED
    BY SMTT(30), <2>1, FS_Interval
<1>2. IsFiniteSet(Home) /\ Cardinality(Home) = NHOME
  <2>1. NLOG \in Int /\ NLOG+NHOME-1 \in Int
    BY SMT, SizeAssumption
  <2>. QED
    BY SMT, <2>1, FS_Interval, SizeAssumption DEF Home
<1>3. [i \in S |-> s[i]] \in [S -> Home]
  BY SMT
<1>4. SUFFICES ASSUME NHOME < Len(s) PROVE FALSE
  BY SMT, SizeAssumption
<1>5. PICK i, j \in S : i # j /\ [k \in S |-> s[k]][i] = [k \in S |-> s[k]][j]
  BY SMT, <1>1, <1>2, <1>3, <1>4, FS_PigeonHole
<1>. QED
  BY <1>5 DEF NoDup

\* What log_write() does to the list of blocks: one entry at most is new.
LEMMA AbsorbFacts ==
  ASSUME NEW s \in Seq(Home), NEW b \in Home, NoDup(s)
  PROVE  /\ Absorb(s, b) \in Seq(Home)
         /\ NoDup(Absorb(s, b))
         /\ Range(Absorb(s, b)) = Range(s) \cup {b}
         /\ Len(Absorb(s, b)) = IF b \in Range(s) THEN Len(s) ELSE Len(s) + 1
<1>1. CASE b \in Range(s)
  BY <1>1 DEF Absorb
<1>2. CASE b \notin Range(s)
  <2>1. Absorb(s, b) = Append(s, b)
    BY <1>2 DEF Absorb
  <2>2. /\ Append(s, b) \in Seq(Home)
        /\ Len(Append(s, b)) = Len(s) + 1
        /\ \A i \in 1..Len(s) : Append(s, b)[i] = s[i]
        /\ Append(s, b)[Len(s)+1] = b
    BY SMT
  <2>3. \A i \in 1..Len(s) : s[i] # b
    BY SMT, <1>2 DEF Range
  <2>4. NoDup(Append(s, b))
    BY SMT, <2>2, <2>3 DEF NoDup
  <2>5. Range(Append(s, b)) = Range(s) \cup {b}
    BY SMT, <2>2 DEF Range
  <2>. QED
    BY <2>1, <2>2, <2>4, <2>5, <1>2
<1>. QED
  BY <1>1, <1>2

\* Every variable keeps its type; block addresses computed as log.start+tail+1
\* always exist on the disk.
LEMMA Typing == Spec => []TypeInv
<1>. USE SizeAssumption, DataAssumption
<1>1. Init => TypeInv
  <2>. SUFFICES ASSUME Init PROVE TypeInv
    OBVIOUS
  <2>1. <<>> \in Seq(Home) /\ NoDup(<<>>)
    BY SMT DEF NoDup
  <2>2. TypeOK
    <3>1. added \in [Procs -> Nat] /\ largest \in Nat /\ cur \in [Procs -> Home \cup {0}]
      BY SMT DEF Init
    <3>2. disk \in [LogBody \cup Home -> Data] /\ mem \in [Home -> Data]
      BY DEF Init
    <3>3. head \in Seq(Home) /\ lh \in Seq(Home)
      BY <2>1 DEF Init
    <3>4. committing \in BOOLEAN /\ panicked \in BOOLEAN
      BY DEF Init
    <3>5. outstanding \in Int /\ tail \in Nat /\ step \in Steps
      BY SMT DEF Init, Steps
    <3>6. pc \in [Procs -> {"idle", "asleep", "begin", "op", "append", "commit"}]
      BY DEF Init
    <3>. QED
      BY <3>1, <3>2, <3>3, <3>4, <3>5, <3>6 DEF TypeOK
  <2>3. AppendOK /\ SlotsOK
    BY <2>1 DEF Init, AppendOK, SlotsOK
  <2>. QED
    BY <2>2, <2>3 DEF TypeInv
<1>2. TypeInv /\ [Next]_vars => TypeInv'
  <2>. SUFFICES ASSUME TypeInv, [Next]_vars
                PROVE  TypeInv'
    OBVIOUS
  <2>. USE DEF TypeInv, TypeOK, AppendOK, SlotsOK, Steps
  <2>1. ASSUME NEW p \in Procs, begin_op_sleep(p) PROVE TypeInv'
    BY <2>1 DEF begin_op_sleep
  <2>2. ASSUME NEW p \in Procs, begin_op_enter(p) PROVE TypeInv'
    BY SMT, <2>2 DEF begin_op_enter
  <2>3. ASSUME NEW p \in Procs, NEW b \in Home, NEW v \in Data, log_write_check(p, b, v)
        PROVE  TypeInv'
    BY <2>3 DEF log_write_check
  <2>4. ASSUME NEW p \in Procs, NEW b \in Home, log_write_panic(p, b) PROVE TypeInv'
    BY <2>4 DEF log_write_panic, panic
  <2>5. ASSUME NEW p \in Procs, log_write_append(p) PROVE TypeInv'
    <3>1. /\ cur[p] \in Home /\ lh' = Absorb(lh, cur[p])
          /\ lh' \in Seq(Home) /\ NoDup(lh')
          /\ Len(lh') = IF cur[p] \in Range(lh) THEN Len(lh) ELSE Len(lh) + 1
      BY <2>5, AbsorbFacts DEF log_write_append
    <3>2. Len(lh) \in Nat /\ Len(lh') \in Nat /\ Len(lh) <= Len(lh')
      BY SMT, <3>1
    <3>3. added[p] + Len(lh') - Len(lh) \in Nat
      BY SMT, <3>2
    <3>4. added' \in [Procs -> Nat] /\ added'[p] \in Nat
      BY <2>5, <3>3 DEF log_write_append
    <3>5. largest' \in Nat
      BY <2>5, <3>4 DEF log_write_append, Larger
    <3>. QED
      BY <2>5, <3>1, <3>4, <3>5 DEF log_write_append
  <2>6. ASSUME NEW p \in Procs, end_op_leave(p) PROVE TypeInv'
    BY SMT, <2>6 DEF end_op_leave, wakeup
  <2>7. ASSUME NEW p \in Procs, end_op_commit(p) PROVE TypeInv'
    BY SMT, <2>7 DEF end_op_commit, CommitStart
  <2>8. CASE write_log
    <3>1. lh[tail + 1] \in Home
      BY SMT, <2>8 DEF write_log
    <3>2. bread(lh[tail + 1]) \in Data
      BY <3>1 DEF bread
    <3>3. disk' \in [LogBody \cup Home -> Data] /\ mem' \in [Home -> Data]
      BY <2>8, <3>2 DEF write_log, bwrite
    <3>. QED
      BY SMT, <2>8, <3>3 DEF write_log, ops
  <2>9. CASE write_head
    BY <2>9 DEF write_head, ops
  <2>10. CASE install_trans
    <3>1. tail + 1 \in 1..Len(lh)
      BY SMT, <2>10 DEF install_trans
    <3>2. tail + 1 \in LogBody \cup Home
      BY SMT, <3>1, NoDupBound DEF LogBody, Home
    <3>. QED
      BY SMT, <2>10, <3>1, <3>2 DEF install_trans, bread, bwrite, ops
  <2>11. CASE install_done
    BY SMT, <2>11 DEF install_done, ops, NoDup
  <2>12. CASE clear_head
    BY SMT, <2>12 DEF clear_head, ops
  <2>13. CASE read_head
    BY <2>13 DEF read_head, ops
  <2>14. ASSUME NEW p \in Procs, end_op_finish(p) PROVE TypeInv'
    BY <2>14 DEF end_op_finish, wakeup
  <2>15. CASE Crash
    <3>1. mem' \in [Home -> Data] /\ <<>> \in Seq(Home) /\ NoDup(<<>>)
      BY SMT, <2>15 DEF Crash, NoDup
    <3>2. /\ added' \in [Procs -> Nat] /\ largest' \in Nat
          /\ cur' \in [Procs -> Home \cup {0}]
      BY SMT, <2>15 DEF Crash
    <3>3. committing' \in BOOLEAN /\ panicked' \in BOOLEAN
      BY <2>15 DEF Crash
    <3>4. pc' \in [Procs -> {"idle", "asleep", "begin", "op", "append", "commit"}]
      BY <2>15 DEF Crash
    <3>5. lh' \in Seq(Home) /\ NoDup(lh') /\ head' = head /\ disk' = disk
      BY <2>15, <3>1 DEF Crash
    <3>6. outstanding' \in Int /\ tail' \in Nat /\ step' \in Steps /\ AppendOK'
      BY SMT, <2>15 DEF Crash
    <3>. QED
      BY <3>1, <3>2, <3>3, <3>4, <3>5, <3>6
  <2>16. CASE UNCHANGED vars
    BY <2>16 DEF vars, NoDup
  <2>. QED
    BY <2>1, <2>2, <2>3, <2>4, <2>5, <2>6, <2>7, <2>8, <2>9, <2>10, <2>11,
       <2>12, <2>13, <2>14, <2>15, <2>16 DEF Next, Run, Committer, Call
<1>. QED
  BY <1>1, <1>2, PTL DEF Spec

\* Every variable of the log keeps its type through calls, commits, crashes and
\* recovery, and no entry of the header names a block that is not on the disk.
THEOREM LogTypes == Spec => []TypeOK
<1>1. TypeInv => TypeOK
  BY DEF TypeInv
<1>. QED
  BY <1>1, Typing, PTL

-----------------------------------------------------------------------------
\* Where commit() and recover_from_log() can be, given log.committing.
Phase ==
  /\ step = "up" => ~committing
  /\ step \in {"write_log", "write_head", "finish"} => committing
  /\ step = "read_head" => ~committing
  /\ step # "up" /\ ~committing => \A p \in Procs : pc[p] = "idle"

IsolationInv == CommitIsolated /\ Phase

\* The calls in progress can be counted.
LEMMA ActiveFinite == IsFiniteSet(Active) /\ Cardinality(Active) \in Nat
<1>1. Active \in SUBSET Procs
  BY DEF Active
<1>. QED
  BY <1>1, ProcsAssumption, FS_Subset, FS_CardinalityType

\* IsolationInv is inductive relative to the typing.
LEMMA Isolation == Spec => []IsolationInv
<1>1. Init => IsolationInv
  <2>. SUFFICES ASSUME Init PROVE IsolationInv
    OBVIOUS
  <2>1. Active = {}
    BY DEF Init, Active
  <2>. QED
    BY <2>1, FS_EmptySet DEF Init, IsolationInv, CommitIsolated, Phase
<1>2. TypeInv /\ IsolationInv /\ [Next]_vars => IsolationInv'
  <2>. SUFFICES ASSUME TypeInv, IsolationInv, [Next]_vars
                PROVE  IsolationInv'
    OBVIOUS
  <2>. USE DEF TypeInv, TypeOK, IsolationInv, CommitIsolated, Phase, Running
  <2>1. ASSUME NEW p \in Procs, begin_op_sleep(p) PROVE IsolationInv'
    <3>1. Active' = Active
      BY <2>1 DEF begin_op_sleep, Active
    <3>. QED
      BY <2>1, <3>1 DEF begin_op_sleep
  <2>2. ASSUME NEW p \in Procs, begin_op_enter(p) PROVE IsolationInv'
    <3>1. Active' = Active \cup {p} /\ p \notin Active
      BY SMT, <2>2 DEF begin_op_enter, Active
    <3>2. Cardinality(Active') = Cardinality(Active) + 1
      BY <3>1, ActiveFinite, FS_AddElement
    <3>. QED
      BY <2>2, <3>1, <3>2 DEF begin_op_enter, MustWait
  <2>3. ASSUME NEW p \in Procs, NEW b \in Home, NEW v \in Data, log_write_check(p, b, v)
        PROVE  IsolationInv'
    <3>1. Active' = Active
      BY <2>3 DEF log_write_check, Modifies, Active
    <3>. QED
      BY <2>3, <3>1 DEF log_write_check, Modifies
  <2>4. ASSUME NEW p \in Procs, NEW b \in Home, log_write_panic(p, b) PROVE IsolationInv'
    BY <2>4 DEF log_write_panic, panic, Active
  <2>5. ASSUME NEW p \in Procs, log_write_append(p) PROVE IsolationInv'
    <3>1. Active' = Active
      BY <2>5 DEF log_write_append, Active
    <3>. QED
      BY <2>5, <3>1 DEF log_write_append
  <2>6. ASSUME NEW p \in Procs, end_op_leave(p) PROVE IsolationInv'
    <3>1. Active' = Active \ {p} /\ p \in Active
      BY <2>6 DEF end_op_leave, wakeup, Active
    <3>2. Cardinality(Active') = Cardinality(Active) - 1
      BY <3>1, ActiveFinite, FS_RemoveElement
    <3>. QED
      BY <2>6, <3>1, <3>2 DEF end_op_leave, wakeup
  <2>7. ASSUME NEW p \in Procs, end_op_commit(p) PROVE IsolationInv'
    <3>1. Active' = Active \ {p} /\ p \in Active
      BY <2>7 DEF end_op_commit, Active
    <3>2. Cardinality(Active') = 0 /\ IsFiniteSet(Active')
      <4>1. Cardinality(Active) = 1
        BY <2>7 DEF end_op_commit
      <4>2. /\ IsFiniteSet(Active \ {p})
            /\ Cardinality(Active \ {p}) = Cardinality(Active) - 1
        BY <3>1, ActiveFinite, FS_RemoveElement
      <4>. QED
        BY SMT, <4>1, <4>2, <3>1
    <3>3. Active' = {}
      BY <3>2, FS_EmptySet
    <3>. QED
      BY <2>7, <3>2, <3>3 DEF end_op_commit, CommitStart
  <2>8. CASE write_log \/ write_head \/ install_trans \/ install_done \/ clear_head \/ read_head
    <3>1. UNCHANGED ops /\ Active' = Active
      BY <2>8 DEF write_log, write_head, install_trans, install_done, clear_head, read_head,
                  ops, Active
    <3>2. Phase'
      BY <2>8, <3>1 DEF write_log, write_head, install_trans, install_done, clear_head,
                        read_head, ops
    <3>. QED
      BY <3>1, <3>2 DEF ops
  <2>9. ASSUME NEW p \in Procs, end_op_finish(p) PROVE IsolationInv'
    <3>1. Active' = Active
      BY <2>9 DEF end_op_finish, wakeup, Active
    <3>. QED
      BY <2>9, <3>1 DEF end_op_finish, wakeup
  <2>10. CASE Crash
    <3>1. Active' = {}
      BY <2>10 DEF Crash, Active
    <3>. QED
      BY <2>10, <3>1, FS_EmptySet DEF Crash
  <2>11. CASE UNCHANGED vars
    BY <2>11 DEF vars, Active
  <2>. QED
    BY <2>1, <2>2, <2>3, <2>4, <2>5, <2>6, <2>7, <2>8, <2>9, <2>10, <2>11
       DEF Next, Run, Committer, Call
<1>. QED
  BY <1>1, <1>2, Typing, PTL DEF Spec

\* A commit runs alone: log.outstanding counts the calls in progress, and while
\* log.committing is set there are none, so end_op() cannot panic.
THEOREM CommitIsolation == Spec => []CommitIsolated
<1>1. IsolationInv => CommitIsolated
  BY DEF IsolationInv
<1>. QED
  BY <1>1, Isolation, PTL

-----------------------------------------------------------------------------
\* With no call in progress and no commit running the log is empty, so the
\* process that asks for space then gets it.
QuietInv ==
  /\ step \in {"clear", "finish"} => lh = <<>>
  /\ step = "up" /\ outstanding = 0 => lh = <<>>
  /\ SleeperHasWaker

\* QuietInv is inductive relative to the typing and the isolation of commits.
LEMMA Quiet == Spec => []QuietInv
<1>. USE SizeAssumption
<1>1. Init => QuietInv
  BY DEF Init, QuietInv, SleeperHasWaker
<1>2. TypeInv /\ IsolationInv /\ QuietInv /\ [Next]_vars => QuietInv'
  <2>. SUFFICES ASSUME TypeInv, IsolationInv, QuietInv, [Next]_vars
                PROVE  QuietInv'
    OBVIOUS
  <2>. USE DEF QuietInv, SleeperHasWaker, Running, TypeInv, TypeOK
  <2>1. ASSUME NEW p \in Procs, begin_op_sleep(p) PROVE QuietInv'
    <3>1. committing \/ outstanding > 0
      <4>1. SUFFICES ASSUME ~committing, outstanding = 0 PROVE FALSE
        BY SMT, ActiveFinite DEF IsolationInv, CommitIsolated
      <4>2. lh = <<>> /\ Len(lh) = 0
        BY <2>1, <4>1 DEF begin_op_sleep
      <4>3. Len(lh) + (0 + 1) * MAXOPBLOCKS > LOGSIZE
        BY <2>1, <4>1 DEF begin_op_sleep, MustWait, LogSpaceShort
      <4>. QED
        BY SMT, <4>2, <4>3
    <3>. QED
      BY <2>1, <3>1 DEF begin_op_sleep
  <2>2. ASSUME NEW p \in Procs, begin_op_enter(p) PROVE QuietInv'
    <3>1. outstanding >= 0
      BY SMT, ActiveFinite DEF IsolationInv, CommitIsolated
    <3>. QED
      BY SMT, <2>2, <3>1 DEF begin_op_enter, MustWait, IsolationInv, Phase
  <2>3. ASSUME NEW p \in Procs, NEW b \in Home, NEW v \in Data, log_write_check(p, b, v)
        PROVE  QuietInv'
    BY <2>3 DEF log_write_check, Modifies
  <2>4. ASSUME NEW p \in Procs, NEW b \in Home, log_write_panic(p, b) PROVE QuietInv'
    BY <2>4 DEF log_write_panic, panic
  <2>5. ASSUME NEW p \in Procs, log_write_append(p) PROVE QuietInv'
    <3>1. p \in Active
      BY <2>5 DEF log_write_append, Active
    <3>2. outstanding # 0 /\ ~committing
      BY <3>1, ActiveFinite, FS_EmptySet DEF IsolationInv, CommitIsolated
    <3>. QED
      BY <2>5, <3>2 DEF log_write_append, IsolationInv, Phase
  <2>6. ASSUME NEW p \in Procs, end_op_leave(p) PROVE QuietInv'
    <3>1. \A q \in Procs : pc'[q] # "asleep"
      BY <2>6 DEF end_op_leave, wakeup
    <3>2. step = "up" /\ outstanding' # 0
      BY SMT, <2>6 DEF end_op_leave
    <3>. QED
      BY <2>6, <3>1, <3>2 DEF end_op_leave
  <2>7. ASSUME NEW p \in Procs, end_op_commit(p) PROVE QuietInv'
    BY SMT, <2>7 DEF end_op_commit, CommitStart
  <2>8. CASE write_log \/ write_head \/ install_trans \/ install_done \/ clear_head \/ read_head
    <3>1. UNCHANGED <<ops, panicked>>
      BY <2>8 DEF write_log, write_head, install_trans, install_done, clear_head, read_head
    <3>2. SleeperHasWaker'
      BY <3>1 DEF ops
    <3>. QED
      BY <2>8, <3>2 DEF write_log, write_head, install_trans, install_done, clear_head, read_head
  <2>9. ASSUME NEW p \in Procs, end_op_finish(p) PROVE QuietInv'
    <3>1. \A q \in Procs : pc'[q] # "asleep"
      BY <2>9 DEF end_op_finish, wakeup
    <3>. QED
      BY <2>9, <3>1 DEF end_op_finish
  <2>10. CASE Crash
    BY <2>10 DEF Crash
  <2>11. CASE UNCHANGED vars
    BY <2>11 DEF vars
  <2>. QED
    BY <2>1, <2>2, <2>3, <2>4, <2>5, <2>6, <2>7, <2>8, <2>9, <2>10, <2>11
       DEF Next, Run, Committer, Call
<1>. QED
  BY <1>1, <1>2, Typing, Isolation, PTL DEF Spec

\* No wakeup is lost in begin_op() and end_op(): as long as a process is asleep,
\* a commit or a call that will wake it is still to come.
THEOREM NoLostWakeup == Spec => []SleeperHasWaker
<1>1. QuietInv => SleeperHasWaker
  BY DEF QuietInv
<1>. QED
  BY <1>1, Quiet, PTL

-----------------------------------------------------------------------------
(***************************************************************************)
(* Log space.  As long as no call has added more than MAXOPBLOCKS blocks,  *)
(* the blocks logged and what the calls in progress have reserved and not  *)
(* used never exceed LOGSIZE; and a transaction leaves free what its       *)
(* largest call did not use, in lh.block[] and in the header on disk.      *)
(***************************************************************************)
SpaceInv ==
  largest <= MAXOPBLOCKS =>
    /\ Len(lh) + Cardinality(Reserved) <= LOGSIZE
    /\ Len(lh) <= LOGSIZE - MAXOPBLOCKS + largest
    /\ Len(head) <= LOGSIZE - MAXOPBLOCKS + largest

\* A reservation of MAXOPBLOCKS blocks for each of a finite set of calls.
LEMMA ReservationSize ==
  ASSUME NEW A, IsFiniteSet(A), NEW R \in SUBSET (A \X (1..MAXOPBLOCKS))
  PROVE  /\ IsFiniteSet(R) /\ Cardinality(R) \in Nat
         /\ Cardinality(R) <= Cardinality(A) * MAXOPBLOCKS
<1>1. IsFiniteSet(1..MAXOPBLOCKS) /\ Cardinality(1..MAXOPBLOCKS) = MAXOPBLOCKS
  <2>1. 1 \in Int /\ MAXOPBLOCKS \in Int /\ MAXOPBLOCKS >= 1
    BY SMT, SizeAssumption
  <2>. QED
    BY SMT, <2>1, FS_Interval
<1>2. /\ IsFiniteSet(A \X (1..MAXOPBLOCKS))
      /\ Cardinality(A \X (1..MAXOPBLOCKS)) = Cardinality(A) * MAXOPBLOCKS
  BY <1>1, FS_Product
<1>3. IsFiniteSet(R) /\ Cardinality(R) <= Cardinality(A \X (1..MAXOPBLOCKS))
  BY <1>2, FS_Subset
<1>. QED
  BY <1>2, <1>3, FS_CardinalityType

\* What the calls in progress have reserved and not used can be counted.
LEMMA ReservedFinite ==
  /\ IsFiniteSet(Reserved) /\ Cardinality(Reserved) \in Nat
  /\ Cardinality(Reserved) <= Cardinality(Active) * MAXOPBLOCKS
<1>1. Reserved \in SUBSET (Active \X (1..MAXOPBLOCKS))
  BY DEF Reserved
<1>. QED
  BY <1>1, ActiveFinite, ReservationSize

\* A call in progress that has added k blocks still holds the other MAXOPBLOCKS-k.
LEMMA Unused ==
  ASSUME NEW R, IsFiniteSet(R), NEW p, NEW k \in 0..MAXOPBLOCKS,
         \A j \in (k+1)..MAXOPBLOCKS : <<p, j>> \in R
  PROVE  MAXOPBLOCKS - k <= Cardinality(R)
<1>. DEFINE I == (k+1)..MAXOPBLOCKS
<1>1. IsFiniteSet(I) /\ Cardinality(I) = MAXOPBLOCKS - k
  <2>1. k+1 \in Int /\ MAXOPBLOCKS \in Int
    BY SMT, SizeAssumption
  <2>2. IsFiniteSet(I) /\ Cardinality(I) = IF k+1 > MAXOPBLOCKS THEN 0 ELSE MAXOPBLOCKS - (k+1) + 1
    BY <2>1, FS_Interval
  <2>. HIDE DEF I
  <2>. QED
    BY SMT, <2>2, SizeAssumption
<1>2. IsFiniteSet({p}) /\ Cardinality({p}) = 1
  BY FS_Singleton
<1>3. /\ IsFiniteSet({p} \X I)
      /\ Cardinality({p} \X I) = Cardinality({p}) * Cardinality(I)
  <2>. HIDE DEF I
  <2>. QED
    BY <1>1, <1>2, FS_Product
<1>4. {p} \X I \in SUBSET R
  BY SMT
<1>5. Cardinality({p} \X I) <= Cardinality(R)
  <2>. HIDE DEF I
  <2>. QED
    BY <1>3, <1>4, FS_Subset
<1>. HIDE DEF I
<1>. QED
  BY SMT, <1>1, <1>2, <1>3, <1>5, SizeAssumption

\* A step that reserves nothing and keeps the log, its header and the history
\* keeps the space invariant.
LEMMA SpaceKept ==
  ASSUME TypeInv, SpaceInv,
         lh' = lh, head' = head \/ head' = lh, largest' = largest, Reserved' \subseteq Reserved
  PROVE  SpaceInv'
<1>1. Cardinality(Reserved') <= Cardinality(Reserved) /\ Cardinality(Reserved') \in Nat
  <2>1. Reserved' \in SUBSET Reserved
    OBVIOUS
  <2>. QED
    BY <2>1, ReservedFinite, FS_Subset, FS_CardinalityType
<1>2. Len(lh) \in Nat /\ Len(head) \in Nat
  BY SMT DEF TypeInv, TypeOK
<1>. SUFFICES ASSUME largest <= MAXOPBLOCKS
              PROVE  /\ Len(lh') + Cardinality(Reserved') <= LOGSIZE
                     /\ Len(lh') <= LOGSIZE - MAXOPBLOCKS + largest
                     /\ Len(head') <= LOGSIZE - MAXOPBLOCKS + largest
  BY DEF SpaceInv
<1>3. /\ Len(lh) + Cardinality(Reserved) <= LOGSIZE
      /\ Len(lh) <= LOGSIZE - MAXOPBLOCKS + largest
      /\ Len(head) <= LOGSIZE - MAXOPBLOCKS + largest
  BY DEF SpaceInv
<1>4. Len(lh') + Cardinality(Reserved') <= LOGSIZE
  BY SMT, <1>1, <1>2, <1>3, ReservedFinite, SizeAssumption
<1>. QED
  BY <1>3, <1>4

\* When no call is in progress afterwards, only the lengths matter.
LEMMA SpaceIdle ==
  ASSUME TypeInv', Active' = {},
         largest' <= MAXOPBLOCKS => /\ Len(lh') <= LOGSIZE - MAXOPBLOCKS + largest'
                                    /\ Len(head') <= LOGSIZE - MAXOPBLOCKS + largest'
  PROVE  SpaceInv'
<1>1. Reserved' = {}
  BY DEF Reserved
<1>2. Cardinality(Reserved') = 0
  BY <1>1, FS_EmptySet
<1>3. Len(lh') \in Nat /\ largest' \in Nat
  BY SMT DEF TypeInv, TypeOK
<1>4. largest' <= MAXOPBLOCKS => Len(lh') + Cardinality(Reserved') <= LOGSIZE
  BY SMT, <1>2, <1>3, SizeAssumption
<1>. QED
  BY <1>4 DEF SpaceInv

\* log_write() adds one block at most and accounts for it to its caller.
LEMMA AppendFacts ==
  ASSUME TypeInv, NEW p \in Procs, log_write_append(p)
  PROVE  /\ p \in Active /\ Active' = Active /\ head' = head
         /\ Len(lh) \in Nat /\ Len(lh') \in Nat
         /\ Len(lh') = Len(lh) \/ Len(lh') = Len(lh) + 1
         /\ added'[p] = added[p] + Len(lh') - Len(lh)
         /\ added[p] \in Nat /\ added'[p] \in Nat /\ largest' \in Nat
         /\ \A q \in Procs : q # p => added'[q] = added[q]
         /\ largest <= largest' /\ added'[p] <= largest'
<1>. USE DEF TypeInv, TypeOK, AppendOK, SlotsOK
<1>1. cur[p] \in Home /\ p \in Active /\ Active' = Active /\ head' = head
  BY DEF log_write_append, Active
<1>2. /\ lh' = Absorb(lh, cur[p]) /\ lh' \in Seq(Home)
      /\ Len(lh') = IF cur[p] \in Range(lh) THEN Len(lh) ELSE Len(lh) + 1
  BY <1>1, AbsorbFacts DEF log_write_append
<1>3. /\ Len(lh) \in Nat /\ Len(lh') \in Nat
      /\ Len(lh') = Len(lh) \/ Len(lh') = Len(lh) + 1
  BY SMT, <1>2
<1>4. /\ added'[p] = added[p] + Len(lh') - Len(lh)
      /\ \A q \in Procs : q # p => added'[q] = added[q]
      /\ largest' = Larger(largest, added'[p])
  BY DEF log_write_append
<1>5. added[p] \in Nat /\ largest \in Nat
  OBVIOUS
<1>6. added'[p] \in Nat
  BY SMT, <1>3, <1>4, <1>5
<1>7. largest' \in Nat /\ largest <= largest' /\ added'[p] <= largest'
  BY SMT, <1>4, <1>5, <1>6 DEF Larger
<1>. QED
  BY <1>1, <1>3, <1>4, <1>5, <1>6, <1>7

\* SpaceInv is inductive relative to the typing, the isolation of commits and
\* the empty log after a commit.
LEMMA Space == Spec => []SpaceInv
<1>1. Init => SpaceInv
  <2>. SUFFICES ASSUME Init PROVE SpaceInv
    OBVIOUS
  <2>1. Active = {} /\ Len(lh) = 0 /\ Len(head) = 0 /\ largest = 0
    BY DEF Init, Active
  <2>2. Reserved = {}
    BY <2>1 DEF Reserved
  <2>3. Cardinality(Reserved) = 0
    BY <2>2, FS_EmptySet
  <2>. QED
    BY SMT, <2>1, <2>3, SizeAssumption DEF SpaceInv
<1>2. TypeInv /\ TypeInv' /\ IsolationInv /\ QuietInv /\ SpaceInv /\ [Next]_vars => SpaceInv'
  <2>. SUFFICES ASSUME TypeInv, TypeInv', IsolationInv, QuietInv, SpaceInv, [Next]_vars
                PROVE  SpaceInv'
    OBVIOUS
  <2>1. ASSUME NEW p \in Procs, begin_op_sleep(p) PROVE SpaceInv'
    <3>1. UNCHANGED <<lh, head, added, largest>> /\ Active' = Active
      BY <2>1 DEF begin_op_sleep, Active, TypeInv, TypeOK
    <3>2. Reserved' = Reserved
      BY <3>1 DEF Reserved
    <3>. QED
      BY <3>1, <3>2, SpaceKept
  <2>2. ASSUME NEW p \in Procs, begin_op_enter(p) PROVE SpaceInv'
    <3>1. /\ UNCHANGED <<lh, head, added, largest>>
          /\ Active' = Active \cup {p} /\ p \notin Active
      BY SMT, <2>2 DEF begin_op_enter, Active, TypeInv, TypeOK
    <3>2. Cardinality(Active') = outstanding + 1 /\ IsFiniteSet(Active')
      BY <3>1, ActiveFinite, FS_AddElement DEF IsolationInv, CommitIsolated
    <3>3. /\ Cardinality(Reserved') <= Cardinality(Active') * MAXOPBLOCKS
          /\ Cardinality(Reserved') \in Nat
      <4>1. Reserved' \in SUBSET (Active' \X (1..MAXOPBLOCKS))
        BY DEF Reserved
      <4>. QED
        BY <3>2, <4>1, ReservationSize
    <3>4. Len(lh) + (outstanding + 1) * MAXOPBLOCKS <= LOGSIZE
      <4>1. Len(lh) \in Int /\ (outstanding + 1) * MAXOPBLOCKS \in Int
        BY SMT, SizeAssumption DEF TypeInv, TypeOK
      <4>2. ~(Len(lh) + (outstanding + 1) * MAXOPBLOCKS > LOGSIZE)
        BY <2>2 DEF begin_op_enter, MustWait, LogSpaceShort
      <4>. QED
        BY SMT, <4>1, <4>2, SizeAssumption
    <3>5. Len(lh') + Cardinality(Reserved') <= LOGSIZE
      <4>. DEFINE m == (outstanding + 1) * MAXOPBLOCKS
      <4>1. m \in Int /\ Len(lh) \in Int /\ Cardinality(Reserved') <= m
        BY SMT, <3>2, <3>3, SizeAssumption DEF TypeInv, TypeOK
      <4>2. Len(lh) + m <= LOGSIZE
        BY <3>4
      <4>. HIDE DEF m
      <4>. QED
        BY SMT, <4>1, <4>2, <3>1, <3>3, SizeAssumption
    <3>. QED
      BY <3>1, <3>5 DEF SpaceInv
  <2>3. ASSUME NEW p \in Procs, NEW b \in Home, NEW v \in Data, log_write_check(p, b, v)
        PROVE  SpaceInv'
    <3>1. UNCHANGED <<lh, head, added, largest>> /\ Active' = Active
      BY <2>3 DEF log_write_check, Modifies, Active, TypeInv, TypeOK
    <3>2. Reserved' = Reserved
      BY <3>1 DEF Reserved
    <3>. QED
      BY <3>1, <3>2, SpaceKept
  <2>4. ASSUME NEW p \in Procs, NEW b \in Home, log_write_panic(p, b) PROVE SpaceInv'
    <3>1. UNCHANGED <<lh, head, added, largest, pc>>
      BY <2>4 DEF log_write_panic, panic
    <3>2. Reserved' = Reserved
      BY <3>1 DEF Reserved, Active
    <3>. QED
      BY <3>1, <3>2, SpaceKept
  <2>5. ASSUME NEW p \in Procs, log_write_append(p) PROVE SpaceInv'
    <3>. DEFINE k == added[p]
                c == Cardinality(Reserved)
                d == Cardinality(Reserved')
    <3>0. /\ p \in Active /\ Active' = Active /\ head' = head
          /\ Len(lh) \in Nat /\ Len(lh') \in Nat
          /\ Len(lh') = Len(lh) \/ Len(lh') = Len(lh) + 1
          /\ added'[p] = k + Len(lh') - Len(lh)
          /\ k \in Nat /\ added'[p] \in Nat /\ largest' \in Nat
          /\ \A q \in Procs : q # p => added'[q] = added[q]
          /\ largest <= largest' /\ added'[p] <= largest'
      BY <2>5, AppendFacts
    <3>. SUFFICES ASSUME largest' <= MAXOPBLOCKS
                  PROVE  /\ Len(lh') + d <= LOGSIZE
                         /\ Len(lh') <= LOGSIZE - MAXOPBLOCKS + largest'
                         /\ Len(head') <= LOGSIZE - MAXOPBLOCKS + largest'
      BY DEF SpaceInv
    <3>1. largest \in Nat /\ MAXOPBLOCKS \in Nat /\ LOGSIZE \in Nat /\ largest <= MAXOPBLOCKS
      BY SMT, <3>0, SizeAssumption DEF TypeInv, TypeOK
    <3>2. /\ Len(lh) + c <= LOGSIZE
          /\ Len(lh) <= LOGSIZE - MAXOPBLOCKS + largest
          /\ Len(head) <= LOGSIZE - MAXOPBLOCKS + largest
          /\ c \in Nat /\ IsFiniteSet(Reserved)
      BY <3>1, ReservedFinite DEF SpaceInv
    <3>3. Len(head) \in Nat
      BY SMT DEF TypeInv, TypeOK
    <3>4. Reserved' \subseteq Reserved
      <4>. SUFFICES ASSUME NEW t \in Reserved' PROVE t \in Reserved
        OBVIOUS
      <4>1. t \in Active \X (1..MAXOPBLOCKS) /\ t[2] > added'[t[1]]
        BY <3>0 DEF Reserved
      <4>2. t[2] \in Int /\ t[1] \in Procs
        BY SMT, <4>1 DEF Active
      <4>3. t[2] > added[t[1]]
        <5>1. CASE t[1] = p
          BY SMT, <5>1, <4>1, <4>2, <3>0
        <5>2. CASE t[1] # p
          BY <5>2, <4>1, <4>2, <3>0
        <5>. QED
          BY <5>1, <5>2
      <4>. QED
        BY <4>1, <4>3 DEF Reserved
    <3>5. IsFiniteSet(Reserved') /\ d \in Nat /\ d <= c
      <4>1. Reserved' \in SUBSET Reserved
        BY <3>4
      <4>. QED
        BY <4>1, <3>2, FS_Subset, FS_CardinalityType
    <3>6. CASE Len(lh') = Len(lh)
      <4>. HIDE DEF c, d
      <4>. QED
        BY SMT, <3>6, <3>0, <3>1, <3>2, <3>3, <3>5
    <3>7. CASE Len(lh') = Len(lh) + 1
      <4>1. added'[p] = k + 1 /\ k + 1 <= MAXOPBLOCKS /\ k + 1 \in 1..MAXOPBLOCKS
        BY SMT, <3>7, <3>0, <3>1
      <4>2. <<p, k+1>> \in Reserved
        BY SMT, <3>0, <4>1 DEF Reserved
      <4>3. <<p, k+1>> \notin Reserved'
        BY SMT, <3>0, <4>1 DEF Reserved
      <4>4. Reserved' \in SUBSET (Reserved \ {<<p, k+1>>})
        BY <3>4, <4>3
      <4>5. /\ IsFiniteSet(Reserved \ {<<p, k+1>>})
            /\ Cardinality(Reserved \ {<<p, k+1>>}) = c - 1
        BY ZenonT(40), <4>2, <3>2, FS_RemoveElement
      <4>6. d <= c - 1
        BY SMTT(30), <4>4, <4>5, FS_Subset
      <4>7. MAXOPBLOCKS - (k + 1) <= d
        <5>1. k + 1 \in 0..MAXOPBLOCKS
          BY SMT, <4>1, <3>0
        <5>2. ASSUME NEW j \in (k+1+1)..MAXOPBLOCKS PROVE <<p, j>> \in Reserved'
          <6>1. j \in 1..MAXOPBLOCKS /\ j > added'[p]
            BY SMT, <3>0, <3>1, <4>1
          <6>2. <<p, j>> \in Active' \X (1..MAXOPBLOCKS)
            BY <3>0, <6>1
          <6>3. <<p, j>>[2] > added'[<<p, j>>[1]]
            BY <6>1
          <6>. QED
            BY <6>2, <6>3 DEF Reserved
        <5>. QED
          BY <5>1, <5>2, <3>5, Unused
      <4>8. Len(lh') + d <= LOGSIZE
        <5>. HIDE DEF c, d
        <5>. QED
          BY SMT, <3>7, <3>0, <3>1, <3>2, <3>5, <4>6
      <4>9. Len(lh') <= LOGSIZE - MAXOPBLOCKS + largest'
        <5>. HIDE DEF c, d
        <5>. QED
          BY SMT, <3>0, <3>1, <3>5, <4>1, <4>7, <4>8
      <4>. HIDE DEF c, d
      <4>. QED
        BY SMT, <3>0, <3>1, <3>2, <3>3, <4>8, <4>9
    <3>. QED
      BY <3>0, <3>6, <3>7
  <2>6. ASSUME NEW p \in Procs, end_op_leave(p) \/ end_op_commit(p) PROVE SpaceInv'
    <3>1. /\ UNCHANGED <<lh, head, largest>> /\ Active' \subseteq Active
          /\ \A q \in Active' : added'[q] = added[q]
      BY <2>6 DEF end_op_leave, end_op_commit, wakeup, Active, TypeInv, TypeOK
    <3>2. Reserved' \subseteq Reserved
      <4>. SUFFICES ASSUME NEW t \in Reserved' PROVE t \in Reserved
        OBVIOUS
      <4>1. t \in Active' \X (1..MAXOPBLOCKS) /\ t[2] > added'[t[1]]
        BY DEF Reserved
      <4>2. t[1] \in Active' /\ t \in Active \X (1..MAXOPBLOCKS)
        BY SMT, <4>1, <3>1
      <4>. QED
        BY <4>1, <4>2, <3>1 DEF Reserved
    <3>. QED
      BY <3>1, <3>2, SpaceKept
  <2>7. CASE write_log \/ write_head \/ install_trans
    <3>1. UNCHANGED <<lh, added, largest, pc>> /\ (head' = head \/ head' = lh)
      BY <2>7 DEF write_log, write_head, install_trans, ops
    <3>2. Reserved' = Reserved
      BY <3>1 DEF Reserved, Active
    <3>. QED
      BY <3>1, <3>2, SpaceKept
  <2>8. CASE install_done \/ clear_head \/ read_head \/ Crash
    <3>1. Active' = {}
      BY <2>8 DEF install_done, clear_head, read_head, Crash, ops, Active, IsolationInv, Phase,
                  CommitIsolated, Steps
    <3>2. CASE clear_head
      <4>1. Len(lh') = 0 /\ Len(head') = 0 /\ largest' = 0
        BY <3>2 DEF clear_head, QuietInv
      <4>. QED
        BY SMT, <3>1, <4>1, SpaceIdle, SizeAssumption
    <3>3. CASE install_done \/ read_head \/ Crash
      <4>1. /\ head' = head /\ largest' = largest
            /\ lh' = <<>> \/ lh' = head
        BY <3>3 DEF install_done, read_head, Crash
      <4>2. largest <= MAXOPBLOCKS => /\ Len(head) <= LOGSIZE - MAXOPBLOCKS + largest
                                      /\ Len(<<>>) <= LOGSIZE - MAXOPBLOCKS + largest
        BY SMT, SizeAssumption DEF SpaceInv, TypeInv, TypeOK
      <4>3. largest' <= MAXOPBLOCKS => /\ Len(lh') <= LOGSIZE - MAXOPBLOCKS + largest'
                                       /\ Len(head') <= LOGSIZE - MAXOPBLOCKS + largest'
        BY <4>1, <4>2
      <4>. QED
        BY <3>1, <4>3, SpaceIdle
    <3>. QED
      BY <2>8, <3>2, <3>3
  <2>9. ASSUME NEW p \in Procs, end_op_finish(p) PROVE SpaceInv'
    <3>1. UNCHANGED <<lh, head, added, largest>> /\ Active' = Active
      BY <2>9 DEF end_op_finish, wakeup, Active, TypeInv, TypeOK
    <3>2. Reserved' = Reserved
      BY <3>1 DEF Reserved
    <3>. QED
      BY <3>1, <3>2, SpaceKept
  <2>10. CASE UNCHANGED vars
    <3>1. UNCHANGED <<lh, head, added, largest, pc>>
      BY <2>10 DEF vars
    <3>2. Reserved' = Reserved
      BY <3>1 DEF Reserved, Active
    <3>. QED
      BY <3>1, <3>2, SpaceKept
  <2>. QED
    BY <2>1, <2>2, <2>3, <2>4, <2>5, <2>6, <2>7, <2>8, <2>9, <2>10
       DEF Next, Run, Committer, Call
<1>. QED
  BY <1>1, <1>2, Typing, Isolation, Quiet, PTL DEF Spec

\* For any number of processes and any log size: while every call has kept to
\* the MAXOPBLOCKS blocks reserved for it, the blocks logged and the reservations
\* of the calls in progress fit lh.block[], whatever the interleaving of the
\* unlocked test in log_write().
THEOREM LogHeaderFits == Spec => []HeaderFits
<1>1. SpaceInv => HeaderFits
  BY DEF SpaceInv, HeaderFits
<1>. QED
  BY <1>1, Space, PTL

\* On the disk mkfs makes (nlog = LOGSIZE, header included) a transaction whose
\* calls each add fewer than MAXOPBLOCKS blocks fits the body of the log: the one
\* block the body is short of lh.block[] is the one they leave.
THEOREM LogRegionSafe ==
  ASSUME NLOG >= LOGSIZE
  PROVE  Spec => [](largest < MAXOPBLOCKS => ~Overrun)
<1>1. TypeInv /\ SpaceInv => (largest < MAXOPBLOCKS => ~Overrun)
  BY SMT, SizeAssumption DEF SpaceInv, Overrun, LogRegionFits, TypeInv, TypeOK
<1>. QED
  BY <1>1, Typing, Space, PTL

-----------------------------------------------------------------------------
(***************************************************************************)
(* Calls of any size.  A process past the unlocked tests of log_write()    *)
(* has not yet taken log.lock; together with the blocks logged, such       *)
(* processes exceed the limit by fewer than the calls in progress.         *)
(***************************************************************************)
Appenders == {p \in Procs : pc[p] = "append"}

Within(n) == (n - Limit + 1) * MAXOPBLOCKS <= LOGSIZE

RaceInv ==
  /\ outstanding * MAXOPBLOCKS <= LOGSIZE
  /\ Within(Len(lh) + Cardinality(Appenders))
  /\ Within(Len(head))

\* The limit is a number of blocks, and fewer blocks are within it too.
LEMMA WithinFacts ==
  /\ Limit \in Nat
  /\ \A a, b \in Int : a <= b /\ b * MAXOPBLOCKS <= LOGSIZE => a * MAXOPBLOCKS <= LOGSIZE
  /\ \A m, n \in Int : m <= n /\ Within(n) => Within(m)
  /\ \A n, a \in Int : n - Limit + 1 <= a /\ a * MAXOPBLOCKS <= LOGSIZE => Within(n)
<1>1. Limit \in Nat
  BY SMT, SizeAssumption DEF Limit
<1>2. ASSUME NEW a \in Int, NEW b \in Int, a <= b, b * MAXOPBLOCKS <= LOGSIZE
      PROVE  a * MAXOPBLOCKS <= LOGSIZE
  <2>1. a * MAXOPBLOCKS <= b * MAXOPBLOCKS
    BY SMT, <1>2, SizeAssumption
  <2>2. a * MAXOPBLOCKS \in Int /\ b * MAXOPBLOCKS \in Int
    BY SMT, SizeAssumption
  <2>. QED
    BY SMT, <1>2, <2>1, <2>2, SizeAssumption
<1>3. ASSUME NEW m \in Int, NEW n \in Int, m <= n, Within(n) PROVE Within(m)
  <2>1. m - Limit + 1 \in Int /\ n - Limit + 1 \in Int /\ m - Limit + 1 <= n - Limit + 1
    BY SMT, <1>1, <1>3
  <2>. QED
    BY <1>2, <1>3, <2>1 DEF Within
<1>4. ASSUME NEW n \in Int, NEW a \in Int, n - Limit + 1 <= a, a * MAXOPBLOCKS <= LOGSIZE
      PROVE  Within(n)
  <2>1. n - Limit + 1 \in Int
    BY SMT, <1>1
  <2>. QED
    BY <1>2, <1>4, <2>1 DEF Within
<1>. QED
  BY <1>1, <1>2, <1>3, <1>4

\* The processes between the tests and the append can be counted.
LEMMA AppendersFinite == IsFiniteSet(Appenders) /\ Cardinality(Appenders) \in Nat
<1>1. Appenders \in SUBSET Procs
  BY DEF Appenders
<1>. QED
  BY <1>1, ProcsAssumption, FS_Subset, FS_CardinalityType

\* RaceInv is inductive relative to the typing and the isolation of commits.
LEMMA Race == Spec => []RaceInv
<1>1. Init => RaceInv
  <2>. SUFFICES ASSUME Init PROVE RaceInv
    OBVIOUS
  <2>1. Appenders = {} /\ Len(lh) = 0 /\ Len(head) = 0 /\ outstanding = 0
    BY DEF Init, Appenders
  <2>2. Cardinality(Appenders) = 0
    BY <2>1, FS_EmptySet
  <2>3. Within(0)
    <3>1. 0 - Limit + 1 <= 1 /\ 1 * MAXOPBLOCKS <= LOGSIZE
      BY SMT, WithinFacts, SizeAssumption
    <3>. QED
      BY SMT, <3>1, WithinFacts
  <2>4. Len(lh) + Cardinality(Appenders) = 0 /\ outstanding * MAXOPBLOCKS <= LOGSIZE
    BY SMT, <2>1, <2>2, SizeAssumption
  <2>. QED
    BY <2>1, <2>3, <2>4 DEF RaceInv
<1>2. TypeInv /\ TypeInv' /\ IsolationInv /\ IsolationInv' /\ RaceInv /\ [Next]_vars => RaceInv'
  <2>. SUFFICES ASSUME TypeInv, TypeInv', IsolationInv, IsolationInv', RaceInv, [Next]_vars
                PROVE  RaceInv'
    OBVIOUS
  <2>0. /\ Len(lh) \in Nat /\ Len(lh') \in Nat /\ Len(head) \in Nat
        /\ outstanding \in Nat /\ outstanding' \in Nat
    <3>1. Len(lh) \in Nat /\ Len(lh') \in Nat /\ Len(head) \in Nat
      BY SMT DEF TypeInv, TypeOK
    <3>2. outstanding = Cardinality(Active) /\ outstanding' = Cardinality(Active')
      BY DEF IsolationInv, CommitIsolated
    <3>3. Active' \in SUBSET Procs
      BY DEF Active
    <3>4. Cardinality(Active') \in Nat
      BY <3>3, ProcsAssumption, FS_Subset, FS_CardinalityType
    <3>. QED
      BY <3>1, <3>2, <3>4, ActiveFinite
  <2>a. ASSUME Appenders' \subseteq Appenders, lh' = lh \/ lh' = <<>>, head' = head \/ head' = lh,
               outstanding' * MAXOPBLOCKS <= LOGSIZE
        PROVE  RaceInv'
    <3>1. Appenders' \in SUBSET Appenders
      BY <2>a
    <3>2. Cardinality(Appenders') <= Cardinality(Appenders) /\ Cardinality(Appenders') \in Nat
      BY <3>1, AppendersFinite, FS_Subset, FS_CardinalityType
    <3>3. Len(<<>>) = 0
      BY SMT
    <3>4. Len(lh') + Cardinality(Appenders') <= Len(lh) + Cardinality(Appenders)
      BY SMT, <2>a, <2>0, <3>2, <3>3, AppendersFinite
    <3>5. Within(Len(lh') + Cardinality(Appenders')) /\ Within(Len(lh))
      BY SMT, <2>0, <3>2, <3>4, AppendersFinite, WithinFacts DEF RaceInv
    <3>. QED
      BY <2>a, <3>5 DEF RaceInv
  <2>1. ASSUME NEW p \in Procs, begin_op_sleep(p) PROVE RaceInv'
    <3>1. UNCHANGED <<lh, head, outstanding>> /\ Appenders' \subseteq Appenders
      BY <2>1 DEF begin_op_sleep, Appenders, TypeInv, TypeOK
    <3>. QED
      BY <3>1, <2>a DEF RaceInv
  <2>2. ASSUME NEW p \in Procs, begin_op_enter(p) PROVE RaceInv'
    <3>1. UNCHANGED <<lh, head>> /\ Appenders' \subseteq Appenders /\ outstanding' = outstanding + 1
      BY <2>2 DEF begin_op_enter, Appenders, TypeInv, TypeOK
    <3>2. outstanding' * MAXOPBLOCKS <= LOGSIZE
      <4>1. ~(Len(lh) + (outstanding + 1) * MAXOPBLOCKS > LOGSIZE)
        BY <2>2 DEF begin_op_enter, MustWait, LogSpaceShort
      <4>2. (outstanding + 1) * MAXOPBLOCKS \in Int
        BY SMT, <2>0, SizeAssumption
      <4>3. (outstanding + 1) * MAXOPBLOCKS <= LOGSIZE
        BY SMT, <2>0, <4>1, <4>2, SizeAssumption
      <4>. QED
        BY <3>1, <4>3
    <3>. QED
      BY <3>1, <3>2, <2>a
  <2>3. ASSUME NEW p \in Procs, NEW b \in Home, NEW v \in Data, log_write_check(p, b, v)
        PROVE  RaceInv'
    <3>1. UNCHANGED <<lh, head, outstanding>> /\ ~TooBig
      BY <2>3 DEF log_write_check
    <3>2. Appenders' \in SUBSET Active' /\ IsFiniteSet(Active')
      <4>1. Appenders' \in SUBSET Active' /\ Active' \in SUBSET Procs
        BY DEF Appenders, Active
      <4>. QED
        BY <4>1, ProcsAssumption, FS_Subset
    <3>3. Cardinality(Appenders') <= Cardinality(Active') /\ Cardinality(Appenders') \in Nat
      BY <3>2, FS_Subset, FS_CardinalityType
    <3>4. Cardinality(Appenders') <= outstanding
      BY <3>1, <3>3 DEF IsolationInv, CommitIsolated
    <3>5. Len(lh) < Limit
      BY SMT, <2>0, <3>1, SizeAssumption DEF TooBig, Limit
    <3>6. Within(Len(lh) + Cardinality(Appenders'))
      <4>1. Len(lh) + Cardinality(Appenders') \in Int /\ outstanding \in Int
        BY SMT, <2>0, <3>3
      <4>2. outstanding * MAXOPBLOCKS <= LOGSIZE
        BY DEF RaceInv
      <4>. DEFINE n == Len(lh) + Cardinality(Appenders')
      <4>3. n \in Int /\ n - Limit + 1 <= outstanding
        BY SMT, <2>0, <3>3, <3>4, <3>5, <4>1, WithinFacts
      <4>4. Within(n)
        <5>. HIDE DEF n
        <5>. QED
          BY <4>1, <4>2, <4>3, WithinFacts
      <4>. QED
        BY <4>4
    <3>. QED
      BY <3>1, <3>6 DEF RaceInv
  <2>4. ASSUME NEW p \in Procs, NEW b \in Home, log_write_panic(p, b) PROVE RaceInv'
    BY <2>4 DEF log_write_panic, panic, RaceInv, Appenders
  <2>5. ASSUME NEW p \in Procs, log_write_append(p) PROVE RaceInv'
    <3>1. UNCHANGED <<head, outstanding>> /\ p \in Appenders /\ Appenders' = Appenders \ {p}
      BY <2>5 DEF log_write_append, Appenders, TypeInv, TypeOK
    <3>2. /\ Cardinality(Appenders') = Cardinality(Appenders) - 1
          /\ Cardinality(Appenders') \in Nat
      BY <3>1, AppendersFinite, FS_RemoveElement, FS_CardinalityType
    <3>3. Len(lh') = Len(lh) \/ Len(lh') = Len(lh) + 1
      BY <2>5, AppendFacts
    <3>4. Len(lh') + Cardinality(Appenders') <= Len(lh) + Cardinality(Appenders)
      BY SMT, <2>0, <3>2, <3>3, AppendersFinite
    <3>5. Within(Len(lh') + Cardinality(Appenders'))
      BY SMT, <2>0, <3>2, <3>4, AppendersFinite, WithinFacts DEF RaceInv
    <3>. QED
      BY <3>1, <3>5 DEF RaceInv
  <2>6. ASSUME NEW p \in Procs, end_op_leave(p) \/ end_op_commit(p) PROVE RaceInv'
    <3>1. UNCHANGED <<lh, head>> /\ Appenders' \subseteq Appenders
      BY <2>6 DEF end_op_leave, end_op_commit, wakeup, Appenders, TypeInv, TypeOK
    <3>2. outstanding' <= outstanding
      BY SMT, <2>0, <2>6 DEF end_op_leave, end_op_commit
    <3>3. outstanding' * MAXOPBLOCKS <= LOGSIZE
      <4>1. outstanding \in Int /\ outstanding' \in Int
        BY SMT, <2>0
      <4>. QED
        BY <3>2, <4>1, WithinFacts DEF RaceInv
    <3>. QED
      BY <3>1, <3>3, <2>a
  <2>7. CASE write_log \/ write_head \/ install_trans \/ install_done \/ clear_head
    <3>1. /\ UNCHANGED <<outstanding, pc>>
          /\ lh' = lh \/ lh' = <<>>
          /\ head' = head \/ head' = lh
      BY <2>7 DEF write_log, write_head, install_trans, install_done, clear_head, ops
    <3>2. Appenders' \subseteq Appenders
      BY <3>1 DEF Appenders
    <3>. QED
      BY <3>1, <3>2, <2>a DEF RaceInv
  <2>8. CASE read_head
    <3>1. UNCHANGED <<head, outstanding, pc>> /\ lh' = head /\ step = "read_head"
      BY <2>8 DEF read_head, ops
    <3>2. Appenders' = {}
      BY <3>1 DEF Appenders, IsolationInv, Phase
    <3>3. Cardinality(Appenders') = 0
      BY <3>2, FS_EmptySet
    <3>4. Len(lh') + Cardinality(Appenders') = Len(head)
      BY SMT, <2>0, <3>1, <3>3
    <3>. QED
      BY <3>1, <3>4 DEF RaceInv
  <2>9. ASSUME NEW p \in Procs, end_op_finish(p) PROVE RaceInv'
    <3>1. UNCHANGED <<lh, head, outstanding>> /\ Appenders' \subseteq Appenders
      BY <2>9 DEF end_op_finish, wakeup, Appenders, TypeInv, TypeOK
    <3>. QED
      BY <3>1, <2>a DEF RaceInv
  <2>10. CASE Crash
    <3>1. lh' = <<>> /\ head' = head /\ outstanding' = 0 /\ Appenders' \subseteq Appenders
      BY <2>10 DEF Crash, Appenders
    <3>2. outstanding' * MAXOPBLOCKS <= LOGSIZE
      BY SMT, <3>1, SizeAssumption
    <3>. QED
      BY <3>1, <3>2, <2>a
  <2>11. CASE UNCHANGED vars
    BY <2>11 DEF vars, RaceInv, Appenders
  <2>. QED
    BY <2>1, <2>2, <2>3, <2>4, <2>5, <2>6, <2>7, <2>8, <2>9, <2>10, <2>11
       DEF Next, Run, Committer, Call
<1>. QED
  BY <1>1, <1>2, Typing, Isolation, PTL DEF Spec

\* However many blocks the calls log, the race between the unlocked tests of
\* log_write() and its append lets a transaction grow past the limit by fewer
\* blocks than LOGSIZE / MAXOPBLOCKS, the calls begin_op() admits at a time.
THEOREM RaceBound == Spec => []OverrunBounded
<1>1. TypeInv /\ RaceInv => OverrunBounded
  <2>. SUFFICES ASSUME TypeInv, RaceInv PROVE OverrunBounded
    OBVIOUS
  <2>1. Len(lh) \in Nat
    BY SMT DEF TypeInv, TypeOK
  <2>2. Within(Len(lh))
    <3>1. /\ Len(lh) \in Int /\ Len(lh) + Cardinality(Appenders) \in Int
          /\ Len(lh) <= Len(lh) + Cardinality(Appenders)
      BY SMT, <2>1, AppendersFinite
    <3>. QED
      BY <3>1, WithinFacts DEF RaceInv
  <2>. QED
    BY <2>2 DEF Within, OverrunBounded
<1>. QED
  BY <1>1, Typing, Race, PTL

-----------------------------------------------------------------------------
\* The reservation only becomes tighter when a call starts or a block is
\* logged: MAXOPBLOCKS is a number of blocks.
LEMMA SpaceMonotone ==
  ASSUME NEW n \in Nat, NEW m \in Nat, NEW a \in Nat, NEW b \in Nat,
         n <= m, a <= b, n + (a + 1) * MAXOPBLOCKS > LOGSIZE
  PROVE  m + (b + 1) * MAXOPBLOCKS > LOGSIZE
<1>1. (a + 1) * MAXOPBLOCKS <= (b + 1) * MAXOPBLOCKS
  BY SMT, SizeAssumption
<1>2. (a + 1) * MAXOPBLOCKS \in Nat /\ (b + 1) * MAXOPBLOCKS \in Nat
  BY SMT, SizeAssumption
<1>. QED
  BY SMT, <1>1, <1>2, SizeAssumption

\* No process sleeps in begin_op() while the log has room for its call, for any
\* number of processes and however the calls overlap: both branches of end_op()
\* wake the sleepers when they give space back.
THEOREM NoIdleSleeper == Spec => []SleepsForSpace
<1>. USE SizeAssumption
<1>1. Init => SleepsForSpace
  BY DEF Init, SleepsForSpace
<1>2. TypeInv /\ IsolationInv /\ SleepsForSpace /\ [Next]_vars => SleepsForSpace'
  <2>. SUFFICES ASSUME TypeInv, IsolationInv, SleepsForSpace, [Next]_vars
                PROVE  SleepsForSpace'
    OBVIOUS
  <2>. USE DEF SleepsForSpace, Running, TypeInv, TypeOK
  <2>1. ASSUME NEW p \in Procs, begin_op_sleep(p) PROVE SleepsForSpace'
    <3>1. MustWait'
      BY <2>1 DEF begin_op_sleep, MustWait, LogSpaceShort
    <3>. QED
      BY <3>1
  <2>2. ASSUME NEW p \in Procs, begin_op_enter(p) PROVE SleepsForSpace'
    <3>1. \A q \in Procs : pc[q] # "asleep"
      BY <2>2 DEF begin_op_enter
    <3>. QED
      BY <2>2, <3>1 DEF begin_op_enter
  <2>3. ASSUME NEW p \in Procs, NEW b \in Home, NEW v \in Data, log_write_check(p, b, v)
        PROVE  SleepsForSpace'
    BY <2>3 DEF log_write_check, Modifies, MustWait, LogSpaceShort
  <2>4. ASSUME NEW p \in Procs, NEW b \in Home, log_write_panic(p, b) PROVE SleepsForSpace'
    BY <2>4 DEF log_write_panic, panic
  <2>5. ASSUME NEW p \in Procs, log_write_append(p) PROVE SleepsForSpace'
    <3>1. SUFFICES ASSUME \E q \in Procs : pc[q] = "asleep" PROVE MustWait'
      BY <2>5 DEF log_write_append
    <3>2. MustWait
      BY <2>5, <3>1 DEF log_write_append
    <3>3. CASE committing
      BY <2>5, <3>3 DEF log_write_append, MustWait
    <3>4. CASE LogSpaceShort
      <4>1. cur[p] \in Home /\ NoDup(lh) /\ lh \in Seq(Home)
        BY <2>5 DEF log_write_append, AppendOK, SlotsOK
      <4>2. Len(lh') \in Nat /\ Len(lh) \in Nat /\ Len(lh) <= Len(lh')
        <5>1. Len(lh) \in Nat
          BY SMT, <4>1
        <5>2. lh' = Absorb(lh, cur[p])
          BY <2>5 DEF log_write_append
        <5>3. Len(lh') = IF cur[p] \in Range(lh) THEN Len(lh) ELSE Len(lh) + 1
          BY <4>1, <5>2, AbsorbFacts
        <5>. QED
          BY SMT, <5>1, <5>3
      <4>3. outstanding \in Nat /\ outstanding' = outstanding
        BY <2>5, ActiveFinite DEF log_write_append, IsolationInv, CommitIsolated
      <4>. QED
        BY SMT, <3>4, <4>2, <4>3, SpaceMonotone DEF LogSpaceShort, MustWait
    <3>. QED
      BY <3>2, <3>3, <3>4 DEF MustWait
  <2>6. ASSUME NEW p \in Procs, end_op_leave(p) PROVE SleepsForSpace'
    <3>1. \A q \in Procs : pc'[q] # "asleep"
      BY <2>6 DEF end_op_leave, wakeup
    <3>. QED
      BY <3>1
  <2>7. ASSUME NEW p \in Procs, end_op_commit(p) PROVE SleepsForSpace'
    BY <2>7 DEF end_op_commit, MustWait
  <2>8. CASE write_log \/ write_head \/ install_trans \/ install_done \/ clear_head \/ read_head
    <3>1. UNCHANGED <<ops, panicked>> /\ step # "up"
      BY <2>8 DEF write_log, write_head, install_trans, install_done, clear_head, read_head
    <3>2. committing \/ \A q \in Procs : pc[q] = "idle"
      BY <3>1 DEF IsolationInv, Phase
    <3>. QED
      BY <3>1, <3>2 DEF ops, MustWait
  <2>9. ASSUME NEW p \in Procs, end_op_finish(p) PROVE SleepsForSpace'
    <3>1. \A q \in Procs : pc'[q] # "asleep"
      BY <2>9 DEF end_op_finish, wakeup
    <3>. QED
      BY <3>1
  <2>10. CASE Crash
    BY <2>10 DEF Crash
  <2>11. CASE UNCHANGED vars
    BY <2>11 DEF vars, MustWait, LogSpaceShort
  <2>. QED
    BY <2>1, <2>2, <2>3, <2>4, <2>5, <2>6, <2>7, <2>8, <2>9, <2>10, <2>11
       DEF Next, Run, Committer, Call
<1>. QED
  BY <1>1, <1>2, Typing, Isolation, PTL DEF Spec

-----------------------------------------------------------------------------
(***************************************************************************)
(* The log is atomic across crashes: it implements AtomicDisk at every     *)
(* step of a transaction that does not overrun the body of the log.        *)
(*                                                                         *)
(* AgreeInv says where the cache and the home blocks agree, at each point  *)
(* of commit() and of recovery, whatever the size of the transaction: a    *)
(* write past the body changes a home block in the cache and on disk       *)
(* alike.  BodyInv says what the body of the log holds when it is large    *)
(* enough.                                                                 *)
(***************************************************************************)
Same(b) == mem[b] = disk[b]
Unlogged(b) == b \notin Range(lh) /\ \A p \in Procs : pc[p] = "append" => cur[p] # b

AgreeInv ==
  /\ step \notin {"install_trans", "clear", "read_head"} =>
       head = <<>> /\ \A b \in Home : Unlogged(b) => Same(b)
  /\ step = "install_trans" =>
       /\ head = lh
       /\ \A b \in Home : b \notin Range(lh) => Same(b)
       /\ \A i \in 1..Len(lh) : i <= tail => Same(lh[i])
  /\ step \in {"clear", "read_head"} => \A b \in Home : Same(b)

BodyInv ==
  /\ LogRegionFits =>
       /\ step = "write_log"  => \A i \in 1..Len(lh) : i <= tail => disk[i] = mem[lh[i]]
       /\ step = "write_head" => \A i \in 1..Len(lh) : disk[i] = mem[lh[i]]
       /\ step = "install_trans" =>
            /\ committing => \A i \in 1..Len(lh) : disk[i] = mem[lh[i]]
            /\ \A i \in 1..Len(lh) : i <= tail => disk[lh[i]] = disk[i]
  /\ step = "clear" /\ Len(head) <= NLOG - 1 =>
       \A i \in 1..Len(head) : disk[head[i]] = disk[i]

\* bwrite() leaves the cache and the disk in agreement where they were, and on
\* the block it writes.
LEMMA WriteThrough ==
  ASSUME TypeInv, NEW c, NEW v, bwrite(c, v)
  PROVE  \A b \in Home : Same(b) \/ b = c => mem'[b] = disk'[b]
BY DEF TypeInv, TypeOK, bwrite, Same

\* AgreeInv is inductive relative to the invariants above.
LEMMA Agreement == Spec => []AgreeInv
<1>. USE SizeAssumption
<1>1. Init => AgreeInv
  BY SMT DEF Init, AgreeInv, Same, Unlogged
<1>2. TypeInv /\ IsolationInv /\ QuietInv /\ AgreeInv /\ [Next]_vars => AgreeInv'
  <2>. SUFFICES ASSUME TypeInv, IsolationInv, QuietInv, AgreeInv, [Next]_vars
                PROVE  AgreeInv'
    OBVIOUS
  <2>. USE DEF TypeInv, TypeOK, Running
  <2>1. ASSUME NEW p \in Procs, begin_op_sleep(p) \/ begin_op_enter(p) \/ end_op_leave(p)
        PROVE  AgreeInv'
    <3>1. /\ UNCHANGED <<disk, head, mem, lh, cur, step, tail>>
          /\ \A q \in Procs : pc[q] = "append" => pc'[q] = "append"
      BY <2>1 DEF begin_op_sleep, begin_op_enter, end_op_leave, wakeup
    <3>. QED
      BY <3>1 DEF AgreeInv, Same, Unlogged
  <2>2. ASSUME NEW p \in Procs, NEW b \in Home, NEW v \in Data, log_write_check(p, b, v)
        PROVE  AgreeInv'
    <3>1. /\ UNCHANGED <<disk, head, lh, step>>
          /\ step = "up"
          /\ mem' = [mem EXCEPT ![b] = v]
          /\ pc[p] = "op" /\ pc' = [pc EXCEPT ![p] = "append"] /\ cur' = [cur EXCEPT ![p] = b]
      <4>1. p \in Active
        BY <2>2 DEF log_write_check, Modifies, Active
      <4>. QED
        BY <2>2, <4>1 DEF log_write_check, Modifies, IsolationInv, CommitIsolated
    <3>2. ASSUME NEW c \in Home, Unlogged(c)' PROVE Unlogged(c) /\ c # b
      <4>1. c # b /\ c \notin Range(lh)
        BY <3>1, <3>2 DEF Unlogged
      <4>2. \A q \in Procs : pc[q] = "append" => cur[q] # c
        BY <3>1, <3>2 DEF Unlogged
      <4>. QED
        BY <4>1, <4>2 DEF Unlogged
    <3>. QED
      BY <3>1, <3>2 DEF AgreeInv, Same
  <2>3. ASSUME NEW p \in Procs, NEW b \in Home, log_write_panic(p, b) PROVE AgreeInv'
    BY <2>3 DEF log_write_panic, panic, AgreeInv, Same, Unlogged
  <2>4. ASSUME NEW p \in Procs, log_write_append(p) PROVE AgreeInv'
    <3>1. UNCHANGED <<disk, head, mem, step>> /\ step = "up"
      <4>1. p \in Active
        BY <2>4 DEF log_write_append, Active
      <4>. QED
        BY <2>4, <4>1 DEF log_write_append, IsolationInv, CommitIsolated
    <3>2. Range(lh') = Range(lh) \cup {cur[p]}
      BY <2>4, AbsorbFacts DEF log_write_append, AppendOK, SlotsOK
    <3>3. ASSUME NEW c \in Home, Unlogged(c)' PROVE Unlogged(c)
      BY <2>4, <3>2, <3>3 DEF Unlogged, log_write_append
    <3>. QED
      BY <3>1, <3>3 DEF AgreeInv, Same
  <2>5. ASSUME NEW p \in Procs, end_op_commit(p) \/ end_op_finish(p) PROVE AgreeInv'
    <3>1. /\ UNCHANGED <<disk, head, mem, lh, cur>>
          /\ step \in {"up", "finish"} /\ step' \in {"write_log", "finish", "up"}
          /\ \A q \in Procs : pc[q] = "append" => pc'[q] = "append"
      BY <2>5 DEF end_op_commit, CommitStart, end_op_finish, wakeup
    <3>. QED
      BY <3>1 DEF AgreeInv, Same, Unlogged
  <2>6. CASE write_log
    <3>1. /\ bwrite(tail + 1, bread(lh[tail + 1]))
          /\ UNCHANGED <<head, lh, pc, cur>>
          /\ step = "write_log" /\ step' \in {"write_log", "write_head"}
      BY <2>6 DEF write_log, ops
    <3>2. \A b \in Home : Unlogged(b)' => Same(b)'
      BY <3>1, WriteThrough DEF AgreeInv, Unlogged, Same
    <3>. QED
      BY <3>1, <3>2 DEF AgreeInv
  <2>7. CASE write_head
    <3>1. /\ UNCHANGED <<disk, mem, lh>> /\ head' = lh /\ tail' = 0
          /\ step = "write_head" /\ step' = "install_trans" /\ committing
      BY <2>7 DEF write_head, ops, IsolationInv, Phase
    <3>2. \A p \in Procs : pc[p] # "append"
      BY <3>1 DEF IsolationInv, CommitIsolated, Active
    <3>3. \A b \in Home : b \notin Range(lh) => Same(b)
      BY <3>1, <3>2 DEF AgreeInv, Unlogged
    <3>. QED
      BY SMT, <3>1, <3>3 DEF AgreeInv, Same
  <2>8. CASE install_trans
    <3>1. tail + 1 \in 1..Len(lh) /\ lh[tail+1] \in Home
      BY SMT, <2>8 DEF install_trans
    <3>2. /\ bwrite(lh[tail+1], bread(tail+1))
          /\ UNCHANGED <<head, lh, step>> /\ tail' = tail + 1
          /\ step = "install_trans"
      BY <2>8 DEF install_trans
    <3>3. \A b \in Home : Same(b) \/ b = lh[tail+1] => mem'[b] = disk'[b]
      BY <3>2, WriteThrough
    <3>4. \A b \in Home : b \notin Range(lh) => mem'[b] = disk'[b]
      BY <3>2, <3>3 DEF AgreeInv
    <3>5. \A i \in 1..Len(lh) : i <= tail + 1 => mem'[lh[i]] = disk'[lh[i]]
      <4>. SUFFICES ASSUME NEW i \in 1..Len(lh), i <= tail + 1
                    PROVE  mem'[lh[i]] = disk'[lh[i]]
        OBVIOUS
      <4>1. CASE i = tail + 1
        BY <4>1, <3>1, <3>3
      <4>2. CASE i <= tail
        <5>1. lh[i] \in Home
          BY SMT
        <5>2. Same(lh[i])
          BY <4>2, <3>2 DEF AgreeInv
        <5>. QED
          BY <5>1, <5>2, <3>3
      <4>. QED
        BY SMT, <4>1, <4>2
    <3>. QED
      BY <3>2, <3>4, <3>5 DEF AgreeInv, Same
  <2>9. CASE install_done
    <3>1. /\ UNCHANGED <<disk, mem>>
          /\ step = "install_trans" /\ step' = "clear"
          /\ \A i \in 1..Len(lh) : i <= tail
      BY SMT, <2>9 DEF install_done
    <3>2. \A b \in Home : Same(b)
      <4>1. DOMAIN lh = 1..Len(lh)
        BY SMT
      <4>2. \A b \in Range(lh) : \E i \in 1..Len(lh) : b = lh[i]
        BY <4>1 DEF Range
      <4>. QED
        BY <3>1, <4>2 DEF AgreeInv
    <3>. QED
      BY <3>1, <3>2 DEF AgreeInv, Same
  <2>10. CASE clear_head
    <3>1. /\ UNCHANGED <<disk, mem, lh, cur, pc>> /\ head' = <<>>
          /\ step = "clear" /\ step' \in {"finish", "up"}
      BY <2>10 DEF clear_head, ops, QuietInv
    <3>. QED
      BY <3>1 DEF AgreeInv, Same
  <2>11. CASE read_head
    <3>1. /\ UNCHANGED <<disk, mem, head>> /\ lh' = head /\ tail' = 0
          /\ step = "read_head" /\ step' = "install_trans"
      BY <2>11 DEF read_head
    <3>. QED
      BY SMT, <3>1 DEF AgreeInv, Same
  <2>12. CASE Crash
    BY <2>12 DEF Crash, AgreeInv, Same
  <2>13. CASE UNCHANGED vars
    BY <2>13 DEF vars, AgreeInv, Same, Unlogged
  <2>. QED
    BY <2>1, <2>2, <2>3, <2>4, <2>5, <2>6, <2>7, <2>8, <2>9, <2>10, <2>11, <2>12, <2>13
       DEF Next, Run, Committer, Call
<1>. QED
  BY <1>1, <1>2, Typing, Isolation, Quiet, PTL DEF Spec

\* The slots of a list that fits are blocks of the log body and never home blocks.
LEMMA BodySlots ==
  ASSUME NEW s \in Seq(Home), Len(s) <= NLOG - 1
  PROVE  \A i \in 1..Len(s) : i \in LogBody /\ i \notin Home /\ s[i] \in Home
<1>1. Len(s) \in Nat
  BY SMT
<1>2. \A i \in 1..NLOG-1 : i \in LogBody /\ i \notin Home
  BY SMTT(30), SizeAssumption DEF LogBody, Home
<1>3. \A i \in 1..Len(s) : i \in 1..NLOG-1 /\ s[i] \in Home
  BY SMTT(30), <1>1, SizeAssumption
<1>. QED
  BY <1>2, <1>3

\* BodyInv is inductive relative to the invariants above.
LEMMA Durability == Spec => []BodyInv
<1>. USE SizeAssumption
<1>1. Init => BodyInv
  BY DEF Init, BodyInv
<1>2. TypeInv /\ IsolationInv /\ AgreeInv /\ BodyInv /\ [Next]_vars => BodyInv'
  <2>. SUFFICES ASSUME TypeInv, IsolationInv, AgreeInv, BodyInv, [Next]_vars
                PROVE  BodyInv'
    OBVIOUS
  <2>. USE DEF TypeInv, TypeOK, Running
  <2>0. LogRegionFits => \A i \in 1..Len(lh) : i \in LogBody /\ i \notin Home /\ lh[i] \in Home
    BY BodySlots DEF LogRegionFits
  <2>1. ASSUME step' \notin {"write_log", "write_head", "install_trans", "clear"} PROVE BodyInv'
    BY <2>1 DEF BodyInv
  <2>2. ASSUME UNCHANGED <<disk, head, mem, lh, step, tail, committing>> PROVE BodyInv'
    BY <2>2 DEF BodyInv, LogRegionFits
  <2>3. ASSUME NEW p \in Procs, Call(p), ~end_op_commit(p) PROVE BodyInv'
    <3>1. CASE begin_op_sleep(p) \/ begin_op_enter(p) \/ end_op_leave(p)
      BY <3>1, <2>2 DEF begin_op_sleep, begin_op_enter, end_op_leave
    <3>2. CASE log_write_append(p) \/ \E b \in Home, v \in Data : log_write_check(p, b, v)
      <4>1. p \in Active /\ step' = step /\ (step = "up" \/ committing)
        BY <3>2 DEF log_write_append, log_write_check, Modifies, Active
      <4>2. step' = "up"
        BY <4>1 DEF IsolationInv, CommitIsolated
      <4>. QED
        BY <4>2, <2>1
    <3>3. CASE \E b \in Home : log_write_panic(p, b)
      BY <3>3, <2>2 DEF log_write_panic, panic
    <3>. QED
      BY <2>3, <3>1, <3>2, <3>3 DEF Call
  <2>4. ASSUME NEW p \in Procs, end_op_commit(p) PROVE BodyInv'
    <3>1. step' \in {"write_log", "finish"} /\ tail' = 0
      BY <2>4 DEF end_op_commit, CommitStart
    <3>. QED
      BY SMT, <3>1 DEF BodyInv
  <2>5. CASE write_log
    <3>1. /\ lh' = lh /\ tail' = tail + 1 /\ step = "write_log"
          /\ step' = IF tail + 1 = Len(lh) THEN "write_head" ELSE "write_log"
          /\ bwrite(tail + 1, bread(lh[tail + 1]))
      BY <2>5 DEF write_log
    <3>2. ASSUME LogRegionFits PROVE \A i \in 1..Len(lh) : i <= tail + 1 => disk'[i] = mem'[lh[i]]
      <4>1. /\ tail + 1 \in 1..Len(lh) /\ tail + 1 \in LogBody /\ tail + 1 \notin Home
            /\ lh[tail+1] \in Home
        <5>1. tail + 1 \in 1..Len(lh)
          BY SMT, <2>5 DEF write_log
        <5>. QED
          BY <5>1, <3>2, <2>0
      <4>2. disk' = [disk EXCEPT ![tail+1] = mem[lh[tail+1]]] /\ mem' = mem
        BY <3>1, <4>1 DEF bread, bwrite
      <4>. SUFFICES ASSUME NEW i \in 1..Len(lh), i <= tail + 1 PROVE disk'[i] = mem[lh[i]]
        BY <4>2
      <4>3. CASE i = tail + 1
        BY <4>3, <4>1, <4>2
      <4>4. CASE i <= tail /\ i # tail + 1
        BY <4>4, <3>1, <3>2, <4>1, <4>2, <2>0 DEF BodyInv
      <4>. QED
        BY SMT, <4>3, <4>4
    <3>3. LogRegionFits' => LogRegionFits
      BY <3>1 DEF LogRegionFits
    <3>. QED
      BY SMT, <3>1, <3>2, <3>3 DEF BodyInv
  <2>6. CASE write_head
    <3>1. /\ UNCHANGED <<disk, mem, lh>> /\ tail' = 0
          /\ step = "write_head" /\ step' = "install_trans"
      BY <2>6 DEF write_head
    <3>. QED
      BY SMT, <3>1 DEF BodyInv, LogRegionFits
  <2>7. CASE install_trans
    <3>1. /\ UNCHANGED <<lh, committing, step>> /\ tail' = tail + 1
          /\ step = "install_trans"
          /\ bwrite(lh[tail + 1], bread(tail + 1))
      BY <2>7 DEF install_trans, ops
    <3>. SUFFICES ASSUME LogRegionFits
                  PROVE  /\ committing => \A i \in 1..Len(lh) : disk'[i] = mem'[lh[i]]
                         /\ \A i \in 1..Len(lh) : i <= tail + 1 => disk'[lh[i]] = disk'[i]
      BY <3>1 DEF BodyInv, LogRegionFits
    <3>2. /\ tail + 1 \in 1..Len(lh) /\ tail + 1 \in LogBody /\ tail + 1 \notin Home
          /\ lh[tail+1] \in Home
      <4>1. tail + 1 \in 1..Len(lh)
        BY SMT, <2>7 DEF install_trans
      <4>. QED
        BY <4>1, <2>0
    <3>3. /\ disk' = [disk EXCEPT ![lh[tail+1]] = disk[tail+1]]
          /\ mem' = [mem EXCEPT ![lh[tail+1]] = disk[tail+1]]
      BY <3>1, <3>2 DEF bread, bwrite
    <3>4. \A i \in 1..Len(lh) : disk'[i] = disk[i]
      BY ZenonT(40), <3>2, <3>3, <2>0
    <3>5. ASSUME NEW i \in 1..Len(lh), i <= tail + 1 PROVE disk'[lh[i]] = disk[i]
      <4>1. CASE i = tail + 1
        BY <4>1, <3>2, <3>3
      <4>2. CASE i <= tail /\ i # tail + 1
        <5>1. lh[i] # lh[tail+1] /\ lh[i] \in Home
          BY <4>2, <3>2, <2>0 DEF SlotsOK, NoDup
        <5>. QED
          BY <4>2, <5>1, <3>1, <3>3 DEF BodyInv
      <4>. QED
        BY SMT, <3>5, <4>1, <4>2
    <3>6. ASSUME committing, NEW i \in 1..Len(lh) PROVE disk[i] = mem'[lh[i]]
      <4>1. \A j \in 1..Len(lh) : disk[j] = mem[lh[j]]
        BY <3>1, <3>6 DEF BodyInv
      <4>. QED
        BY <4>1, <3>2, <3>3, <2>0
    <3>. QED
      BY <3>4, <3>5, <3>6
  <2>8. CASE install_done
    <3>1. /\ UNCHANGED <<disk, head>>
          /\ step = "install_trans" /\ step' = "clear" /\ head = lh
          /\ \A i \in 1..Len(lh) : i <= tail
      BY SMT, <2>8 DEF install_done, AgreeInv
    <3>. QED
      BY <3>1 DEF BodyInv, LogRegionFits
  <2>9. CASE clear_head
    BY <2>9, <2>1 DEF clear_head
  <2>10. CASE read_head
    <3>1. tail' = 0 /\ step' = "install_trans" /\ ~committing'
      BY <2>10 DEF read_head, ops, IsolationInv, Phase
    <3>. QED
      BY SMT, <3>1 DEF BodyInv
  <2>11. ASSUME NEW p \in Procs, end_op_finish(p) PROVE BodyInv'
    BY <2>11, <2>1 DEF end_op_finish
  <2>12. CASE Crash
    BY <2>12, <2>1 DEF Crash
  <2>13. CASE UNCHANGED vars
    BY <2>13, <2>2 DEF vars
  <2>. QED
    BY <2>3, <2>4, <2>5, <2>6, <2>7, <2>8, <2>9, <2>10, <2>11, <2>12, <2>13
       DEF Next, Run, Committer
<1>. QED
  BY <1>1, <1>2, Typing, Isolation, Agreement, PTL DEF Spec

-----------------------------------------------------------------------------
(***************************************************************************)
(* The log implements AtomicDisk.                                          *)
(***************************************************************************)
LEMMA SlotOf ==
  ASSUME NEW h \in Seq(Home), NEW b \in Range(h)
  PROVE  LogSlot(h, b) \in 1..Len(h) /\ h[LogSlot(h, b)] = b
<1>1. \E i \in 1..Len(h) : h[i] = b
  BY SMT DEF Range
<1>. QED
  BY <1>1 DEF LogSlot

\* With an empty header recovery changes nothing.
LEMMA RecoveredEmpty ==
  ASSUME head = <<>>
  PROVE  Recovered = [b \in Home |-> disk[b]]
<1>1. Range(head) = {}
  BY SMT DEF Range
<1>. QED
  BY <1>1 DEF Recovered

\* Writes outside the slots named by the header and outside the home blocks it
\* does not name leave the recovered contents alone.
LEMMA RecoveredKept ==
  ASSUME TypeInv, head' = head,
         \A i \in 1..Len(head) : disk'[i] = disk[i],
         \A b \in Home : b \notin Range(head) => disk'[b] = disk[b]
  PROVE  Recovered' = Recovered
<1>1. \A b \in Range(head) : LogSlot(head, b) \in 1..Len(head)
  BY SlotOf DEF TypeInv, TypeOK
<1>. QED
  BY <1>1 DEF Recovered

\* Every initial state of the log maps to an initial state of AtomicDisk.
LEMMA RefinesInit == Init => Disk!Init
<1>. SUFFICES ASSUME Init PROVE Disk!Init
  OBVIOUS
<1>1. Recovered = [b \in Home |-> disk[b]]
  BY RecoveredEmpty DEF Init
<1>2. Recovered = mem /\ MemView = mem /\ Active = {}
  BY <1>1 DEF Init, MemView, Running, Active
<1>. QED
  BY <1>2 DEF Init, Disk!Init

\* Every step of the log maps to a step of AtomicDisk or to a stutter; the
\* commit is the write of the header.
LEMMA RefinesNext ==
  ASSUME TypeInv, IsolationInv, QuietInv, AgreeInv, BodyInv, [Next]_vars, ~Overrun
  PROVE  [Disk!Next]_(Disk!vars)
<1>. USE DEF TypeInv, TypeOK, Running
<1>0. /\ \A i \in 1..Len(lh) : i \in LogBody /\ i \notin Home /\ lh[i] \in Home
      /\ \A i \in 1..Len(head) : i \in LogBody /\ i \notin Home /\ head[i] \in Home
  BY BodySlots DEF Overrun, LogRegionFits
<1>1. ASSUME NEW p \in Procs, begin_op_sleep(p) PROVE UNCHANGED Disk!vars
  <2>1. Active' = Active /\ MemView' = MemView /\ Recovered' = Recovered
    BY <1>1 DEF begin_op_sleep, Active, MemView, Recovered
  <2>. QED
    BY <2>1 DEF Disk!vars
<1>2. ASSUME NEW p \in Procs, begin_op_enter(p) PROVE Disk!Begin(p)
  <2>1. /\ p \notin Active /\ Active' = Active \cup {p}
        /\ MemView' = MemView /\ Recovered' = Recovered
    BY <1>2 DEF begin_op_enter, Active, MemView, Recovered
  <2>. QED
    BY <2>1 DEF Disk!Begin
<1>3. ASSUME NEW p \in Procs, NEW b \in Home, NEW v \in Data, log_write_check(p, b, v)
      PROVE  Disk!Write(p, b, v)
  <2>1. /\ p \in Active /\ Active' = Active /\ Recovered' = Recovered
        /\ MemView = mem /\ MemView' = [mem EXCEPT ![b] = v]
    BY <1>3 DEF log_write_check, Modifies, Active, MemView, Recovered
  <2>. QED
    BY <2>1 DEF Disk!Write
<1>4. ASSUME NEW p \in Procs, NEW b \in Home, log_write_panic(p, b) PROVE UNCHANGED Disk!vars
  <2>1. Active' = Active /\ MemView' = MemView /\ Recovered' = Recovered
    BY <1>4 DEF log_write_panic, Modifies, panic, Active, MemView, Recovered
  <2>. QED
    BY <2>1 DEF Disk!vars
<1>5. ASSUME NEW p \in Procs, log_write_append(p) PROVE UNCHANGED Disk!vars
  <2>1. Active' = Active /\ MemView' = MemView /\ Recovered' = Recovered
    BY <1>5 DEF log_write_append, Active, MemView, Recovered
  <2>. QED
    BY <2>1 DEF Disk!vars
<1>6. ASSUME NEW p \in Procs, end_op_leave(p) PROVE Disk!End(p)
  <2>1. /\ p \in Active /\ Active' = Active \ {p}
        /\ MemView' = MemView /\ Recovered' = Recovered
    BY <1>6 DEF end_op_leave, wakeup, Active, MemView, Recovered
  <2>. QED
    BY <2>1 DEF Disk!End
<1>7. ASSUME NEW p \in Procs, end_op_commit(p) PROVE Disk!End(p)
  <2>1. /\ p \in Active /\ Active' = Active \ {p}
        /\ MemView' = MemView /\ Recovered' = Recovered
    BY <1>7 DEF end_op_commit, Active, MemView, Recovered
  <2>. QED
    BY <2>1 DEF Disk!End
<1>8. CASE write_log
  <2>1. tail + 1 \in 1..Len(lh) /\ tail + 1 \notin Home
    <3>1. tail \in Nat /\ Len(lh) \in Nat /\ tail < Len(lh)
      BY SMT, <1>8 DEF write_log
    <3>2. tail + 1 \in 1..Len(lh)
      BY SMT, <3>1
    <3>. QED
      BY <1>0, <3>2
  <2>2. head = <<>> /\ head' = head /\ mem' = mem /\ \A b \in Home : disk'[b] = disk[b]
    BY <1>8, <2>1 DEF write_log, bwrite, AgreeInv
  <2>3. Recovered' = Recovered
    BY SMT, <2>2, RecoveredKept
  <2>4. Active' = Active /\ MemView' = MemView
    BY <1>8, <2>2 DEF write_log, ops, Active, MemView, IsolationInv, Phase
  <2>. QED
    BY <2>3, <2>4 DEF Disk!vars
<1>9. CASE write_head
  <2>1. /\ UNCHANGED <<disk, mem, lh, ops, panicked>> /\ head' = lh
        /\ committing /\ ~panicked /\ step = "write_head"
    BY <1>9 DEF write_head, IsolationInv, Phase
  <2>2. Active = {} /\ Active' = Active /\ \A p \in Procs : pc[p] # "append"
    BY <2>1 DEF ops, Active, IsolationInv, CommitIsolated
  <2>3. MemView = mem /\ MemView' = mem
    BY <2>1 DEF ops, MemView
  <2>4. ASSUME NEW b \in Home PROVE Recovered'[b] = mem[b]
    <3>1. CASE b \in Range(lh)
      <4>1. LogSlot(lh, b) \in 1..Len(lh) /\ lh[LogSlot(lh, b)] = b
        BY <3>1, SlotOf
      <4>2. disk[LogSlot(lh, b)] = mem[b]
        BY ZenonT(40), <4>1, <2>1 DEF BodyInv, Overrun
      <4>. QED
        BY <4>2, <3>1, <2>1 DEF Recovered
    <3>2. CASE b \notin Range(lh)
      BY <3>2, <2>1, <2>2 DEF Recovered, AgreeInv, Unlogged, Same
    <3>. QED
      BY <3>1, <3>2
  <2>5. Recovered' = mem
    BY <2>4 DEF Recovered
  <2>6. Disk!Commit
    BY <2>2, <2>3, <2>5 DEF Disk!Commit
  <2>. QED
    BY <2>6 DEF Disk!Next
<1>10. CASE install_trans
  <2>1. /\ tail + 1 \in 1..Len(lh) /\ tail + 1 \notin Home /\ lh[tail+1] \in Home
        /\ lh[tail+1] \in Range(lh)
    <3>1. tail \in Nat /\ Len(lh) \in Nat /\ tail < Len(lh)
      BY SMT, <1>10 DEF install_trans
    <3>2. tail + 1 \in 1..Len(lh)
      BY SMT, <3>1
    <3>3. lh[tail+1] \in Range(lh)
      BY SMT, <3>2 DEF Range
    <3>. QED
      BY <1>0, <3>2, <3>3
  <2>2. /\ disk' = [disk EXCEPT ![lh[tail+1]] = disk[tail+1]]
        /\ mem' = [mem EXCEPT ![lh[tail+1]] = disk[tail+1]]
        /\ UNCHANGED <<head, lh, ops, step, panicked>>
        /\ ~panicked /\ step = "install_trans" /\ head = lh
    BY <1>10, <2>1 DEF install_trans, bread, bwrite, AgreeInv
  <2>3. Recovered' = Recovered
    <3>1. \A i \in 1..Len(head) : disk'[i] = disk[i]
      BY SMTT(30), <2>1, <2>2, <1>0
    <3>2. \A b \in Home : b \notin Range(head) => disk'[b] = disk[b]
      BY <2>1, <2>2
    <3>. QED
      BY <3>1, <3>2, <2>2, RecoveredKept
  <2>4. committing => mem' = mem
    <3>1. committing => disk[tail+1] = mem[lh[tail+1]]
      BY <2>1, <2>2 DEF BodyInv, Overrun
    <3>. QED
      BY <2>2, <3>1
  <2>5. Active' = Active /\ MemView' = MemView
    BY <2>2, <2>3, <2>4 DEF ops, Active, MemView
  <2>. QED
    BY <2>3, <2>5 DEF Disk!vars
<1>11. CASE install_done
  <2>1. Recovered' = Recovered /\ Active' = Active
    BY <1>11 DEF install_done, ops, Recovered, Active
  <2>2. MemView' = MemView
    BY <1>11, <2>1 DEF install_done, ops, MemView
  <2>. QED
    BY <2>1, <2>2 DEF Disk!vars
<1>12. CASE clear_head
  <2>1. /\ UNCHANGED <<disk, mem, ops, panicked>> /\ head' = <<>>
        /\ ~panicked /\ step = "clear"
        /\ step' = IF committing THEN "finish" ELSE "up"
    BY <1>12 DEF clear_head, QuietInv
  <2>2. \A b \in Home : mem[b] = disk[b]
    BY <2>1 DEF AgreeInv, Same
  <2>3. ASSUME NEW b \in Home PROVE Recovered[b] = disk[b]
    <3>1. CASE b \in Range(head)
      <4>1. LogSlot(head, b) \in 1..Len(head) /\ head[LogSlot(head, b)] = b
        BY <3>1, SlotOf
      <4>. QED
        BY <4>1, <3>1, <2>1 DEF Recovered, BodyInv, Overrun
    <3>2. CASE b \notin Range(head)
      BY <3>2 DEF Recovered
    <3>. QED
      BY <3>1, <3>2
  <2>4. Recovered' = [b \in Home |-> disk'[b]]
    <3>1. Range(head') = {}
      BY SMT, <2>1 DEF Range
    <3>. QED
      BY <3>1 DEF Recovered
  <2>5. Recovered = mem /\ Recovered' = mem
    <3>1. Recovered = [b \in Home |-> Recovered[b]]
      BY DEF Recovered
    <3>. QED
      BY <3>1, <2>1, <2>2, <2>3, <2>4
  <2>6. MemView = mem /\ MemView' = mem /\ Active' = Active
    BY <2>1, <2>5 DEF MemView, ops, Active
  <2>. QED
    BY <2>5, <2>6 DEF Disk!vars
<1>13. CASE read_head
  <2>1. Recovered' = Recovered /\ Active' = Active
    BY <1>13 DEF read_head, ops, Recovered, Active
  <2>2. MemView' = MemView
    BY <1>13, <2>1 DEF read_head, ops, MemView
  <2>. QED
    BY <2>1, <2>2 DEF Disk!vars
<1>14. ASSUME NEW p \in Procs, end_op_finish(p) PROVE UNCHANGED Disk!vars
  <2>1. Active' = Active /\ MemView' = MemView /\ Recovered' = Recovered
    BY <1>14 DEF end_op_finish, wakeup, Active, MemView, Recovered
  <2>. QED
    BY <2>1 DEF Disk!vars
<1>15. CASE Crash
  <2>1. Recovered' = Recovered /\ Active' = {} /\ MemView' = Recovered'
    BY <1>15 DEF Crash, Recovered, Active, MemView
  <2>2. Disk!Crash
    BY <2>1 DEF Disk!Crash
  <2>. QED
    BY <2>2 DEF Disk!Next
<1>16. CASE UNCHANGED vars
  <2>1. Active' = Active /\ MemView' = MemView /\ Recovered' = Recovered
    BY <1>16 DEF vars, Active, MemView, Recovered
  <2>. QED
    BY <2>1 DEF Disk!vars
<1>. QED
  BY ZenonT(40), <1>1, <1>2, <1>3, <1>4, <1>5, <1>6, <1>7, <1>8, <1>9, <1>10, <1>11, <1>12, <1>13,
     <1>14, <1>15, <1>16 DEF Next, Run, Committer, Call, Disk!Next

\* Crash atomicity: for any number of processes and calls of any size, the calls
\* between begin_op() and end_op() become durable together or not at all,
\* whatever disk write the power failure follows, in recovery too, unless their
\* transaction overruns the body of the log; and one that does leaves the next
\* ones atomic.
THEOREM CrashAtomicity == Spec => DiskSpec
<1>1. TypeInv /\ IsolationInv /\ QuietInv /\ AgreeInv /\ BodyInv /\ [Next]_vars
        => [Disk!Next \/ Overrun]_(Disk!vars)
  BY RefinesNext
<1>. QED
  BY <1>1, RefinesInit, Typing, Isolation, Quiet, Agreement, Durability, PTL DEF Spec, DiskSpec

\* On the disk mkfs makes (nlog = LOGSIZE), as long as every call adds fewer than
\* MAXOPBLOCKS blocks, the log implements AtomicDisk without exception.
COROLLARY SizedCrashAtomicity ==
  ASSUME NLOG >= LOGSIZE
  PROVE  Spec /\ [](largest < MAXOPBLOCKS) => Disk!Spec
<1>1. Spec => [](largest < MAXOPBLOCKS => ~Overrun)
  BY LogRegionSafe
<1>2. ~Overrun /\ [Disk!Next \/ Overrun]_(Disk!vars) => [Disk!Next]_(Disk!vars)
  OBVIOUS
<1>. QED
  BY <1>1, <1>2, CrashAtomicity, PTL DEF DiskSpec, Disk!Spec

\* When no call is in progress and no commit is running, what is in memory is
\* what a crash and recovery would give back, also after an overrun.
THEOREM Durable == Spec => []QuiescentDurable
<1>1. ASSUME TypeInv, IsolationInv, QuietInv, AgreeInv PROVE QuiescentDurable
  <2>. SUFFICES ASSUME Running, ~committing, outstanding = 0 PROVE Recovered = mem
    BY DEF QuiescentDurable
  <2>1. step = "up" /\ lh = <<>> /\ head = <<>>
    BY <1>1 DEF Running, QuietInv, AgreeInv
  <2>2. Active = {}
    BY <1>1, ActiveFinite, FS_EmptySet DEF IsolationInv, CommitIsolated
  <2>3. \A b \in Home : mem[b] = disk[b]
    BY SMT, <1>1, <2>1, <2>2 DEF AgreeInv, Unlogged, Same, Active, Range
  <2>. QED
    BY <1>1, <2>1, <2>3, RecoveredEmpty DEF TypeInv, TypeOK
<1>. QED
  BY <1>1, Typing, Isolation, Quiet, Agreement, PTL
=============================================================================
