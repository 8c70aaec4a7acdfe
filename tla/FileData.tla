------------------------------ MODULE FileData ------------------------------
(***************************************************************************)
(* The content of inodes in disk blocks (balloc() to writei() in fs.c) and *)
(* the read() and write() of open files over it (file.c).  One action is   *)
(* what happens under one ilock(); write() takes several.                  *)
(***************************************************************************)
EXTENDS Integers, Sequences, FiniteSets, SequencesExt

CONSTANTS Procs, Inodes,
          Files, InodeOf,   \* open files, and the inode of each
          BSIZE, NDIRECT, NINDIRECT, LOGSIZE, MAXOPBLOCKS,
          NBLOCKS,          \* data blocks are 1..NBLOCKS
          UINT,             \* uint arithmetic wraps here
          Lens, Data        \* the n of read(), the bytes of write()

MAXFILE == NDIRECT + NINDIRECT
Blocks == 1..NBLOCKS
OutOfBlocks == NBLOCKS + 1   \* stands for panic("balloc: out of blocks")
BitMap == 0                  \* the other blocks that are written
InodeBlock == -1

ASSUME DataAssumption ==
  BSIZE \in Nat \ {0} /\ NDIRECT \in Nat \ {0} /\ NINDIRECT \in Nat \ {0} /\ MAXFILE * BSIZE < UINT

VARIABLES
  fs,    \* used: bits set in the free map; blk: the blocks; addrs, size: the
         \* inodes in memory; disk: what iupdate() wrote of them; log: blocks
         \* given to log_write() in the current transaction
  off,   \* f->off
  job,   \* the bytes each process's write() has still to write
  ret    \* what the last read() returned

vars == <<fs, off, job, ret>>

Cells == 0..(IF BSIZE > NINDIRECT THEN BSIZE ELSE NINDIRECT) - 1
Zero == [c \in Cells |-> 0]
NoAddrs == [k \in 0..NDIRECT |-> 0]

Init ==
  /\ fs = [used |-> {}, blk |-> [b \in 1..OutOfBlocks |-> Zero],
           addrs |-> [i \in Inodes |-> NoAddrs], size |-> [i \in Inodes |-> 0],
           disk |-> [i \in Inodes |-> [addrs |-> NoAddrs, size |-> 0]], log |-> {}]
  /\ off = [f \in Files |-> 0]
  /\ job = [p \in Procs |-> [f |-> CHOOSE f \in Files : TRUE, rest |-> <<>>]]
  /\ ret = <<>>

(***************************************************************************)
(* Blocks                                                                  *)
(***************************************************************************)
\* A bug: the block keeps what its last owner left in it.
Zeroed_not(s, b) == s.blk

\* bzero()
Zeroed(s, b) == [s.blk EXCEPT ![b] = Zero]

\* balloc(): the first free block.
Fresh(s) == CHOOSE b \in 1..OutOfBlocks : b \notin s.used \ {OutOfBlocks} /\ \A c \in 1..b-1 : c \in s.used
Balloc(s) ==
  LET b == Fresh(s)
  IN  [s EXCEPT !.used = @ \cup {b}, !.blk = Zeroed(s, b), !.log = @ \cup {BitMap, b}]

\* bmap() makes block bn of the inode exist.
Slot(bn) == bn - NDIRECT
Bmap(s, i, bn) ==
  IF bn < NDIRECT
  THEN IF s.addrs[i][bn] # 0 THEN s ELSE [Balloc(s) EXCEPT !.addrs[i][bn] = Fresh(s)]
  ELSE LET t == IF s.addrs[i][NDIRECT] # 0 THEN s ELSE [Balloc(s) EXCEPT !.addrs[i][NDIRECT] = Fresh(s)]
           ind == t.addrs[i][NDIRECT]
       IN  IF t.blk[ind][Slot(bn)] # 0 THEN t
           ELSE [Balloc(t) EXCEPT !.blk[ind][Slot(bn)] = Fresh(t), !.log = @ \cup {ind}]
Addr(s, i, bn) ==
  IF bn < NDIRECT THEN s.addrs[i][bn] ELSE s.blk[s.addrs[i][NDIRECT]][Slot(bn)]

Iupdate(s, i) ==
  [s EXCEPT !.disk[i] = [addrs |-> s.addrs[i], size |-> s.size[i]], !.log = @ \cup {InodeBlock}]

\* The blocks itrunc() frees: direct, indirect, and the indirect block.
Listed(s, i) == {s.addrs[i][k] : k \in 0..NDIRECT-1} \ {0}
Indirect(s, i) ==
  IF s.addrs[i][NDIRECT] = 0 THEN {} ELSE {s.blk[s.addrs[i][NDIRECT]][c] : c \in 0..NINDIRECT-1} \ {0}

Own(s, i) == Listed(s, i) \cup Indirect(s, i) \cup ({s.addrs[i][NDIRECT]} \ {0})
Itrunc(s, i) ==
  Iupdate([s EXCEPT !.used = @ \ Own(s, i), !.addrs[i] = NoAddrs, !.size[i] = 0,
                    !.log = @ \cup (IF Own(s, i) = {} THEN {} ELSE {BitMap})], i)

(***************************************************************************)
(* readi() and writei()                                                    *)
(***************************************************************************)
\* The blocks that bytes o .. o+n-1 touch, in order.
Span(o, n) ==
  IF n = 0 THEN <<>> ELSE [k \in 1..((o + n - 1) \div BSIZE - o \div BSIZE + 1) |-> o \div BSIZE + k - 1]

Byte(s, i, o) == s.blk[Addr(s, i, o \div BSIZE)][o % BSIZE]

\* Refused: past the end, or the sum of offset and length wraps around.
BadRange(s, i, o, n) == o > s.size[i] \/ (o + n) % UINT < o

Readi(s, i, o, n) ==
  IF BadRange(s, i, o, n) THEN <<-1>>
  ELSE LET m == IF (o + n) % UINT > s.size[i] THEN s.size[i] - o ELSE n
       IN  [k \in 1..m |-> Byte(s, i, o + k - 1)]

WriteFails(s, i, o, n) == BadRange(s, i, o, n) \/ (o + n) % UINT > MAXFILE * BSIZE

\* A bug: the size follows the offset down as well.
Grows_always(s, i, o) == TRUE
Grows(s, i, o) == o > s.size[i]

Writei(s, i, o, bytes) ==
  LET n == Len(bytes)
      one(t, bn) ==
        LET u == Bmap(t, i, bn)
            b == Addr(u, i, bn)
        IN  [u EXCEPT !.blk[b] = [c \in Cells |-> LET k == bn * BSIZE + c - o IN
                                    IF c < BSIZE /\ k \in 0..n-1 THEN bytes[k+1] ELSE u.blk[b][c]],
                      !.log = @ \cup {b}]
      done == FoldLeft(one, s, Span(o, n))
  IN  IF n > 0 /\ Grows(s, i, o + n) THEN Iupdate([done EXCEPT !.size[i] = o + n], i) ELSE done

(***************************************************************************)
(* fileread() and filewrite()                                              *)
(***************************************************************************)
Idle(p) == job[p].rest = <<>>

sys_read(p, f, n) ==
  /\ Idle(p)
  /\ LET r == Readi(fs, InodeOf[f], off[f], n) IN
       /\ ret' = r
       /\ off' = IF r = <<-1>> THEN off ELSE [off EXCEPT ![f] = @ + Len(r)]
  /\ UNCHANGED <<fs, job>>

sys_write(p, f, bytes) ==
  /\ Idle(p)
  /\ job' = [job EXCEPT ![p] = [f |-> f, rest |-> bytes]]
  /\ UNCHANGED <<fs, off, ret>>

\* A bug: no half of it is left for the blocks of allocation.
max_whole == (LOGSIZE-1-1-2) * BSIZE

\* "write a few blocks at a time": the bytes of one transaction.
max == ((LOGSIZE-1-1-2) \div 2) * BSIZE

Advance(o, n) == o + n

\* One turn of the loop: begin_op(), writei(), end_op().
filewrite(p) ==
  /\ ~Idle(p)
  /\ LET f == job[p].f
         i == InodeOf[f]
         n1 == IF Len(job[p].rest) > max THEN max ELSE Len(job[p].rest)
         chunk == SubSeq(job[p].rest, 1, n1)
         next == Writei([fs EXCEPT !.log = {}], i, off[f], chunk)
     IN  \/ /\ WriteFails(fs, i, off[f], n1)
            /\ job' = [job EXCEPT ![p].rest = <<>>]
            /\ ret' = <<-1>>
            /\ UNCHANGED <<fs, off>>
         \/ /\ ~WriteFails(fs, i, off[f], n1) /\ OutOfBlocks \notin next.used
            /\ fs' = next
            /\ off' = [off EXCEPT ![f] = Advance(@, n1)]
            /\ job' = [job EXCEPT ![p].rest = SubSeq(@, n1 + 1, Len(@))]
            /\ ret' = <<>>
         \/ /\ ~WriteFails(fs, i, off[f], n1) /\ OutOfBlocks \in next.used
            /\ fs' = [fs EXCEPT !.used = @ \cup {OutOfBlocks}]
            /\ UNCHANGED <<off, job, ret>>

\* The last name and the last open file are gone: iput() frees the inode, and
\* a new file, opened anew, gets it.
remove(i) ==
  /\ \A p \in Procs : Idle(p) \/ InodeOf[job[p].f] # i
  /\ fs' = Itrunc([fs EXCEPT !.log = {}], i)
  /\ off' = [f \in Files |-> IF InodeOf[f] = i THEN 0 ELSE off[f]]
  /\ ret' = <<>>
  /\ UNCHANGED job

Next ==
  /\ OutOfBlocks \notin fs.used
  /\ \/ \E p \in Procs : \/ filewrite(p)
                         \/ \E f \in Files : \/ \E n \in Lens : sys_read(p, f, n)
                                            \/ \E s \in Data : sys_write(p, f, s)
     \/ \E i \in Inodes : remove(i)

Spec == Init /\ [][Next]_vars

(***************************************************************************)
(* Properties                                                              *)
(***************************************************************************)
\* The types; no file and no position is past MAXFILE blocks.
TypeOK ==
  /\ fs.used \subseteq 1..OutOfBlocks
  /\ fs.addrs \in [Inodes -> [0..NDIRECT -> 0..OutOfBlocks]]
  /\ fs.size \in [Inodes -> 0..MAXFILE*BSIZE]
  /\ off \in [Files -> 0..MAXFILE*BSIZE]

\* Seen through direct and indirect blocks, partial first and last blocks and
\* the position shared by the processes that write it in turn, a file is a
\* plain sequence of bytes, and read() returns exactly the bytes at its
\* position, never more than there are whatever n (FlatFile).
Flat ==
  INSTANCE FlatFile WITH
    content <- [i \in Inodes |-> [k \in 1..fs.size[i] |-> Byte(fs, i, k - 1)]],
    Strings <- UNION {{SubSeq(s, a, b) : a, b \in 1..Len(s)} : s \in Data} \ {<<>>},
    MaxSize <- MAXFILE * BSIZE
\* filewrite() and fileread() implement FlatFile.
IsFlatFile == Flat!Spec

\* A block in use belongs to one place of one inode, and every other block is
\* free: nothing is lost, freed twice or shared.  With the inode unlocked this
\* is also what the disk says: its blocks and size are there as in memory, even
\* though writei() updates the inode only when the size grows, so that the
\* inode can leave the cache at any time.
BlocksOwned ==
  OutOfBlocks \notin fs.used =>
    /\ UNION {Own(fs, i) : i \in Inodes} = fs.used
    /\ \A i, j \in Inodes : i # j => Own(fs, i) \cap Own(fs, j) = {}
    /\ \A i \in Inodes : Cardinality(Own(fs, i)) =
         LET n == (fs.size[i] + BSIZE - 1) \div BSIZE IN IF n > NDIRECT THEN n + 1 ELSE n
    /\ \A i \in Inodes : fs.disk[i] = [addrs |-> fs.addrs[i], size |-> fs.size[i]]

\* "to avoid exceeding the maximum log transaction size": what one turn of
\* filewrite() writes fits an empty log.
FitsLog == Cardinality(fs.log) <= LOGSIZE - 1

\* MAXOPBLOCKS: "max # of blocks any FS op writes".
FitsReservation == Cardinality(fs.log) <= MAXOPBLOCKS
=============================================================================
