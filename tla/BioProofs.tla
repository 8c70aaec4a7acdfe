----------------------------- MODULE BioProofs ------------------------------
(***************************************************************************)
(* Theorems about Bio, for any number of threads, buffers and blocks and   *)
(* both disk drivers.                                                      *)
(***************************************************************************)
EXTENDS Bio, FiniteSetTheorems, TLAPS

\* Leaves that name no prover are Zenon's.
USE Zenon

Holds(r) == pc[r] \in {"hold", "iderw", "io_asleep", "iowait"}

\* Who may use which buffer.  A buffer is busy exactly while one reference holds
\* it, and it is then the buffer of the block that was asked for.
HolderInv ==
  /\ \A r \in Refs : Holds(r) => /\ cur[r] \in Bufs /\ want[r] \in Blocks
                                 /\ buf[cur[r]].busy = TRUE /\ buf[cur[r]].blk = want[r]
  /\ \A r \in Refs : pc[r] = "b_asleep" => /\ cur[r] \in Bufs /\ buf[cur[r]].busy = TRUE
                                           /\ buf[cur[r]].blk = want[r]
  /\ \A r \in Refs : pc[r] \in {"bget", "b_asleep"} => want[r] \in Blocks
  /\ \A r, q \in Refs : Holds(r) /\ Holds(q) /\ cur[r] = cur[q] => r = q
  /\ \A b \in Bufs : buf[b].busy = TRUE => \E r \in Refs : Holds(r) /\ cur[r] = b
  /\ \A b, c \in Bufs : buf[b].blk = buf[c].blk /\ buf[b].blk # NoBlock => b = c

\* The flags of a buffer, and what they say about its holder.
FlagsInv ==
  /\ \A b \in Bufs : buf[b].dirty = TRUE => buf[b].valid = TRUE
  /\ \A b \in Bufs : buf[b].valid = TRUE => buf[b].blk # NoBlock
  /\ \A r \in Refs : pc[r] = "hold" => buf[cur[r]].valid = TRUE
  /\ \A r \in Refs : pc[r] = "iowait" => buf[cur[r]].valid = TRUE /\ buf[cur[r]].dirty = FALSE

\* The queue of the disk driver: its requests are those of the processes asleep
\* in iderw(), each once, and the disk works for the first.
QueueInv ==
  /\ active = (IF idequeue = <<>> THEN 0 ELSE idequeue[1])
  /\ irq = TRUE => idequeue # <<>>
  /\ \A i, j \in 1..Len(idequeue) : idequeue[i] = idequeue[j] => i = j
  /\ \A i \in 1..Len(idequeue) : \E r \in Refs : cur[r] = idequeue[i] /\ pc[r] = "io_asleep"
  /\ \A r \in Refs : pc[r] = "io_asleep" => \E i \in 1..Len(idequeue) : idequeue[i] = cur[r]

\* Where the last contents of a block are, if the disk reports no error: in its
\* valid buffer, and on the disk unless that buffer is dirty.  When the disk has
\* finished a request, the block's contents are on the disk.
DataInv ==
  IoErrors = FALSE =>
    /\ \A b \in Bufs : buf[b].valid = TRUE => buf[b].data = last[buf[b].blk]
    /\ \A b \in Bufs : buf[b].valid = TRUE /\ buf[b].dirty = FALSE => disk[buf[b].blk] = last[buf[b].blk]
    /\ \A k \in Blocks : (\A b \in Bufs : buf[b].blk = k => buf[b].valid = FALSE) => disk[k] = last[k]
    /\ irq = TRUE => disk[buf[active].blk] = last[buf[active].blk]

Inv == TypeOK /\ HolderInv /\ FlagsInv /\ QueueInv /\ DataInv

(***************************************************************************)
(* What a step leaves alone                                                *)
(***************************************************************************)
\* One buffer is changed.
LEMMA OneBuffer ==
  ASSUME TypeOK, NEW b \in Bufs, NEW x \in BufRec, buf' = [buf EXCEPT ![b] = x]
  PROVE  /\ buf' \in [Bufs -> BufRec] /\ buf'[b] = x
         /\ \A c \in Bufs : c # b => buf'[c] = buf[c]
BY DEF TypeOK

\* What a step of a process must respect to keep the types.
LEMMA Typed ==
  ASSUME TypeOK, UNCHANGED <<mru, idequeue, active, irq, driver, disk, last, want>>,
         buf' \in [Bufs -> BufRec], cur' \in [Refs -> 0..NBUF], pc' \in [Refs -> Labels]
  PROVE  TypeOK'
BY DEF TypeOK, Bufs

\* The holders stay the same and keep their buffers.
LEMMA SameHolders ==
  ASSUME TypeOK, HolderInv, UNCHANGED <<cur, want>>,
         \A r \in Refs : Holds(r)' <=> Holds(r),
         \A r \in Refs : pc'[r] = "b_asleep" => pc[r] = "b_asleep",
         \A r \in Refs : pc'[r] = "bget" => pc[r] \in {"bget", "b_asleep"},
         \A b \in Bufs : buf'[b].blk = buf[b].blk /\ buf'[b].busy = buf[b].busy
  PROVE  HolderInv'
BY SMT DEF HolderInv, Holds

\* Nobody joins or leaves those asleep in iderw().
LEMMA SameQueue ==
  ASSUME QueueInv, UNCHANGED <<idequeue, active, irq>>,
         \A r \in Refs : pc'[r] = "io_asleep" <=> pc[r] = "io_asleep",
         \A r \in Refs : pc[r] = "io_asleep" => cur'[r] = cur[r]
  PROVE  QueueInv'
BY SMT DEF QueueInv

\* The buffer the disk works for: a process sleeps in iderw() for it.
LEMMA ActiveHeld ==
  ASSUME Inv, idequeue # <<>>
  PROVE  /\ 1 \in 1..Len(idequeue) /\ active = idequeue[1] /\ active \in Bufs /\ buf[active].blk \in Blocks
         /\ \E r \in Refs : cur[r] = active /\ pc[r] = "io_asleep"
<1>1. 1 \in 1..Len(idequeue) /\ idequeue[1] \in Bufs
  BY SMT DEF Inv, TypeOK
<1>2. active = idequeue[1]
  BY DEF Inv, QueueInv
<1>3. PICK r \in Refs : cur[r] = active /\ pc[r] = "io_asleep"
  BY ZenonT(40), <1>1, <1>2 DEF Inv, QueueInv
<1>4. buf[active].blk \in Blocks
  BY <1>3 DEF Inv, HolderInv, Holds
<1>5. QED
  BY <1>1, <1>2, <1>3, <1>4

\* The contents and the flags stay the same, and so does what the disk works on.
LEMMA SameData ==
  ASSUME Inv, UNCHANGED <<disk, last, irq>>, idequeue # <<>> => active' = active,
         \A b \in Bufs : /\ buf'[b].blk = buf[b].blk /\ buf'[b].valid = buf[b].valid
                         /\ buf'[b].dirty = buf[b].dirty /\ buf'[b].data = buf[b].data
  PROVE  DataInv'
<1>1. irq = TRUE => active' = active /\ active \in Bufs
  BY ActiveHeld DEF Inv, QueueInv
<1>2. QED
  BY SMT, <1>1 DEF Inv, DataInv

\* A clean buffer's block is up to date on the disk, valid or not.
LEMMA CleanOnDisk ==
  ASSUME Inv, IoErrors = FALSE, NEW b \in Bufs, buf[b].dirty = FALSE, buf[b].blk \in Blocks
  PROVE  disk[buf[b].blk] = last[buf[b].blk]
<1>1. buf[b].valid \in BOOLEAN
  BY DEF Inv, TypeOK, BufRec
<1>2. \A c \in Bufs : buf[c].blk = buf[b].blk => c = b
  BY BioAssumption DEF Inv, HolderInv
<1>3. QED
  BY <1>1, <1>2 DEF Inv, DataInv

(***************************************************************************)
(* The steps                                                               *)
(***************************************************************************)
LEMMA bread_step ==
  ASSUME Inv, NEW r \in Refs, NEW k \in Blocks, bread(r, k)
  PROVE  Inv'
<1>1. TypeOK'
  BY DEF Inv, TypeOK, Labels, bread, At, cache, ide
<1>2. /\ pc'[r] = "bget" /\ want'[r] = k /\ pc[r] = "user" /\ UNCHANGED <<buf, cur, idequeue, active, irq>>
      /\ \A q \in Refs : q # r => pc'[q] = pc[q] /\ want'[q] = want[q]
  BY DEF Inv, TypeOK, bread, At, cache, ide
<1>3. HolderInv'
  BY SMT, <1>2 DEF Inv, HolderInv, Holds
<1>4. FlagsInv'
  BY <1>2 DEF Inv, FlagsInv
<1>5. QueueInv'
  BY <1>2, SameQueue DEF Inv
<1>data. DataInv'
  BY <1>2, SameData DEF bread, ide
<1>6. QED
  BY <1>1, <1>3, <1>4, <1>5, <1>data DEF Inv

LEMMA bget_hit_step ==
  ASSUME Inv, NEW r \in Refs, bget_hit(r)
  PROVE  Inv'
<1>1. PICK b \in Bufs : /\ buf[b].blk = want[r] /\ ~buf[b].busy
                        /\ buf' = [buf EXCEPT ![b].busy = TRUE] /\ Got(r, b, buf[b].valid)
  BY DEF bget_hit, Cached
<1> DEFINE x == [buf[b] EXCEPT !.busy = TRUE]
<1>a. buf[b] \in BufRec
  BY DEF Inv, TypeOK
<1>b. /\ x \in BufRec /\ x.blk = buf[b].blk /\ x.busy = TRUE /\ x.valid = buf[b].valid
      /\ x.dirty = buf[b].dirty /\ x.data = buf[b].data
  BY <1>a DEF BufRec
<1>2. buf' = [buf EXCEPT ![b] = x]
  BY <1>1
<1> HIDE DEF x
<1>3. /\ buf' \in [Bufs -> BufRec] /\ buf'[b] = x
      /\ \A c \in Bufs : c # b => buf'[c] = buf[c]
  BY <1>b, <1>2, OneBuffer DEF Inv
<1>c. /\ cur' = [cur EXCEPT ![r] = b] /\ pc' = [pc EXCEPT ![r] = IF buf[b].valid THEN "hold" ELSE "iderw"]
      /\ UNCHANGED <<mru, idequeue, active, irq, driver, disk, last, want>>
  BY <1>1 DEF Got, ide
<1>d. cur' \in [Refs -> 0..NBUF]
  BY SMT, <1>c DEF Inv, TypeOK, Bufs
<1>e. pc' \in [Refs -> Labels]
  BY <1>c DEF Inv, TypeOK, Labels
<1>4. TypeOK'
  BY <1>3, <1>c, <1>d, <1>e, Typed DEF Inv
<1>5. /\ pc[r] = "bget" /\ want' = want /\ cur'[r] = b /\ UNCHANGED <<idequeue, active, irq>>
      /\ pc'[r] = IF buf[b].valid THEN "hold" ELSE "iderw"
      /\ \A q \in Refs : q # r => pc'[q] = pc[q] /\ cur'[q] = cur[q]
  BY <1>c DEF Inv, TypeOK, bget_hit, At
<1>6. buf[b].busy = FALSE /\ buf[b].valid \in BOOLEAN
  BY <1>1, <1>a DEF BufRec
<1>7. HolderInv'
  BY SMT, <1>1, <1>b, <1>3, <1>5, <1>6 DEF Inv, HolderInv, Holds
<1>8. FlagsInv'
  BY SMT, <1>1, <1>b, <1>3, <1>5, <1>6 DEF Inv, FlagsInv, HolderInv, Holds
<1>9. QueueInv'
  BY <1>5, SameQueue DEF Inv
<1>data. DataInv'
  BY <1>b, <1>c, <1>3, SameData
<1>10. QED
  BY <1>4, <1>7, <1>8, <1>9, <1>data DEF Inv

LEMMA bget_sleep_step ==
  ASSUME Inv, NEW r \in Refs, bget_sleep(r)
  PROVE  Inv'
<1>1. PICK b \in Bufs : buf[b].blk = want[r] /\ buf[b].busy /\ cur' = [cur EXCEPT ![r] = b]
  BY DEF bget_sleep, Cached
<1>2. /\ pc[r] = "bget" /\ pc'[r] = "b_asleep" /\ cur'[r] = b /\ UNCHANGED <<buf, want, idequeue, active, irq>>
      /\ \A q \in Refs : q # r => pc'[q] = pc[q] /\ cur'[q] = cur[q]
  BY <1>1 DEF Inv, TypeOK, bget_sleep, At, cache, ide, Bufs
<1>3. buf[b].busy = TRUE
  BY <1>1 DEF Inv, TypeOK, BufRec
<1>a. cur' \in [Refs -> 0..NBUF]
  BY SMT, <1>1 DEF Inv, TypeOK, Bufs
<1>b. pc' \in [Refs -> Labels]
  BY DEF Inv, TypeOK, Labels, bget_sleep
<1>4. TypeOK'
  BY <1>a, <1>b, Typed DEF Inv, TypeOK, bget_sleep, cache, ide
<1>5. HolderInv'
  BY SMT, <1>1, <1>2, <1>3 DEF Inv, HolderInv, Holds
<1>6. FlagsInv'
  BY ZenonT(40), <1>2 DEF Inv, FlagsInv
<1>7. QueueInv'
  BY <1>2, SameQueue DEF Inv
<1>data. DataInv'
  BY <1>2, SameData DEF bget_sleep, ide
<1>8. QED
  BY <1>4, <1>5, <1>6, <1>7, <1>data DEF Inv

LEMMA bget_recycle_step ==
  ASSUME Inv, NEW r \in Refs, bget_recycle(r)
  PROVE  Inv'
<1>1. PICK i \in Bufs :
        /\ Recyclable(mru[i])
        /\ buf' = [buf EXCEPT ![mru[i]] = [@ EXCEPT !.blk = want[r], !.busy = TRUE, !.valid = FALSE, !.dirty = FALSE]]
        /\ Got(r, mru[i], FALSE)
  BY DEF bget_recycle
<1> DEFINE b == mru[i]
           x == [buf[b] EXCEPT !.blk = want[r], !.busy = TRUE, !.valid = FALSE, !.dirty = FALSE]
<1>2. b \in Bufs /\ want[r] \in Blocks /\ pc[r] = "bget"
  BY DEF Inv, TypeOK, HolderInv, bget_recycle, At
<1>a. buf[b] \in BufRec
  BY <1>2 DEF Inv, TypeOK
<1>b. /\ x \in BufRec /\ x.blk = want[r] /\ x.busy = TRUE /\ x.valid = FALSE
      /\ x.dirty = FALSE /\ x.data = buf[b].data
  BY <1>a, <1>2 DEF BufRec
<1>3. buf' = [buf EXCEPT ![b] = x]
  BY <1>1
<1>4. buf[b].busy = FALSE
  BY <1>1, <1>a DEF BufRec, Recyclable
<1>5. cur' = [cur EXCEPT ![r] = b] /\ pc' = [pc EXCEPT ![r] = "iderw"] /\ UNCHANGED <<mru, ide, want, last>>
  BY <1>1 DEF Got
<1>6. \A c \in Bufs : buf[c].blk # want[r]
  BY DEF bget_recycle, Cached
<1> HIDE DEF x, b
<1>7. /\ buf' \in [Bufs -> BufRec] /\ buf'[b] = x
      /\ \A c \in Bufs : c # b => buf'[c] = buf[c]
  BY <1>2, <1>b, <1>3, OneBuffer DEF Inv
<1>c. cur' \in [Refs -> 0..NBUF]
  BY SMT, <1>2, <1>5 DEF Inv, TypeOK, Bufs
<1>d. pc' \in [Refs -> Labels]
  BY <1>5 DEF Inv, TypeOK, Labels
<1>8. TypeOK'
  BY <1>5, <1>7, <1>c, <1>d, Typed DEF Inv, ide
<1>9. /\ cur'[r] = b /\ pc'[r] = "iderw" /\ UNCHANGED <<want, idequeue, active, irq>>
      /\ \A q \in Refs : q # r => pc'[q] = pc[q] /\ cur'[q] = cur[q]
  BY <1>5 DEF Inv, TypeOK, ide
<1>10. HolderInv'
  BY SMT, <1>2, <1>b, <1>4, <1>6, <1>7, <1>9 DEF Inv, HolderInv, Holds
<1>11. FlagsInv'
  BY SMT, <1>2, <1>b, <1>4, <1>7, <1>9, BioAssumption DEF Inv, FlagsInv, HolderInv, Holds
<1>12. QueueInv'
  BY <1>2, <1>9, SameQueue DEF Inv
<1>data. DataInv'
  <2> SUFFICES ASSUME IoErrors = FALSE
               PROVE  /\ \A c \in Bufs : buf'[c].valid = TRUE => buf'[c].data = last'[buf'[c].blk]
                      /\ \A c \in Bufs : buf'[c].valid = TRUE /\ buf'[c].dirty = FALSE
                                           => disk'[buf'[c].blk] = last'[buf'[c].blk]
                      /\ \A k \in Blocks : (\A c \in Bufs : buf'[c].blk = k => buf'[c].valid = FALSE)
                                           => disk'[k] = last'[k]
                      /\ irq' = TRUE => disk'[buf'[active'].blk] = last'[buf'[active'].blk]
    BY DEF DataInv
  <2>1. UNCHANGED <<disk, last, irq, active>>
    BY <1>5 DEF ide
  <2>2. /\ \A c \in Bufs : buf'[c].valid = TRUE => buf'[c].data = last'[buf'[c].blk]
        /\ \A c \in Bufs : buf'[c].valid = TRUE /\ buf'[c].dirty = FALSE
                             => disk'[buf'[c].blk] = last'[buf'[c].blk]
    BY ZenonT(40), <1>b, <1>7, <2>1 DEF Inv, DataInv
  <2>3. ASSUME NEW k \in Blocks, \A c \in Bufs : buf'[c].blk = k => buf'[c].valid = FALSE
        PROVE  disk'[k] = last'[k]
    <3>1. CASE k = buf[b].blk
      <4>1. buf[b].dirty = FALSE
        BY <1>1, <1>a DEF BufRec, Recyclable, b
      <4>2. QED
        BY <1>2, <2>1, <3>1, <4>1, CleanOnDisk
    <3>2. CASE k # buf[b].blk
      <4>1. \A c \in Bufs : buf[c].blk = k => buf[c].valid = FALSE
        BY <1>7, <2>3, <3>2
      <4>2. QED
        BY <2>1, <4>1 DEF Inv, DataInv
    <3>3. QED
      BY <3>1, <3>2
  <2>4. irq' = TRUE => disk'[buf'[active'].blk] = last'[buf'[active'].blk]
    <3>1. irq = TRUE => active \in Bufs /\ buf[active].busy = TRUE
      BY ActiveHeld DEF Inv, QueueInv, HolderInv, Holds
    <3>2. QED
      BY <1>4, <1>7, <2>1, <3>1 DEF Inv, DataInv
  <2>5. QED
    BY <2>2, <2>3, <2>4
<1>13. QED
  BY <1>8, <1>10, <1>11, <1>12, <1>data DEF Inv

LEMMA bget_panic_step ==
  ASSUME Inv, NEW r \in Refs, bget_panic(r)
  PROVE  Inv'
<1>1. TypeOK'
  BY DEF Inv, TypeOK, Labels, bget_panic, cache, ide
<1>2. /\ pc'[r] = "panic" /\ pc[r] = "bget" /\ UNCHANGED <<buf, cur, want, idequeue, active, irq>>
      /\ \A q \in Refs : q # r => pc'[q] = pc[q]
  BY DEF Inv, TypeOK, bget_panic, At, cache, ide
<1>3. HolderInv'
  BY SMT, <1>2 DEF Inv, HolderInv, Holds
<1>4. FlagsInv'
  BY <1>2 DEF Inv, FlagsInv
<1>5. QueueInv'
  BY <1>2, SameQueue DEF Inv
<1>data. DataInv'
  BY <1>2, SameData DEF bget_panic, ide
<1>6. QED
  BY <1>1, <1>3, <1>4, <1>5, <1>data DEF Inv

LEMMA bwrite_step ==
  ASSUME Inv, NEW r \in Refs, NEW d \in Data, bwrite(r, d)
  PROVE  Inv'
<1> DEFINE b == cur[r]
           x == [buf[b] EXCEPT !.data = d, !.dirty = TRUE]
<1>1. pc[r] = "hold" /\ b \in Bufs /\ buf[b].valid = TRUE /\ buf[b].blk \in Blocks
  BY DEF Inv, HolderInv, FlagsInv, Holds, bwrite, At
<1>2. buf[b] \in BufRec
  BY <1>1 DEF Inv, TypeOK
<1>3. /\ x \in BufRec /\ x.blk = buf[b].blk /\ x.busy = buf[b].busy /\ x.valid = buf[b].valid
      /\ x.dirty = TRUE /\ x.data = d
  BY <1>2 DEF BufRec
<1>4. /\ buf' = [buf EXCEPT ![b] = x] /\ last' = [last EXCEPT ![buf[b].blk] = d]
      /\ pc' = [pc EXCEPT ![r] = "iderw"] /\ UNCHANGED <<mru, ide, want, cur>>
  BY DEF bwrite
<1> HIDE DEF x
<1>5. /\ buf' \in [Bufs -> BufRec] /\ buf'[b] = x
      /\ \A c \in Bufs : c # b => buf'[c] = buf[c]
  BY <1>1, <1>3, <1>4, OneBuffer DEF Inv
<1>6. pc'[r] = "iderw" /\ (\A q \in Refs : q # r => pc'[q] = pc[q]) /\ pc' \in [Refs -> Labels]
  BY <1>4 DEF Inv, TypeOK, Labels
<1>7. last' \in [Blocks -> Data]
  BY <1>1, <1>4 DEF Inv, TypeOK
<1>8. TypeOK'
  BY <1>4, <1>5, <1>6, <1>7 DEF Inv, TypeOK, ide, Bufs
<1>9. HolderInv'
  BY <1>1, <1>3, <1>4, <1>5, <1>6, SameHolders DEF Inv, Holds
<1>10. FlagsInv'
  BY SMT, <1>1, <1>3, <1>4, <1>5, <1>6 DEF Inv, FlagsInv, HolderInv, Holds
<1>11. QueueInv'
  BY <1>1, <1>4, <1>6, SameQueue DEF Inv, ide
<1>data. DataInv'
  <2>1. IoErrors = FALSE /\ irq = TRUE => active \in Bufs /\ buf[active].blk # buf[b].blk
    BY SMT, <1>1, ActiveHeld, BioAssumption DEF Inv, QueueInv, HolderInv, Holds
  <2>2. \A k \in Blocks : last'[k] = IF k = buf[b].blk THEN d ELSE last[k]
    BY <1>1, <1>4 DEF Inv, TypeOK
  <2>3. \A c \in Bufs : c # b => buf[c].blk # buf[b].blk
    BY <1>1, BioAssumption DEF Inv, HolderInv
  <2>4. \A c \in Bufs : buf[c].valid = TRUE => buf[c].blk \in Blocks
    BY DEF Inv, FlagsInv, TypeOK, BufRec
  <2>5. irq = TRUE => buf[active].blk \in Blocks
    BY ActiveHeld DEF Inv, QueueInv
  <2>6. UNCHANGED <<disk, irq, active>>
    BY <1>4 DEF ide
  <2>7. QED
    BY SMTT(40), <1>1, <1>3, <1>5, <2>1, <2>2, <2>3, <2>4, <2>5, <2>6 DEF Inv, DataInv
<1>12. QED
  BY <1>8, <1>9, <1>10, <1>11, <1>data DEF Inv

LEMMA log_write_step ==
  ASSUME Inv, NEW r \in Refs, NEW d \in Data, log_write(r, d)
  PROVE  Inv'
<1> DEFINE b == cur[r]
           x == [buf[b] EXCEPT !.data = d, !.dirty = TRUE]
<1>1. pc[r] = "hold" /\ b \in Bufs /\ buf[b].valid = TRUE /\ buf[b].blk \in Blocks
  BY DEF Inv, HolderInv, FlagsInv, Holds, log_write, At
<1>2. buf[b] \in BufRec
  BY <1>1 DEF Inv, TypeOK
<1>3. /\ x \in BufRec /\ x.blk = buf[b].blk /\ x.busy = buf[b].busy /\ x.valid = buf[b].valid
      /\ x.dirty = TRUE /\ x.data = d
  BY <1>2 DEF BufRec
<1>4. /\ buf' = [buf EXCEPT ![b] = x] /\ last' = [last EXCEPT ![buf[b].blk] = d]
      /\ UNCHANGED <<mru, ide, pc, want, cur>>
  BY DEF log_write
<1> HIDE DEF x
<1>5. /\ buf' \in [Bufs -> BufRec] /\ buf'[b] = x
      /\ \A c \in Bufs : c # b => buf'[c] = buf[c]
  BY <1>1, <1>3, <1>4, OneBuffer DEF Inv
<1>6. last' \in [Blocks -> Data]
  BY <1>1, <1>4 DEF Inv, TypeOK
<1>7. TypeOK'
  BY <1>4, <1>5, <1>6 DEF Inv, TypeOK, ide, Bufs
<1>8. HolderInv'
  BY <1>3, <1>4, <1>5, SameHolders DEF Inv, Holds
<1>9. FlagsInv'
  BY SMT, <1>1, <1>3, <1>4, <1>5 DEF Inv, FlagsInv, HolderInv, Holds
<1>10. QueueInv'
  BY <1>4, SameQueue DEF Inv, ide
<1>data. DataInv'
  <2>1. IoErrors = FALSE /\ irq = TRUE => active \in Bufs /\ buf[active].blk # buf[b].blk
    BY SMT, <1>1, ActiveHeld, BioAssumption DEF Inv, QueueInv, HolderInv, Holds
  <2>2. \A k \in Blocks : last'[k] = IF k = buf[b].blk THEN d ELSE last[k]
    BY <1>1, <1>4 DEF Inv, TypeOK
  <2>3. \A c \in Bufs : c # b => buf[c].blk # buf[b].blk
    BY <1>1, BioAssumption DEF Inv, HolderInv
  <2>4. \A c \in Bufs : buf[c].valid = TRUE => buf[c].blk \in Blocks
    BY DEF Inv, FlagsInv, TypeOK, BufRec
  <2>5. irq = TRUE => buf[active].blk \in Blocks
    BY ActiveHeld DEF Inv, QueueInv
  <2>6. UNCHANGED <<disk, irq, active>>
    BY <1>4 DEF ide
  <2>7. QED
    BY SMT, <1>1, <1>3, <1>5, <2>1, <2>2, <2>3, <2>4, <2>5, <2>6 DEF Inv, DataInv
<1>11. QED
  BY <1>7, <1>8, <1>9, <1>10, <1>data DEF Inv

\* brelse() moves the buffer in the list and loses none.
LEMMA ToFrontList ==
  ASSUME TypeOK, NEW b \in Bufs
  PROVE  ToFront(b) \in [Bufs -> Bufs] /\ \A c \in Bufs : \E j \in Bufs : ToFront(b)[j] = c
<1> DEFINE i == CHOOSE i \in Bufs : mru[i] = b
<1>1. i \in Bufs /\ mru[i] = b
  BY DEF TypeOK
<1> HIDE DEF i
<1>2. ToFront(b) = [j \in Bufs |-> CASE j = 1 -> b [] j \in 2..i -> mru[j-1] [] OTHER -> mru[j]]
  BY DEF ToFront, i
<1>3. ASSUME NEW j \in Bufs
      PROVE  /\ j = 1 => ToFront(b)[j] = b
             /\ j \in 2..i => ToFront(b)[j] = mru[j-1] /\ j - 1 \in Bufs
             /\ j # 1 /\ j \notin 2..i => ToFront(b)[j] = mru[j]
  BY SMT, <1>2, BioAssumption DEF Bufs
<1>4. ASSUME NEW j \in Bufs PROVE ToFront(b)[j] \in Bufs
  BY SMT, <1>3 DEF TypeOK
<1>5. ASSUME NEW c \in Bufs PROVE \E j \in Bufs : ToFront(b)[j] = c
  <2>1. PICK k \in Bufs : mru[k] = c
    BY DEF TypeOK
  <2>2. CASE k = i
    <3>1. 1 \in Bufs
      BY SMT, BioAssumption DEF Bufs
    <3>2. QED
      BY <1>1, <1>3, <2>1, <2>2, <3>1
  <2>3. CASE k < i
    <3>1. k + 1 \in Bufs /\ k + 1 \in 2..i /\ (k + 1) - 1 = k
      BY SMT, <1>1, <2>3, BioAssumption DEF Bufs
    <3>2. QED
      BY SMT, <1>3, <2>1, <3>1
  <2>4. CASE k > i
    <3>1. k # 1 /\ k \notin 2..i
      BY SMT, <1>1, <2>4, BioAssumption DEF Bufs
    <3>2. QED
      BY <1>3, <2>1, <3>1
  <2>5. QED
    BY SMT, <1>1, <2>2, <2>3, <2>4, BioAssumption DEF Bufs
<1>6. QED
  BY <1>2, <1>4, <1>5

LEMMA WakeOf ==
  ASSUME TypeOK, NEW b
  PROVE  /\ Wake(b) \in [Refs -> Labels]
         /\ \A q \in Refs : /\ cur[q] # b => Wake(b)[q] = pc[q]
                            /\ pc[q] \notin {"b_asleep", "io_asleep"} => Wake(b)[q] = pc[q]
                            /\ cur[q] = b /\ pc[q] = "b_asleep" => Wake(b)[q] = "bget"
                            /\ cur[q] = b /\ pc[q] = "io_asleep" => Wake(b)[q] = "iowait"
BY DEF TypeOK, Wake, Labels

LEMMA brelse_step ==
  ASSUME Inv, NEW r \in Refs, brelse(r)
  PROVE  Inv'
<1> DEFINE b == cur[r]
           x == [buf[b] EXCEPT !.busy = FALSE]
<1>1. pc[r] = "hold" /\ b \in Bufs
  BY DEF Inv, HolderInv, Holds, brelse, At
<1>2. buf[b] \in BufRec
  BY <1>1 DEF Inv, TypeOK
<1>3. /\ x \in BufRec /\ x.blk = buf[b].blk /\ x.busy = FALSE /\ x.valid = buf[b].valid
      /\ x.dirty = buf[b].dirty /\ x.data = buf[b].data
  BY <1>2 DEF BufRec
<1>4. /\ buf' = [buf EXCEPT ![b] = x] /\ mru' = ToFront(b) /\ pc' = [Wake(b) EXCEPT ![r] = "user"]
      /\ cur' = [cur EXCEPT ![r] = 0] /\ want' = [want EXCEPT ![r] = NoBlock]
      /\ UNCHANGED <<ide, last>>
  BY DEF brelse
<1> HIDE DEF x
<1>5. /\ buf' \in [Bufs -> BufRec] /\ buf'[b] = x
      /\ \A c \in Bufs : c # b => buf'[c] = buf[c]
  BY <1>1, <1>3, <1>4, OneBuffer DEF Inv
<1>6. pc' \in [Refs -> Labels] /\ pc'[r] = "user" /\ \A q \in Refs : q # r => pc'[q] = Wake(b)[q]
  BY <1>4, WakeOf DEF Inv, Labels
<1>7. /\ cur' \in [Refs -> 0..NBUF] /\ cur'[r] = 0
      /\ want' \in [Refs -> Blocks \cup {NoBlock}]
      /\ \A q \in Refs : q # r => cur'[q] = cur[q] /\ want'[q] = want[q]
  BY SMT, <1>4, BioAssumption DEF Inv, TypeOK
<1>8. mru' \in [Bufs -> Bufs] /\ \A c \in Bufs : \E i \in Bufs : mru'[i] = c
  BY <1>1, <1>4, ToFrontList DEF Inv
<1>9. TypeOK'
  BY ZenonT(40), <1>4, <1>5, <1>6, <1>7, <1>8 DEF Inv, TypeOK, ide, Bufs
<1>10. \A q \in Refs : q # r => /\ cur[q] = b => pc[q] \notin {"hold", "iderw", "io_asleep", "iowait"}
                                /\ pc'[q] = IF cur[q] = b /\ pc[q] = "b_asleep" THEN "bget" ELSE pc[q]
  BY SMT, <1>1, <1>6, WakeOf DEF Inv, HolderInv, Holds
<1>11. HolderInv'
  BY SMTT(60), <1>1, <1>3, <1>5, <1>6, <1>7, <1>10 DEF Inv, HolderInv, Holds
<1>12. FlagsInv'
  BY SMTT(60), <1>1, <1>3, <1>5, <1>6, <1>7, <1>10 DEF Inv, FlagsInv, HolderInv, Holds
<1>13. QueueInv'
  BY <1>1, <1>4, <1>6, <1>7, <1>10, SameQueue DEF Inv, ide
<1>data. DataInv'
  BY <1>3, <1>4, <1>5, SameData DEF ide
<1>14. QED
  BY <1>9, <1>11, <1>12, <1>13, <1>data DEF Inv

LEMMA iderw_mem_step ==
  ASSUME Inv, NEW r \in Refs, iderw_mem(r)
  PROVE  Inv'
<1> DEFINE b == cur[r]
           k == buf[b].blk
           x == [buf[b] EXCEPT !.data = disk'[k], !.valid = TRUE, !.dirty = FALSE]
<1>1. pc[r] = "iderw" /\ b \in Bufs /\ k \in Blocks
  BY DEF Inv, HolderInv, Holds, iderw_mem, At
<1>2. buf[b] \in BufRec
  BY <1>1 DEF Inv, TypeOK
<1>3. /\ buf' = [buf EXCEPT ![b] = x] /\ pc' = [pc EXCEPT ![r] = "hold"]
      /\ disk' = IF buf[b].dirty THEN [disk EXCEPT ![k] = buf[b].data] ELSE disk
      /\ UNCHANGED <<mru, idequeue, active, irq, driver, want, cur, last>>
  BY DEF iderw_mem
<1>4. disk' \in [Blocks -> Data]
  <2>1. buf[b].data \in Data
    BY <1>2 DEF BufRec
  <2>2. QED
    BY <1>1, <1>3, <2>1 DEF Inv, TypeOK
<1>5. /\ x \in BufRec /\ x.blk = buf[b].blk /\ x.busy = buf[b].busy /\ x.valid = TRUE
      /\ x.dirty = FALSE /\ x.data = disk'[k]
  <2>1. disk'[k] \in Data
    BY <1>1, <1>4
  <2>2. QED
    BY <1>2, <2>1 DEF BufRec
<1> HIDE DEF x
<1>6. /\ buf' \in [Bufs -> BufRec] /\ buf'[b] = x
      /\ \A c \in Bufs : c # b => buf'[c] = buf[c]
  BY <1>1, <1>5, <1>3, OneBuffer DEF Inv
<1>7. pc' \in [Refs -> Labels] /\ pc'[r] = "hold" /\ \A q \in Refs : q # r => pc'[q] = pc[q]
  BY <1>3 DEF Inv, TypeOK, Labels
<1>8. TypeOK'
  BY <1>3, <1>4, <1>6, <1>7 DEF Inv, TypeOK, Bufs
<1>9. HolderInv'
  BY <1>1, <1>3, <1>5, <1>6, <1>7, SameHolders DEF Inv, Holds
<1>10. FlagsInv'
  <2>1. /\ \A c \in Bufs : buf'[c].dirty = TRUE => buf'[c].valid = TRUE
        /\ \A c \in Bufs : buf'[c].valid = TRUE => buf'[c].blk # NoBlock
    BY SMT, <1>1, <1>5, <1>6, BioAssumption DEF Inv, FlagsInv
  <2>2. ASSUME NEW q \in Refs, pc'[q] = "hold" PROVE buf'[cur'[q]].valid = TRUE
    <3>1. cur'[q] = cur[q] /\ cur[q] \in Bufs /\ (pc[q] = "hold" \/ cur[q] = b)
      BY <1>1, <1>3, <1>7, <2>2 DEF Inv, HolderInv, Holds
    <3>2. QED
      BY <1>5, <1>6, <3>1 DEF Inv, FlagsInv
  <2>3. ASSUME NEW q \in Refs, pc'[q] = "iowait" PROVE buf'[cur'[q]].valid = TRUE /\ buf'[cur'[q]].dirty = FALSE
    <3>1. cur'[q] = cur[q] /\ cur[q] \in Bufs /\ pc[q] = "iowait"
      BY <1>3, <1>7, <2>3 DEF Inv, HolderInv, Holds
    <3>2. QED
      BY SMT, <1>5, <1>6, <3>1 DEF Inv, FlagsInv
  <2>4. QED
    BY ZenonT(40), <2>1, <2>2, <2>3 DEF FlagsInv
<1>11. QueueInv'
  BY <1>1, <1>3, <1>7, SameQueue DEF Inv
<1>data. DataInv'
  <2> SUFFICES ASSUME IoErrors = FALSE
               PROVE  DataInv'
    BY DEF DataInv
  <2>1. \A j \in Blocks : j # k => disk'[j] = disk[j]
    BY <1>1, <1>3 DEF Inv, TypeOK
  <2>2. disk'[k] = last[k]
    <3>1. CASE buf[b].dirty = TRUE
      BY <1>1, <1>3, <3>1 DEF Inv, TypeOK, FlagsInv, DataInv
    <3>2. CASE buf[b].dirty = FALSE
      BY <1>1, <1>3, <3>2, CleanOnDisk
    <3>3. QED
      BY <1>2, <3>1, <3>2 DEF BufRec
  <2>3. \A c \in Bufs : c # b => buf[c].blk # k
    BY <1>1, BioAssumption DEF Inv, HolderInv
  <2>4. \A c \in Bufs : buf[c].valid = TRUE => buf[c].blk \in Blocks
    BY DEF Inv, FlagsInv, TypeOK, BufRec
  <2>5. irq = TRUE => active \in Bufs /\ active # b /\ buf[active].blk \in Blocks
    BY SMT, <1>1, ActiveHeld DEF Inv, QueueInv, HolderInv, Holds
  <2>6. QED
    <3>1. UNCHANGED <<last, irq, active>>
      BY <1>3
    <3>2. /\ \A c \in Bufs : buf'[c].valid = TRUE => buf'[c].data = last'[buf'[c].blk]
          /\ \A c \in Bufs : buf'[c].valid = TRUE /\ buf'[c].dirty = FALSE
                               => disk'[buf'[c].blk] = last'[buf'[c].blk]
      BY SMTT(40), <1>1, <1>5, <1>6, <2>1, <2>2, <2>3, <2>4, <3>1 DEF Inv, DataInv
    <3>3. \A j \in Blocks : (\A c \in Bufs : buf'[c].blk = j => buf'[c].valid = FALSE) => disk'[j] = last'[j]
      BY SMT, <1>1, <1>5, <1>6, <2>1, <2>2, <2>3, <3>1 DEF Inv, DataInv
    <3>4. irq' = TRUE => disk'[buf'[active'].blk] = last'[buf'[active'].blk]
      BY ZenonT(40), <1>6, <2>1, <2>3, <2>5, <3>1 DEF Inv, DataInv
    <3>5. QED
      BY <3>2, <3>3, <3>4 DEF DataInv
<1>12. QED
  BY <1>8, <1>9, <1>10, <1>11, <1>data DEF Inv

LEMMA iderw_step ==
  ASSUME Inv, NEW r \in Refs, iderw(r)
  PROVE  Inv'
<1> DEFINE b == cur[r]
           n == Len(idequeue)
<1>1. pc[r] = "iderw" /\ b \in Bufs /\ idequeue \in Seq(Bufs) /\ n \in Nat
  BY SMT DEF Inv, TypeOK, HolderInv, Holds, iderw, At
<1>2. /\ idequeue' = Append(idequeue, b) /\ active' = (IF idequeue = <<>> THEN b ELSE active)
      /\ pc' = [pc EXCEPT ![r] = "io_asleep"] /\ UNCHANGED <<buf, mru, irq, driver, disk, want, cur, last>>
  BY DEF iderw, cache
<1>3. /\ idequeue' \in Seq(Bufs) /\ Len(idequeue') = n + 1 /\ idequeue'[n + 1] = b
      /\ \A i \in 1..n : idequeue'[i] = idequeue[i]
  BY SMT, <1>1, <1>2
<1>4. pc' \in [Refs -> Labels] /\ pc'[r] = "io_asleep" /\ \A q \in Refs : q # r => pc'[q] = pc[q]
  BY <1>2 DEF Inv, TypeOK, Labels
<1>5. active' \in 0..NBUF
  BY <1>1, <1>2 DEF Inv, TypeOK, Bufs
<1>6. TypeOK'
  BY <1>2, <1>3, <1>4, <1>5 DEF Inv, TypeOK, Bufs
<1>7. HolderInv'
  BY <1>1, <1>2, <1>4, SameHolders DEF Inv, Holds
<1>8. FlagsInv'
  BY <1>2, <1>4 DEF Inv, FlagsInv
<1>9. QueueInv'
  <2>1. active' = IF idequeue' = <<>> THEN 0 ELSE idequeue'[1]
    <3>1. idequeue' # <<>>
      BY SMT, <1>1, <1>2, <1>3
    <3>2. CASE idequeue = <<>>
      BY SMT, <1>1, <1>2, <1>3, <3>1, <3>2
    <3>3. CASE idequeue # <<>>
      <4>1. 1 \in 1..n
        BY SMT, <1>1, <3>3
      <4>2. QED
        BY <1>2, <1>3, <3>1, <3>3, <4>1 DEF Inv, QueueInv
    <3>4. QED
      BY <3>2, <3>3
  <2>2. idequeue' # <<>>
    BY SMT, <1>1, <1>2, <1>3
  <2>3. \A i \in 1..n : idequeue[i] # b     \* its holder is r, who does not sleep
    BY SMT, <1>1 DEF Inv, QueueInv, HolderInv, Holds
  <2>4. \A i, j \in 1..Len(idequeue') : idequeue'[i] = idequeue'[j] => i = j
    <3>1. \A i \in 1..Len(idequeue') : i \in 1..n \/ i = n + 1
      BY SMT, <1>1, <1>3
    <3>2. QED
      BY SMT, <1>3, <2>3, <3>1 DEF Inv, QueueInv
  <2>5. \A i \in 1..Len(idequeue') : \E q \in Refs : cur'[q] = idequeue'[i] /\ pc'[q] = "io_asleep"
    <3>1. \A i \in 1..Len(idequeue') : i \in 1..n \/ i = n + 1
      BY SMT, <1>1, <1>3
    <3>2. \A i \in 1..n : \E q \in Refs : cur'[q] = idequeue'[i] /\ pc'[q] = "io_asleep"
      BY SMT, <1>2, <1>3, <1>4 DEF Inv, QueueInv
    <3>3. QED
      BY <1>2, <1>3, <1>4, <3>1, <3>2
  <2>6. ASSUME NEW q \in Refs, pc'[q] = "io_asleep"
        PROVE  \E i \in 1..Len(idequeue') : idequeue'[i] = cur'[q]
    <3>1. n + 1 \in 1..Len(idequeue') /\ \A i \in 1..n : i \in 1..Len(idequeue')
      BY SMT, <1>1, <1>3
    <3>2. CASE q = r
      BY <1>2, <1>3, <3>1, <3>2
    <3>3. CASE q # r
      BY SMT, <1>2, <1>3, <1>4, <2>6, <3>1, <3>3 DEF Inv, QueueInv
    <3>4. QED
      BY <3>2, <3>3
  <2>7. QED
    BY <2>1, <2>2, <2>4, <2>5, <2>6 DEF QueueInv
<1>data. DataInv'
  BY <1>2, SameData
<1>10. QED
  BY <1>6, <1>7, <1>8, <1>9, <1>data DEF Inv

LEMMA iderw_wait_step ==
  ASSUME Inv, NEW r \in Refs, iderw_wait(r)
  PROVE  Inv'
<1>1. pc[r] = "iowait" /\ buf[cur[r]].valid = TRUE /\ buf[cur[r]].dirty = FALSE
  BY DEF Inv, FlagsInv, iderw_wait, At
<1>2. pc' = [pc EXCEPT ![r] = "hold"] /\ UNCHANGED <<buf, mru, ide, want, cur, last>>
  BY ZenonT(40), <1>1 DEF iderw_wait, cache
<1>3. pc' \in [Refs -> Labels] /\ pc'[r] = "hold" /\ \A q \in Refs : q # r => pc'[q] = pc[q]
  BY <1>2 DEF Inv, TypeOK, Labels
<1>4. TypeOK'
  BY <1>2, <1>3, Typed DEF Inv, TypeOK, ide
<1>5. HolderInv'
  BY <1>1, <1>2, <1>3, SameHolders DEF Inv, Holds
<1>6. FlagsInv'
  BY <1>1, <1>2, <1>3 DEF Inv, FlagsInv
<1>7. QueueInv'
  BY <1>1, <1>2, <1>3, SameQueue DEF Inv, ide
<1>data. DataInv'
  BY <1>2, SameData DEF ide
<1>8. QED
  BY <1>4, <1>5, <1>6, <1>7, <1>data DEF Inv

LEMMA disk_done_step ==
  ASSUME Inv, disk_done
  PROVE  Inv'
<1>1. idequeue # <<>>
  BY DEF Inv, QueueInv, disk_done
<1>2. active \in Bufs /\ buf[active].blk \in Blocks
  BY <1>1, ActiveHeld
<1>3. buf[active].data \in Data
  BY <1>2 DEF Inv, TypeOK, BufRec
<1>4. disk' \in [Blocks -> Data]
  BY <1>2, <1>3 DEF Inv, TypeOK, disk_done
<1>5. irq' = TRUE /\ UNCHANGED <<buf, mru, idequeue, active, driver, pc, want, cur, last>>
  BY DEF disk_done, cache
<1>6. TypeOK'
  BY <1>4, <1>5 DEF Inv, TypeOK
<1>7. HolderInv' /\ FlagsInv'
  BY <1>5 DEF Inv, HolderInv, FlagsInv, Holds
<1>8. QueueInv'
  BY <1>1, <1>5 DEF Inv, QueueInv
<1>data. DataInv'
  <2> SUFFICES ASSUME IoErrors = FALSE
               PROVE  DataInv'
    BY DEF DataInv
  <2> DEFINE k == buf[active].blk
  <2>1. /\ \A j \in Blocks : j # k => disk'[j] = disk[j]
        /\ buf[active].dirty = TRUE => disk'[k] = buf[active].data
        /\ buf[active].dirty = FALSE => disk'[k] = disk[k]
    BY <1>2 DEF Inv, TypeOK, disk_done
  <2>2. disk'[k] = last[k]
    <3>1. CASE buf[active].dirty = TRUE
      BY <1>2, <2>1, <3>1 DEF Inv, FlagsInv, DataInv
    <3>2. CASE buf[active].dirty = FALSE
      BY <1>2, <2>1, <3>2, CleanOnDisk
    <3>3. QED
      BY ZenonT(40), <1>2, <3>1, <3>2 DEF Inv, TypeOK, BufRec
  <2>3. \A c \in Bufs : buf[c].valid = TRUE => buf[c].blk \in Blocks
    BY DEF Inv, FlagsInv, TypeOK, BufRec
  <2>4. QED
    BY <1>2, <1>5, <2>1, <2>2, <2>3 DEF Inv, DataInv
<1>9. QED
  BY <1>6, <1>7, <1>8, <1>data DEF Inv

LEMMA ideintr_step ==
  ASSUME Inv, ideintr
  PROVE  Inv'
<1> DEFINE b == active
           n == Len(idequeue)
<1>1. idequeue # <<>>
  BY DEF Inv, QueueInv, TypeOK, ideintr
<1>2. /\ b \in Bufs /\ buf[b].blk \in Blocks /\ b = idequeue[1] /\ 1 \in 1..n
      /\ Head(idequeue) = b /\ idequeue \in Seq(Bufs) /\ n \in Nat
  BY SMT, <1>1, ActiveHeld DEF Inv, TypeOK
<1>3. PICK error \in {FALSE, IoErrors} : buf' = [buf EXCEPT ![b] = Served(b, error)]
  BY <1>2 DEF ideintr
<1> DEFINE x == Served(b, error)
<1>4. /\ irq' = FALSE /\ idequeue' = Tail(idequeue) /\ active' = NextActive(Tail(idequeue))
      /\ pc' = Wake(b) /\ UNCHANGED <<mru, driver, disk, want, cur, last>>
  BY <1>2 DEF ideintr
<1>5. buf[b] \in BufRec /\ disk[buf[b].blk] \in Data
  BY <1>2 DEF Inv, TypeOK
<1>6. /\ x \in BufRec /\ x.blk = buf[b].blk /\ x.busy = buf[b].busy /\ x.valid = TRUE /\ x.dirty = FALSE
      /\ x.data = IF buf[b].dirty \/ error THEN buf[b].data ELSE disk[buf[b].blk]
  BY <1>5 DEF BufRec, Served
<1>7. buf' = [buf EXCEPT ![b] = x]
  BY <1>3
<1> HIDE DEF x
<1>8. /\ buf' \in [Bufs -> BufRec] /\ buf'[b] = x
      /\ \A c \in Bufs : c # b => buf'[c] = buf[c]
  BY <1>2, <1>6, <1>7, OneBuffer DEF Inv
<1>9. /\ idequeue' \in Seq(Bufs) /\ Len(idequeue') = n - 1
      /\ \A i \in 1..Len(idequeue') : i + 1 \in 1..n /\ idequeue'[i] = idequeue[i + 1]
  BY SMT, <1>1, <1>2, <1>4
<1>10. active' = IF idequeue' = <<>> THEN 0 ELSE idequeue'[1]
  BY SMT, <1>4, <1>9 DEF NextActive
<1>11. active' \in 0..NBUF
  <2>1. CASE idequeue' = <<>>
    BY SMT, <1>10, <2>1, BioAssumption
  <2>2. CASE idequeue' # <<>>
    <3>1. idequeue'[1] \in Bufs
      BY SMT, <1>9, <2>2
    <3>2. QED
      BY SMT, <1>10, <2>2, <3>1 DEF Bufs
  <2>3. QED
    BY <2>1, <2>2
<1>12. TypeOK'
  BY ZenonT(40), <1>4, <1>8, <1>9, <1>11, WakeOf DEF Inv, TypeOK, Bufs
<1>13. HolderInv'
  BY SMT, <1>4, <1>6, <1>8, WakeOf, SameHolders DEF Inv, Holds
<1>14. FlagsInv'
  <2>1. /\ \A c \in Bufs : buf'[c].dirty = TRUE => buf'[c].valid = TRUE
        /\ \A c \in Bufs : buf'[c].valid = TRUE => buf'[c].blk # NoBlock
    BY SMT, <1>2, <1>6, <1>8, BioAssumption DEF Inv, FlagsInv
  <2>2. ASSUME NEW q \in Refs, pc'[q] = "hold" PROVE buf'[cur'[q]].valid = TRUE
    <3>1. pc[q] = "hold" /\ cur'[q] = cur[q] /\ cur[q] \in Bufs
      BY SMTT(60), <1>4, <2>2, WakeOf DEF Inv, HolderInv, Holds
    <3>2. QED
      BY <1>6, <1>8, <3>1 DEF Inv, FlagsInv
  <2>3. ASSUME NEW q \in Refs, pc'[q] = "iowait" PROVE buf'[cur'[q]].valid = TRUE /\ buf'[cur'[q]].dirty = FALSE
    <3>1. cur'[q] = cur[q] /\ cur[q] \in Bufs /\ (pc[q] = "iowait" \/ cur[q] = b)
      BY SMTT(60), <1>2, <1>4, <2>3, WakeOf DEF Inv, HolderInv, Holds
    <3>2. QED
      BY SMTT(40), <1>6, <1>8, <3>1 DEF Inv, FlagsInv
  <2>4. QED
    BY ZenonT(40), <2>1, <2>2, <2>3 DEF FlagsInv
<1>15. QueueInv'
  <2>1. \A i, j \in 1..Len(idequeue') : idequeue'[i] = idequeue'[j] => i = j
    <3> SUFFICES ASSUME NEW i \in 1..Len(idequeue'), NEW j \in 1..Len(idequeue'), idequeue'[i] = idequeue'[j]
                 PROVE  i = j
      OBVIOUS
    <3>1. i + 1 \in 1..n /\ j + 1 \in 1..n /\ idequeue[i + 1] = idequeue[j + 1]
      BY <1>9
    <3>2. i + 1 = j + 1
      BY <3>1 DEF Inv, QueueInv
    <3>3. QED
      BY SMT, <3>2
  <2>2. ASSUME NEW i \in 1..Len(idequeue')
        PROVE  \E q \in Refs : cur'[q] = idequeue'[i] /\ pc'[q] = "io_asleep"
    <3>1. idequeue[i + 1] # b
      <4>1. i + 1 # 1
        BY SMT, <2>2
      <4>2. QED
        BY SMT, <1>2, <1>9, <4>1 DEF Inv, QueueInv
    <3>2. PICK q \in Refs : cur[q] = idequeue[i + 1] /\ pc[q] = "io_asleep"
      BY <1>9 DEF Inv, QueueInv
    <3>3. QED
      BY <1>4, <1>9, <3>1, <3>2, WakeOf DEF Inv
  <2>3. ASSUME NEW q \in Refs, pc'[q] = "io_asleep"
        PROVE  \E i \in 1..Len(idequeue') : idequeue'[i] = cur'[q]
    <3>1. pc[q] = "io_asleep" /\ cur[q] # b /\ cur'[q] = cur[q]
      BY <1>4, <2>3, WakeOf DEF Inv
    <3>2. PICK i \in 1..n : idequeue[i] = cur[q]
      BY <3>1 DEF Inv, QueueInv
    <3>3. i - 1 \in 1..Len(idequeue') /\ (i - 1) + 1 = i
      BY SMTT(40), <1>2, <1>9, <3>1, <3>2
    <3>4. QED
      BY ZenonT(40), <1>9, <3>1, <3>2, <3>3
  <2>4. QED
    BY <1>4, <1>10, <2>1, <2>2, <2>3 DEF QueueInv
<1>data. DataInv'
  <2> SUFFICES ASSUME IoErrors = FALSE
               PROVE  DataInv'
    BY DEF DataInv
  <2>1. disk[buf[b].blk] = last[buf[b].blk]
    BY DEF Inv, DataInv, TypeOK, ideintr
  <2>2. x.data = last[buf[b].blk]
    <3>1. buf[b].dirty = TRUE => buf[b].data = last[buf[b].blk]
      BY <1>2 DEF Inv, FlagsInv, DataInv
    <3>2. x.data = IF buf[b].dirty THEN buf[b].data ELSE disk[buf[b].blk]
      BY <1>3, <1>6
    <3>3. QED
      BY <1>5, <2>1, <3>1, <3>2 DEF BufRec
  <2>3. QED
    BY SMTT(60), <1>2, <1>4, <1>6, <1>8, <2>1, <2>2 DEF Inv, DataInv
<1>16. QED
  BY <1>12, <1>13, <1>14, <1>15, <1>data DEF Inv

LEMMA InitInv == Init => Inv
<1> SUFFICES ASSUME Init PROVE Inv
  OBVIOUS
<1>1. \A b \in Bufs : buf[b] \in BufRec
  BY BioAssumption DEF Init, BufRec
<1>2. buf \in [Bufs -> BufRec]
  BY <1>1 DEF Init
<1>3. mru \in [Bufs -> Bufs]
  BY SMT, BioAssumption DEF Init, Bufs
<1>4. ASSUME NEW b \in Bufs PROVE \E i \in Bufs : mru[i] = b
  <2>1. NBUF + 1 - b \in Bufs /\ NBUF + 1 - (NBUF + 1 - b) = b
    BY SMT, BioAssumption DEF Bufs
  <2>2. mru[NBUF + 1 - b] = b
    BY <2>1 DEF Init
  <2>3. QED
    BY <2>1, <2>2
<1>a. pc \in [Refs -> Labels] /\ cur \in [Refs -> 0..NBUF] /\ want \in [Refs -> Blocks \cup {NoBlock}]
  BY SMT, BioAssumption DEF Init, Labels
<1>b. active \in 0..NBUF
  BY SMT, BioAssumption DEF Init
<1>d. irq \in BOOLEAN
  BY ZenonT(40) DEF Init
<1>e. driver \in {"ide", "mem"}
  BY BioAssumption DEF Init
<1>c. idequeue \in Seq(Bufs)
  BY SMT DEF Init
<1>5. TypeOK
  BY <1>2, <1>3, <1>4, <1>a, <1>b, <1>c, <1>d, <1>e DEF Init, TypeOK
<1>6. HolderInv /\ FlagsInv /\ DataInv
  BY DEF Init, HolderInv, FlagsInv, DataInv, Holds
<1>7. QueueInv
  BY SMT DEF Init, QueueInv
<1>9. QED
  BY <1>5, <1>6, <1>7 DEF Inv

LEMMA NextInv == Inv /\ [Next]_vars => Inv'
<1> SUFFICES ASSUME Inv, [Next]_vars PROVE Inv'
  OBVIOUS
<1>1. CASE UNCHANGED vars
  <2>1. UNCHANGED <<buf, mru, idequeue, active, irq, driver, disk, pc, want, cur, last>>
    BY <1>1 DEF vars, cache, ide
  <2>2. TypeOK'
    BY <2>1 DEF Inv, TypeOK
  <2>3. HolderInv' /\ FlagsInv'
    BY <2>1 DEF Inv, HolderInv, FlagsInv, Holds
  <2>4. QueueInv' /\ DataInv'
    BY SMT, <2>1 DEF Inv, QueueInv, DataInv
  <2>5. QED
    BY <2>2, <2>3, <2>4 DEF Inv
<1>2. ASSUME NEW r \in Refs, Kernel(r) PROVE Inv'
  BY <1>2, bget_hit_step, bget_sleep_step, bget_recycle_step, bget_panic_step, iderw_step,
     iderw_wait_step, iderw_mem_step DEF Kernel
<1>3. ASSUME NEW r \in Refs, NEW k \in Blocks, bread(r, k) PROVE Inv'
  BY <1>3, bread_step
<1>4. ASSUME NEW r \in Refs, NEW d \in Data, bwrite(r, d) \/ log_write(r, d) PROVE Inv'
  BY <1>4, bwrite_step, log_write_step
<1>5. ASSUME NEW r \in Refs, brelse(r) PROVE Inv'
  BY <1>5, brelse_step
<1>6. QED
  BY <1>1, <1>2, <1>3, <1>4, <1>5, disk_done_step, ideintr_step DEF Next

LEMMA Invariance == Spec => []Inv
BY InitInv, NextInv, PTL DEF Spec

(***************************************************************************)
(* The properties                                                          *)
(***************************************************************************)
\* The list of buffers keeps holding every buffer, and every variable its type,
\* for any number of processes, buffers and blocks.
THEOREM TypesKept == Spec => []TypeOK
BY Invariance, PTL DEF Inv

\* A block has one buffer and a busy buffer one holder, who asked for the block:
\* however many processes bget() wakes for a buffer that was recycled meanwhile.
THEOREM Exclusion == Spec => []OneHolder
<1>1. Inv => OneHolder
  <2> SUFFICES ASSUME Inv PROVE OneHolder
    OBVIOUS
  <2>1. \A b, c \in Bufs : buf[b].blk = buf[c].blk /\ buf[b].blk # NoBlock => b = c
    BY DEF Inv, HolderInv
  <2>2. \A r \in Refs : At(r, "hold") => buf[cur[r]].blk = want[r] /\ buf[cur[r]].valid
    BY DEF Inv, HolderInv, FlagsInv, Holds, At
  <2>3. ASSUME NEW b \in Bufs
        PROVE  Cardinality({r \in Refs : cur[r] = b /\ pc[r] \in {"hold", "iderw", "iowait", "io_asleep"}})
                 = IF buf[b].busy THEN 1 ELSE 0
    <3> DEFINE S == {r \in Refs : cur[r] = b /\ pc[r] \in {"hold", "iderw", "iowait", "io_asleep"}}
    <3>1. CASE buf[b].busy = TRUE
      <4>1. PICK r \in Refs : Holds(r) /\ cur[r] = b
        BY <3>1 DEF Inv, HolderInv
      <4>2. S = {r}
        BY ZenonT(40), <4>1 DEF Inv, HolderInv, Holds
      <4>3. Cardinality({r}) = 1
        BY FS_Singleton
      <4>4. QED
        BY <3>1, <4>2, <4>3
    <3>2. CASE buf[b].busy = FALSE
      <4>1. S = {}
        BY SMT, <3>2 DEF Inv, HolderInv, Holds
      <4>2. QED
        BY <3>2, <4>1, FS_EmptySet
    <3>3. buf[b].busy \in BOOLEAN
      BY DEF Inv, TypeOK, BufRec
    <3>4. QED
      BY <3>1, <3>2, <3>3
  <2>4. QED
    BY <2>1, <2>2, <2>3 DEF OneHolder
<1>2. QED
  BY <1>1, Invariance, PTL

\* Whoever sleeps in bget() sleeps for a buffer somebody holds, and whoever
\* sleeps in iderw() for a request in the queue, whose head the disk works on.
THEOREM NoLostSleeper == Spec => []NobodyForgotten
<1>1. Inv => NobodyForgotten
  <2> SUFFICES ASSUME Inv PROVE NobodyForgotten
    OBVIOUS
  <2>1. idequeue \in Seq(Bufs) /\ DOMAIN idequeue = 1..Len(idequeue)
    BY SMT DEF Inv, TypeOK
  <2>2. active = (IF idequeue = <<>> THEN 0 ELSE Head(idequeue))
    BY SMT, <2>1 DEF Inv, QueueInv
  <2>3. IsInjective(idequeue)
    BY <2>1 DEF Inv, QueueInv, IsInjective
  <2>4. \A i \in DOMAIN idequeue : \E r \in Refs : cur[r] = idequeue[i] /\ pc[r] \in {"io_asleep", "iowait"}
    BY <2>1 DEF Inv, QueueInv
  <2>5. ASSUME NEW r \in Refs
        PROVE  /\ At(r, "b_asleep") => buf[cur[r]].busy
               /\ At(r, "io_asleep") => \E n \in DOMAIN idequeue : idequeue[n] = cur[r]
    BY SMTT(40), <2>1 DEF Inv, QueueInv, HolderInv, At
  <2>6. QED
    BY <2>2, <2>3, <2>4, <2>5 DEF NobodyForgotten, DriverBusy
<1>2. QED
  BY <1>1, Invariance, PTL

\* While the disk reports no error, a holder sees what was last put in its block,
\* and a block without a valid buffer is up to date on the disk: a buffer that
\* is recycled loses nothing.
THEOREM Coherence == ASSUME IoErrors = FALSE PROVE Spec => []Coherent
<1>1. Inv => Coherent
  <2> SUFFICES ASSUME Inv PROVE Coherent
    OBVIOUS
  <2>1. BreadReturnsBlock
    BY DEF Inv, HolderInv, FlagsInv, DataInv, Holds, At, BreadReturnsBlock
  <2>2. ASSUME NEW k \in Blocks, \A b \in Cached(k) : ~buf[b].valid
        PROVE  disk[k] = last[k]
    <3>1. \A b \in Bufs : buf[b].valid \in BOOLEAN
      BY DEF Inv, TypeOK, BufRec
    <3>2. \A b \in Bufs : buf[b].blk = k => buf[b].valid = FALSE
      BY <2>2, <3>1 DEF Cached
    <3>3. QED
      BY <3>2 DEF Inv, DataInv
  <2>3. QED
    BY <2>1, <2>2 DEF Coherent
<1>2. QED
  BY <1>1, Invariance, PTL

(***************************************************************************)
(* Two buffers at a time                                                   *)
(***************************************************************************)
InBget(r) == pc[r] \in {"bget", "b_asleep"}

\* A thread inside bget() for its first buffer has no second one; one inside
\* bget() for its second holds the first, and may ask for the two in that order.
NestInv ==
  \A r \in Refs : InBget(r) => \/ r[2] = 1 /\ pc[Other(r)] = "user"
                               \/ /\ r[2] = 2 /\ pc[Other(r)] = "hold"
                                  /\ Nested(want[Other(r)], want[r])

LEMMA RefPairs ==
  ASSUME NEW r \in Refs
  PROVE  /\ Other(r) \in Refs /\ Other(r) # r /\ Other(Other(r)) = r
         /\ \A s \in Refs : s[1] = r[1] => s = r \/ s = Other(r)
BY SMT DEF Refs, Other

\* Nobody enters bget(), and a thread inside it keeps its other buffer.
LEMMA NestKept ==
  ASSUME NestInv,
         \A r \in Refs : InBget(r)' => InBget(r) /\ want'[r] = want[r],
         \A r \in Refs : InBget(r) => pc'[Other(r)] = pc[Other(r)] /\ want'[Other(r)] = want[Other(r)]
  PROVE  NestInv'
<1> SUFFICES ASSUME NEW r \in Refs, InBget(r)'
             PROVE  \/ r[2] = 1 /\ pc'[Other(r)] = "user"
                    \/ r[2] = 2 /\ pc'[Other(r)] = "hold" /\ Nested(want'[Other(r)], want'[r])
  BY DEF NestInv, Other, Nested, LogNests
<1>1. InBget(r) /\ want'[r] = want[r] /\ pc'[Other(r)] = pc[Other(r)] /\ want'[Other(r)] = want[Other(r)]
  OBVIOUS
<1>2. QED
  BY <1>1 DEF NestInv

\* What a step of one thread inside a call does to NestInv: nothing, since the
\* thread's other buffer is not being asked for.
LEMMA NestKeptBy ==
  ASSUME TypeOK, NestInv, NEW r \in Refs, want' = want,
         pc[r] \notin {"user", "hold"} \/ pc[Other(r)] \in {"user", "hold"},
         \A q \in Refs : q # r => pc'[q] = pc[q],
         InBget(r)' => InBget(r)
  PROVE  NestInv'
<1>1. ~InBget(Other(r))
  <2>1. Other(r) \in Refs /\ Other(Other(r)) = r
    BY RefPairs
  <2>2. QED
    BY <2>1 DEF NestInv, InBget
<1>2. \A q \in Refs : InBget(q) => Other(q) # r /\ Other(q) \in Refs
  BY <1>1, RefPairs
<1>3. QED
  BY <1>2, NestKept DEF InBget

LEMMA NextNest == Inv /\ NestInv /\ [Next]_vars => NestInv'
<1> SUFFICES ASSUME Inv, NestInv, [Next]_vars PROVE NestInv'
  OBVIOUS
<1>0. pc \in [Refs -> Labels] /\ want \in [Refs -> Blocks \cup {NoBlock}] /\ TypeOK
  BY DEF Inv, TypeOK
<1>1. CASE UNCHANGED vars
  BY <1>1 DEF vars, NestInv, InBget, Other, Nested, LogNests
<1>2. ASSUME NEW r \in Refs, Kernel(r) PROVE NestInv'
  <2>1. /\ want' = want /\ pc[r] \notin {"user", "hold"} /\ (InBget(r)' => InBget(r))
        /\ \A q \in Refs : q # r => pc'[q] = pc[q]
    <3>1. CASE bget_hit(r) \/ bget_sleep(r) \/ bget_recycle(r) \/ bget_panic(r)
      BY <1>0, <3>1 DEF bget_hit, bget_sleep, bget_recycle, bget_panic, Got, At, InBget
    <3>2. CASE iderw(r) \/ iderw_wait(r) \/ iderw_mem(r)
      BY <1>0, <3>2 DEF iderw, iderw_wait, iderw_mem, At, InBget
    <3>3. QED
      BY <1>2, <3>1, <3>2 DEF Kernel
  <2>2. QED
    BY <1>0, <2>1, NestKeptBy
<1>3. ASSUME NEW r \in Refs, NEW k \in Blocks, bread(r, k) PROVE NestInv'
  <2>1. /\ pc'[r] = "bget" /\ want'[r] = k /\ pc[r] = "user"
        /\ \A q \in Refs : q # r => pc'[q] = pc[q] /\ want'[q] = want[q]
        /\ \/ r[2] = 1 /\ pc[Other(r)] = "user"
           \/ r[2] = 2 /\ pc[Other(r)] = "hold" /\ Nested(want[Other(r)], k)
    BY <1>0, <1>3 DEF bread, At
  <2> SUFFICES ASSUME NEW q \in Refs, InBget(q)'
               PROVE  \/ q[2] = 1 /\ pc'[Other(q)] = "user"
                      \/ q[2] = 2 /\ pc'[Other(q)] = "hold" /\ Nested(want'[Other(q)], want'[q])
    BY DEF NestInv, Other, Nested, LogNests
  <2>2. CASE q = r
    <3>1. pc'[Other(r)] = pc[Other(r)] /\ want'[Other(r)] = want[Other(r)]
      BY <2>1, RefPairs
    <3>2. QED
      BY <2>1, <2>2, <3>1
  <2>3. CASE q # r
    <3>1. InBget(q) /\ want'[q] = want[q]
      BY <2>1, <2>3 DEF InBget
    <3>2. Other(q) # r
      <4>1. Other(r) \notin {q} \/ pc[q] \in {"user", "hold"}
        BY <2>1
      <4>2. QED
        BY <3>1, <4>1, RefPairs DEF InBget
    <3>3. pc'[Other(q)] = pc[Other(q)] /\ want'[Other(q)] = want[Other(q)]
      BY <2>1, <3>2, RefPairs
    <3>4. QED
      BY <3>1, <3>3 DEF NestInv
  <2>4. QED
    BY <2>2, <2>3
<1>4. ASSUME NEW r \in Refs, NEW d \in Data, bwrite(r, d) \/ log_write(r, d) PROVE NestInv'
  <2>1. /\ want' = want /\ pc[Other(r)] \in {"user", "hold"} /\ ~InBget(r)'
        /\ \A q \in Refs : q # r => pc'[q] = pc[q]
    BY <1>0, <1>4 DEF bwrite, log_write, At, Free, InBget
  <2>2. QED
    BY <1>0, <2>1, NestKeptBy
<1>5. ASSUME NEW r \in Refs, brelse(r) PROVE NestInv'
  <2>1. /\ pc[Other(r)] \in {"user", "hold"} /\ pc'[r] = "user"
        /\ \A q \in Refs : q # r => pc'[q] = Wake(cur[r])[q] /\ want'[q] = want[q]
    BY <1>0, <1>5, WakeOf DEF brelse, Free
  <2>2. ASSUME NEW q \in Refs, InBget(q)' PROVE InBget(q) /\ want'[q] = want[q]
    BY <1>0, <2>1, <2>2, WakeOf DEF InBget
  <2>3. ASSUME NEW q \in Refs, InBget(q)
        PROVE  pc'[Other(q)] = pc[Other(q)] /\ want'[Other(q)] = want[Other(q)]
    <3>1. Other(q) \in Refs /\ Other(q) # r /\ pc[Other(q)] \in {"user", "hold"}
      BY <2>1, <2>3, RefPairs DEF NestInv, InBget
    <3>2. QED
      BY <1>0, <2>1, <3>1, WakeOf
  <2>4. QED
    BY <2>2, <2>3, NestKept
<1>6. CASE disk_done
  BY <1>6, NestKept DEF disk_done, InBget
<1>7. CASE ideintr
  <2>1. PICK b : pc' = Wake(b) /\ want' = want
    BY <1>7 DEF ideintr
  <2>2. ASSUME NEW q \in Refs, InBget(q)' PROVE InBget(q)
    BY <1>0, <2>1, <2>2, WakeOf DEF InBget
  <2>3. ASSUME NEW q \in Refs, InBget(q) PROVE pc'[Other(q)] = pc[Other(q)]
    <3>1. Other(q) \in Refs /\ pc[Other(q)] \in {"user", "hold"}
      BY <2>3, RefPairs DEF NestInv
    <3>2. QED
      BY <1>0, <2>1, <3>1, WakeOf
  <2>4. QED
    BY <2>1, <2>2, <2>3, NestKept
<1>8. QED
  BY <1>1, <1>2, <1>3, <1>4, <1>5, <1>6, <1>7 DEF Next

\* A reference asleep for a buffer that another one holds.
Behind(r, s) == pc[r] = "b_asleep" /\ Holds(s) /\ cur[s] = cur[r]

\* A thread that is waited for and waits itself asked for its blocks in order.
LEMMA InOrder ==
  ASSUME Inv, NestInv, NEW r \in Refs, NEW s \in Refs, NEW t \in Refs, NEW u \in Refs,
         Behind(r, s), Behind(t, u), s[1] = t[1]
  PROVE  Nested(want[r], want[t])
<1>1. want[s] = want[r]
  BY SMT DEF Inv, HolderInv, Behind
<1>2. s = Other(t)
  BY RefPairs DEF Behind, Holds
<1>3. InBget(t) /\ pc[Other(t)] # "user"
  BY <1>2 DEF Behind, Holds, InBget
<1>4. QED
  BY <1>1, <1>2, <1>3 DEF NestInv

\* No thread waits in bget() for a buffer held by one that waits, directly or
\* through others, for a buffer of its own: the blocks of the log are asked for
\* before all others, and an indirect block before the ones it leads to.
THEOREM NoDeadlock == Spec => []NoCircularWait
<1>1. Init => NestInv
  BY DEF Init, NestInv, InBget
<1>2. Inv /\ NestInv => NoCircularWait
  <2> SUFFICES ASSUME Inv, NestInv, NEW S \in SUBSET Procs, S # {},
                      \A p \in S : \E q \in S : WaitsFor(p, q)
               PROVE  FALSE
    BY DEF NoCircularWait
  <2>1. ASSUME NEW p \in S
        PROVE  \E q \in S : \E r, s \in Refs : r[1] = p /\ s[1] = q /\ Behind(r, s)
    <3>1. PICK q \in S : WaitsFor(p, q)
      OBVIOUS
    <3>2. PICK r \in {p} \X {1, 2}, s \in {q} \X {1, 2} :
            At(r, "b_asleep") /\ cur[s] = cur[r] /\ pc[s] \in {"hold", "iderw", "iowait", "io_asleep"}
      BY <3>1 DEF WaitsFor
    <3>3. r \in Refs /\ s \in Refs /\ r[1] = p /\ s[1] = q
      BY SMT DEF Refs
    <3>4. Behind(r, s)
      BY <3>2 DEF Behind, Holds, At
    <3>5. QED
      BY <3>3, <3>4
  <2>2. PICK p1 \in S : TRUE
    OBVIOUS
  <2>3. PICK p2 \in S : \E r, s \in Refs : r[1] = p1 /\ s[1] = p2 /\ Behind(r, s)
    BY <2>1
  <2>4. PICK p3 \in S : \E r, s \in Refs : r[1] = p2 /\ s[1] = p3 /\ Behind(r, s)
    BY <2>1
  <2>5. PICK p4 \in S : \E r, s \in Refs : r[1] = p3 /\ s[1] = p4 /\ Behind(r, s)
    BY <2>1
  <2>6. PICK p5 \in S : \E r, s \in Refs : r[1] = p4 /\ s[1] = p5 /\ Behind(r, s)
    BY <2>1
  <2>7. PICK r1 \in Refs, s1 \in Refs : s1[1] = p2 /\ Behind(r1, s1)
    BY <2>3
  <2>8. PICK r2 \in Refs, s2 \in Refs : r2[1] = p2 /\ s2[1] = p3 /\ Behind(r2, s2)
    BY <2>4
  <2>9. PICK r3 \in Refs, s3 \in Refs : r3[1] = p3 /\ s3[1] = p4 /\ Behind(r3, s3)
    BY <2>5
  <2>10. PICK r4 \in Refs, s4 \in Refs : r4[1] = p4 /\ Behind(r4, s4)
    BY <2>6
  <2>11. Nested(want[r1], want[r2])
    BY <2>7, <2>8, InOrder
  <2>12. Nested(want[r2], want[r3])
    BY <2>8, <2>9, InOrder
  <2>13. Nested(want[r3], want[r4])
    BY <2>9, <2>10, InOrder
  <2>14. QED
    BY <2>11, <2>12, <2>13 DEF Nested, LogNests
<1>3. QED
  BY <1>1, <1>2, Invariance, NextNest, PTL DEF Spec
=============================================================================
