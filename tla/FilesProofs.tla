---------------------------- MODULE FilesProofs -----------------------------
(***************************************************************************)
(* The counts of open files, for any number of processes, descriptors,     *)
(* files, inodes and pipes.                                                *)
(***************************************************************************)
EXTENDS Files, TLAPS

\* Leaves that name no prover are Zenon's.
USE Zenon

\* The part of TypeOK that the counts rest on.
Types ==
  /\ file \in [Files -> FileRec]
  /\ ofile \in [Procs -> [FDs -> Files \cup {None}]]
  /\ alive \subseteq Procs
  /\ todo \in [Procs -> Seq(Ops)] /\ \A p \in Procs : Len(todo[p]) <= 2

\* The calls in progress: only a close may come before something else, pipe()
\* never takes one file twice, and a process does nothing before it is born or
\* after it exited.
Closers == {"fileclose", "pipeclose", "iput"}
Later == {"fileclose", "iput", "exit"}
CallOK(t) ==
  /\ Len(t) = 2 => t[1].op \in Closers /\ t[2].op \in Later
  /\ t # <<>> /\ t[1].op = "pipe" => \A f \in Files : t[1].x # <<f, f>>
CallInv == \A p \in Procs : CallOK(todo[p]) /\ (todo[p] # <<>> => (todo[p][1].op = "born" <=> p \notin alive))

\* The descriptors of a process that exit() is closing, and of a child that
\* fork() is copying; a free slot has none.
NoneBelow(fds, t) == \A j \in 1..Len(t) : t[j].op = "exit" => \A k \in FDs : k < t[j].x => fds[k] = None
Forking(p, c) == todo[p] # <<>> /\ todo[p][1].op = "fork" /\ todo[p][1].x.c = c
ChildOf(p, c) ==
  /\ c \notin alive /\ todo[c] # <<>>
  /\ \A k \in FDs : k >= todo[p][1].x.fd => ofile[c][k] = None
  /\ \A q \in Procs : Forking(q, c) => q = p
SlotInv ==
  /\ \A p \in Procs : p \notin alive /\ todo[p] = <<>> => \A k \in FDs : ofile[p][k] = None
  /\ \A p \in Procs : NoneBelow(ofile[p], todo[p])
  /\ \A p, c \in Procs : Forking(p, c) => ChildOf(p, c)

\* What a file stands for.
KindOK(r) ==
  /\ r.type = "PIPE" => r.obj \in Pipes /\ r.end \in Ends
  /\ r.type = "INODE" => r.obj \in Inodes
KindInv == \A f \in Files : KindOK(file[f])

\* What the steps need to know of the counts.
Counted == \A f \in Files : References(f) # {} => file[f].ref # 0

Inv == Types /\ CallInv /\ SlotInv /\ KindInv /\ Counted

(***************************************************************************)
(* What a call has left to do                                              *)
(***************************************************************************)
PipeSeqs == {<<>>} \cup {<<f>> : f \in Files} \cup (Files \X Files)

LEMMA OpsElim ==
  ASSUME NEW o \in Ops
  PROVE  /\ o.op = "fileclose" => o.x \in Files
         /\ o.op = "open" => o.x \in Inodes
         /\ o.op = "opened" => o.x.f \in Files /\ o.x.i \in Inodes
         /\ o.op = "pipe" => o.x \in PipeSeqs
         /\ o.op = "fork" => o.x.c \in Procs /\ o.x.fd \in 0..NOFILE
         /\ o.op = "exit" => o.x \in 0..NOFILE
BY DEF Ops, PipeSeqs

LEMMA OpsIntro ==
  /\ \A f \in Files : Op("fileclose", f) \in Ops
  /\ \A i \in Inodes : Op("open", i) \in Ops /\ Op("iput", i) \in Ops
  /\ \A f \in Files, i \in Inodes : Op("opened", [f |-> f, i |-> i]) \in Ops
  /\ \A fs \in PipeSeqs : Op("pipe", fs) \in Ops
  /\ \A pp \in Pipes, e \in Ends : Op("pipeclose", [pp |-> pp, end |-> e]) \in Ops
  /\ \A c \in Procs, fd \in 0..NOFILE : Op("fork", [c |-> c, fd |-> fd]) \in Ops
  /\ \A c \in Procs : Op("born", c) \in Ops
  /\ \A fd \in 0..NOFILE : Op("exit", fd) \in Ops
BY DEF Ops, Op, PipeSeqs

LEMMA OpIs == ASSUME NEW o, NEW x PROVE Op(o, x).op = o /\ Op(o, x).x = x
BY DEF Op

\* The two files that the rest of a call, t, promises to drop or to hand out.
Holds(t, a, b) == Promised(t, 1) = a /\ Promised(t, 2) = b
Drops(o) == IF o.op = "fileclose" THEN o.x ELSE None

\* t may be what a call of a process with descriptors fds has left.
Shape(t, fds) ==
  /\ t \in Seq(Ops) /\ Len(t) <= 2 /\ CallOK(t) /\ NoneBelow(fds, t)
  /\ t # <<>> => t[1].op \notin {"born", "fork"}

LEMMA Nothing == ASSUME NEW fds PROVE <<>> \in Seq(Ops) /\ Holds(<<>>, None, None) /\ Shape(<<>>, fds)
BY SMT DEF Promised, Holds, Shape, CallOK, NoneBelow

LEMMA Single ==
  ASSUME NEW o \in Ops
  PROVE  /\ <<o>> \in Seq(Ops) /\ Len(<<o>>) = 1 /\ <<o>>[1] = o /\ <<o>> # <<>>
         /\ o.op # "pipe" => Holds(<<o>>, Drops(o), None)
         /\ o.op = "pipe" /\ o.x = <<>> => Holds(<<o>>, None, None)
         /\ \A f : o.op = "pipe" /\ o.x = <<f>> => Holds(<<o>>, None, f)
         /\ \A f, g : o.op = "pipe" /\ o.x = <<f, g>> => Holds(<<o>>, g, f)
<1>1. <<o>> \in Seq(Ops) /\ Len(<<o>>) = 1 /\ <<o>>[1] = o /\ <<o>> # <<>>
  BY SMT
<1>2. ASSUME o.op # "pipe" PROVE Holds(<<o>>, Drops(o), None)
  BY SMT, <1>1, <1>2 DEF Promised, Drops, Holds
<1>3. ASSUME o.op = "pipe"
      PROVE  /\ Promised(<<o>>, 1) = IF 2 <= Len(o.x) THEN o.x[2] ELSE None
             /\ Promised(<<o>>, 2) = IF 1 <= Len(o.x) THEN o.x[1] ELSE None
  <2>1. 3 - 1 = 2 /\ 3 - 2 = 1
    BY SMT
  <2>2. QED
    BY <1>1, <1>3, <2>1 DEF Promised
<1>4. QED
  BY SMTT(60), <1>1, <1>2, <1>3 DEF Holds

LEMMA Pair ==
  ASSUME NEW o \in Ops, NEW n \in Ops
  PROVE  /\ <<o, n>> \in Seq(Ops) /\ Len(<<o, n>>) = 2 /\ <<o, n>>[1] = o /\ <<o, n>>[2] = n /\ <<o, n>> # <<>>
         /\ o.op # "pipe" => Holds(<<o, n>>, Drops(n), Drops(o))
<1>1. <<o, n>> \in Seq(Ops) /\ Len(<<o, n>>) = 2 /\ <<o, n>>[1] = o /\ <<o, n>>[2] = n /\ <<o, n>> # <<>>
  BY SMT
<1>2. QED
  BY SMT, <1>1 DEF Promised, Drops, Holds

\* What may be left of a call that does one thing at a time, or of a close
\* with something after it.
LEMMA SingleOK ==
  ASSUME NEW o \in Ops, NEW fds, o.op \notin {"born", "fork"},
         o.op = "exit" => \A k \in FDs : k < o.x => fds[k] = None,
         o.op = "pipe" => \A f \in Files : o.x # <<f, f>>
  PROVE  Shape(<<o>>, fds)
BY SMT, Single DEF Shape, CallOK, NoneBelow

LEMMA PairOK ==
  ASSUME NEW o \in Ops, NEW n \in Ops, NEW fds, o.op \in Closers, n.op \in Later,
         n.op = "exit" => \A k \in FDs : k < n.x => fds[k] = None
  PROVE  Shape(<<o, n>>, fds)
BY SMT, Pair DEF Shape, CallOK, NoneBelow, Closers

\* The calls one by one.
LEMMA Calls ==
  ASSUME NEW fds
  PROVE  /\ \A i \in Inodes : \A o \in {Op("open", i), Op("iput", i)} : Holds(<<o>>, None, None) /\ Shape(<<o>>, fds)
         /\ \A f \in Files, i \in Inodes : LET t == <<Op("opened", [f |-> f, i |-> i])>>
                                           IN  Holds(t, None, None) /\ Shape(t, fds)
         /\ \A f \in Files : LET t == <<Op("fileclose", f)>> IN Holds(t, f, None) /\ Shape(t, fds)
         /\ \A f, g \in Files : LET t == <<Op("fileclose", f), Op("fileclose", g)>> IN Holds(t, g, f) /\ Shape(t, fds)
         /\ \A f \in Files, i \in Inodes : LET t == <<Op("fileclose", f), Op("iput", i)>>
                                           IN  Holds(t, None, f) /\ Shape(t, fds)
<1>1. ASSUME NEW i \in Inodes, NEW o \in {Op("open", i), Op("iput", i)} PROVE Holds(<<o>>, None, None) /\ Shape(<<o>>, fds)
  <2>1. o \in Ops /\ o.op \in {"open", "iput"}
    BY SMT, OpsIntro, OpIs
  <2>2. QED
    BY <2>1, Single, SingleOK DEF Drops
<1>2. ASSUME NEW f \in Files, NEW i \in Inodes, NEW o, o = Op("opened", [f |-> f, i |-> i])
      PROVE  Holds(<<o>>, None, None) /\ Shape(<<o>>, fds)
  <2>1. o \in Ops /\ o.op = "opened"
    BY <1>2, OpsIntro, OpIs
  <2>2. QED
    BY <2>1, Single, SingleOK DEF Drops
<1>3. ASSUME NEW f \in Files, NEW o, o = Op("fileclose", f) PROVE o \in Ops /\ o.op = "fileclose" /\ Drops(o) = f
  BY <1>3, OpsIntro, OpIs DEF Drops
<1>4. ASSUME NEW f \in Files, NEW o, o = Op("fileclose", f) PROVE Holds(<<o>>, f, None) /\ Shape(<<o>>, fds)
  BY <1>3, <1>4, Single, SingleOK
<1>5. ASSUME NEW f \in Files, NEW o, o = Op("fileclose", f), NEW n \in Ops, n.op \in {"fileclose", "iput"}
      PROVE  Holds(<<o, n>>, Drops(n), f) /\ Shape(<<o, n>>, fds)
  BY SMT, <1>3, <1>5, Pair, PairOK DEF Closers, Later
<1>6. ASSUME NEW f \in Files, NEW g \in Files, NEW o, o = Op("fileclose", f), NEW n, n = Op("fileclose", g)
      PROVE  Holds(<<o, n>>, g, f) /\ Shape(<<o, n>>, fds)
  BY SMT, <1>3, <1>5, <1>6
<1>7. ASSUME NEW f \in Files, NEW i \in Inodes, NEW o, o = Op("fileclose", f), NEW n, n = Op("iput", i)
      PROVE  Holds(<<o, n>>, None, f) /\ Shape(<<o, n>>, fds)
  <2>1. n \in Ops /\ n.op = "iput" /\ Drops(n) = None
    BY SMT, <1>7, OpsIntro, OpIs DEF Drops
  <2>2. QED
    BY <1>5, <1>7, <2>1
<1>8. QED
  BY <1>1, <1>2, <1>4, <1>6, <1>7

\* exit() goes on with descriptor fd, after a close or not.
LEMMA ExitCalls ==
  ASSUME NEW fds, NEW fd \in 0..NOFILE, \A k \in FDs : k < fd => fds[k] = None
  PROVE  /\ Holds(<<Op("exit", fd)>>, None, None) /\ Shape(<<Op("exit", fd)>>, fds)
         /\ \A f \in Files : LET t == <<Op("fileclose", f), Op("exit", fd)>> IN Holds(t, None, f) /\ Shape(t, fds)
<1>1. PICK n \in Ops : n = Op("exit", fd) /\ n.op = "exit" /\ n.x = fd /\ Drops(n) = None
  BY SMT, OpsIntro, OpIs DEF Drops
<1>2. Holds(<<n>>, None, None) /\ Shape(<<n>>, fds)
  BY <1>1, Single, SingleOK
<1>3. ASSUME NEW f \in Files, NEW o, o = Op("fileclose", f) PROVE Holds(<<o, n>>, None, f) /\ Shape(<<o, n>>, fds)
  <2>1. o \in Ops /\ o.op = "fileclose" /\ Drops(o) = f
    BY <1>3, OpsIntro, OpIs DEF Drops
  <2>2. QED
    BY SMT, <1>1, <2>1, Pair, PairOK DEF Closers, Later
<1>4. QED
  BY <1>1, <1>2, <1>3

\* pipe() has no file, one file or two.
LEMMA PipeCalls ==
  ASSUME NEW fds
  PROVE  /\ LET t == <<Op("pipe", <<>>)>> IN Holds(t, None, None) /\ Shape(t, fds)
         /\ \A f \in Files : LET t == <<Op("pipe", <<f>>)>> IN Holds(t, None, f) /\ Shape(t, fds)
         /\ \A f, g \in Files : f # g => LET t == <<Op("pipe", <<f, g>>)>> IN Holds(t, g, f) /\ Shape(t, fds)
<1>1. ASSUME NEW fs \in PipeSeqs, \A f \in Files : fs # <<f, f>>, NEW o, o = Op("pipe", fs)
      PROVE  o \in Ops /\ o.op = "pipe" /\ o.x = fs /\ Shape(<<o>>, fds)
  <2>1. o \in Ops /\ o.op = "pipe" /\ o.x = fs
    BY <1>1, OpsIntro, OpIs
  <2>2. QED
    BY <1>1, <2>1, SingleOK
<1>2. ASSUME NEW o, o = Op("pipe", <<>>) PROVE Holds(<<o>>, None, None) /\ Shape(<<o>>, fds)
  <2>1. <<>> \in PipeSeqs /\ \A f \in Files : <<>> # <<f, f>>
    BY DEF PipeSeqs
  <2>2. QED
    BY <1>1, <1>2, <2>1, Single
<1>3. ASSUME NEW f \in Files, NEW o, o = Op("pipe", <<f>>) PROVE Holds(<<o>>, None, f) /\ Shape(<<o>>, fds)
  <2>1. <<f>> \in PipeSeqs /\ \A g \in Files : <<f>> # <<g, g>>
    BY DEF PipeSeqs
  <2>2. QED
    BY <1>1, <1>3, <2>1, Single
<1>4. ASSUME NEW f \in Files, NEW g \in Files, f # g, NEW o, o = Op("pipe", <<f, g>>)
      PROVE  Holds(<<o>>, g, f) /\ Shape(<<o>>, fds)
  <2>1. <<f, g>> \in PipeSeqs /\ \A h \in Files : <<f, g>> # <<h, h>>
    BY <1>4 DEF PipeSeqs
  <2>2. QED
    BY SMT, <1>1, <1>4, <2>1, Single
<1>5. QED
  BY <1>2, <1>3, <1>4

\* What p's call has left becomes t, or stays nothing.
Turned(p, t) == todo' \in [Procs -> Seq(Ops)] /\ todo'[p] = t /\ \A q \in Procs : q # p => todo'[q] = todo[q]

LEMMA Tuples ==
  ASSUME NEW t \in Seq(Ops), t # <<>>, Len(t) <= 2
  PROVE  /\ t[1] \in Ops /\ Head(t) = t[1]
         /\ \/ t = <<t[1]>> /\ Len(t) = 1
            \/ t = <<t[1], t[2]>> /\ t[2] \in Ops /\ Len(t) = 2
<1>1. Len(t) \in Nat /\ Len(t) # 0
  BY SMT
<1>2. Len(t) \in 1..2 /\ 1 \in 1..Len(t)
  <2>1. \A n \in Nat : n # 0 /\ n <= 2 => n \in 1..2 /\ 1 \in 1..n
    BY SMT
  <2>2. QED
    BY <1>1, <2>1
<1>3. ASSUME Len(t) = 2 PROVE t[2] \in Ops /\ t = <<t[1], t[2]>>
  BY SMT, <1>3
<1>4. ASSUME Len(t) = 1 PROVE t = <<t[1]>>
  BY SMT, <1>4
<1>5. t[1] \in Ops /\ Head(t) = t[1]
  BY SMT, <1>2
<1>6. QED
  BY SMT, <1>2, <1>3, <1>4, <1>5

\* Then(): what comes next replaces the first thing left to do.
LEMMA Nexts ==
  ASSUME Types, NEW p \in Procs, NEW ops \in Seq(Ops), Then(p, ops), NEW o \in Ops
  PROVE  /\ todo[p] = <<o>> => Turned(p, ops)
         /\ \A n \in Ops : todo[p] = <<o, n>> => /\ ops = <<>> => Turned(p, <<n>>)
                                                 /\ \A m \in Ops : ops = <<m>> => Turned(p, <<m, n>>)
<1>1. ASSUME NEW t \in Seq(Ops), t = ops \o Tail(todo[p]) PROVE Turned(p, t)
  BY <1>1 DEF Then, Types, Turned
<1>2. ASSUME todo[p] = <<o>> PROVE ops = ops \o Tail(todo[p])
  BY SMT, <1>2
<1>3. ASSUME NEW n \in Ops, todo[p] = <<o, n>>, ops = <<>> PROVE <<n>> = ops \o Tail(todo[p])
  BY SMT, <1>3
<1>4. ASSUME NEW n \in Ops, todo[p] = <<o, n>>, NEW m \in Ops, ops = <<m>> PROVE <<m, n>> = ops \o Tail(todo[p])
  <2>1. Tail(<<o, n>>) = <<n>>
    BY SMT
  <2>2. PICK s : s = <<m>> \o <<n>>
    OBVIOUS
  <2>3. s \in Seq(Ops) /\ Len(s) = 2 /\ s[1] = m /\ s[2] = n
    BY SMT, <2>2
  <2>4. s = <<m, n>>
    BY SMT, <2>3
  <2>5. QED
    BY <1>4, <2>1, <2>2, <2>4
<1>5. QED
  BY ZenonT(40), <1>1, <1>2, <1>3, <1>4, Single, Pair

\* A call that has something left to do.
LEMMA Busy ==
  ASSUME Types, CallInv, NEW p \in Procs, NEW s, Now(p, s)
  PROVE  \E o \in Ops : /\ o.op = s /\ Head(todo[p]) = o /\ todo[p][1] = o /\ todo[p] # <<>> /\ (s # "born" => p \in alive)
                        /\ \/ todo[p] = <<o>> /\ Len(todo[p]) = 1
                           \/ \E n \in Ops : todo[p] = <<o, n>> /\ s \in Closers /\ n.op \in Later
<1>1. todo[p] \in Seq(Ops) /\ Len(todo[p]) <= 2 /\ todo[p] # <<>> /\ Head(todo[p]).op = s
  BY DEF Types, Now
<1>2. /\ todo[p][1] \in Ops /\ Head(todo[p]) = todo[p][1]
      /\ \/ todo[p] = <<todo[p][1]>> /\ Len(todo[p]) = 1
         \/ todo[p] = <<todo[p][1], todo[p][2]>> /\ todo[p][2] \in Ops /\ Len(todo[p]) = 2
  BY <1>1, Tuples
<1>3. /\ Len(todo[p]) = 2 => s \in Closers /\ todo[p][2].op \in Later
      /\ s # "born" => p \in alive
  BY <1>1, <1>2 DEF CallInv, CallOK
<1>4. QED
  BY <1>1, <1>2, <1>3

\* A call that does one thing at a time.
Alone(p, o) ==
  /\ o \in Ops /\ Head(todo[p]) = o /\ todo[p] = <<o>> /\ todo[p][1] = o /\ todo[p] # <<>> /\ Len(todo[p]) = 1
  /\ o.op # "born" => p \in alive
  /\ o.op # "pipe" => Holds(todo[p], None, None)
  /\ \A t \in Seq(Ops) : Then(p, t) => Turned(p, t)

LEMMA IsAlone ==
  ASSUME Inv, NEW p \in Procs, NEW s, Now(p, s), s \notin Closers
  PROVE  \E o : Alone(p, o) /\ o.op = s
<1>1. PICK o \in Ops : /\ o.op = s /\ Head(todo[p]) = o /\ todo[p] = <<o>> /\ todo[p][1] = o /\ todo[p] # <<>>
                       /\ Len(todo[p]) = 1 /\ (s # "born" => p \in alive)
  BY Busy DEF Inv
<1>2. \A t \in Seq(Ops) : Then(p, t) => Turned(p, t)
  BY <1>1, Nexts DEF Inv
<1>3. s # "pipe" => Holds(todo[p], None, None)
  BY <1>1, Single DEF Drops, Closers
<1>4. QED
  BY <1>1, <1>2, <1>3 DEF Alone

(***************************************************************************)
(* References                                                              *)
(***************************************************************************)
\* The places of what a call promises, after those of the descriptors.
CallSlot(j) == NOFILE + j - 1

LEMMA InRefs ==
  ASSUME NEW f, NEW p \in Procs, NEW k \in Slots
  PROVE  <<p, k>> \in References(f) <=> RefAt(p, k) = f
BY DEF References

\* The places of a process, before and after a step.
LEMMA Places ==
  ASSUME NEW p \in Procs
  PROVE  /\ \A k \in FDs : k \in Slots /\ RefAt(p, k) = ofile[p][k] /\ RefAt(p, k)' = ofile'[p][k]
         /\ \A j \in 1..2 : /\ CallSlot(j) \in Slots /\ CallSlot(j) \notin FDs
                            /\ RefAt(p, CallSlot(j)) = Promised(todo[p], j)
                            /\ RefAt(p, CallSlot(j))' = Promised(todo'[p], j)
         /\ \A k \in Slots : k \in FDs \/ \E j \in 1..2 : k = CallSlot(j)
         /\ CallSlot(1) # CallSlot(2)
<1>1. ASSUME NEW k \in FDs PROVE k \in Slots /\ k < NOFILE
  BY SMT, FilesAssumption DEF Slots, FDs
<1>2. ASSUME NEW j \in 1..2
      PROVE  CallSlot(j) \in Slots /\ CallSlot(j) \notin FDs /\ ~(CallSlot(j) < NOFILE) /\ CallSlot(j) - NOFILE + 1 = j
  BY SMT, FilesAssumption DEF Slots, FDs, CallSlot
<1>3. ASSUME NEW k \in Slots, k \notin FDs PROVE k - NOFILE + 1 \in 1..2 /\ k = CallSlot(k - NOFILE + 1)
  BY SMT, <1>3, FilesAssumption DEF Slots, FDs, CallSlot
<1>4. CallSlot(1) # CallSlot(2)
  BY SMT, FilesAssumption DEF CallSlot
<1>5. ASSUME NEW k \in FDs PROVE RefAt(p, k) = ofile[p][k] /\ RefAt(p, k)' = ofile'[p][k]
  BY <1>1 DEF RefAt
<1>6. ASSUME NEW j \in 1..2
      PROVE  RefAt(p, CallSlot(j)) = Promised(todo[p], j) /\ RefAt(p, CallSlot(j))' = Promised(todo'[p], j)
  BY <1>2 DEF RefAt
<1>7. QED
  BY <1>1, <1>2, <1>3, <1>4, <1>5, <1>6

\* The same, from what p's call promises.
LEMMA CallPlaces ==
  ASSUME NEW p \in Procs, NEW a, NEW b, Holds(todo[p], a, b), NEW c, NEW d, Holds(todo'[p], c, d)
  PROVE  /\ CallSlot(1) \in Slots /\ CallSlot(2) \in Slots /\ CallSlot(1) # CallSlot(2)
         /\ \A k \in FDs : k \in Slots /\ k # CallSlot(1) /\ k # CallSlot(2)
         /\ RefAt(p, CallSlot(1)) = a /\ RefAt(p, CallSlot(2)) = b
         /\ RefAt(p, CallSlot(1))' = c /\ RefAt(p, CallSlot(2))' = d
         /\ \A k \in FDs : RefAt(p, k) = ofile[p][k] /\ RefAt(p, k)' = ofile'[p][k]
         /\ \A k \in Slots : k \in FDs \/ k = CallSlot(1) \/ k = CallSlot(2)
<1>1. 1..2 = {1, 2}
  BY SMT
<1>2. QED
  BY SMT, <1>1, Places DEF Holds

\* One place changes from a to b, or a reference moves from place k to place m.
Rest(p, S) == \A q \in Procs, j \in Slots : q # p \/ j \notin S => RefAt(q, j)' = RefAt(q, j)
Goes(p, k, a, b) == p \in Procs /\ k \in Slots /\ RefAt(p, k) = a /\ RefAt(p, k)' = b /\ Rest(p, {k})
Moves(p, k, m, f) ==
  /\ p \in Procs /\ k \in Slots /\ m \in Slots /\ k # m
  /\ RefAt(p, k) = f /\ RefAt(p, k)' = None /\ RefAt(p, m) = None /\ RefAt(p, m)' = f
  /\ Rest(p, {k, m})

LEMMA RefSame ==
  ASSUME NEW p \in Procs, Rest(p, {}) \/ \E k, a : Goes(p, k, a, a)
  PROVE  \A g : References(g)' = References(g)
<1>1. \A q \in Procs, j \in Slots : RefAt(q, j)' = RefAt(q, j)
  BY DEF Rest, Goes
<1>2. QED
  BY <1>1 DEF References

LEMMA RefOthers ==
  ASSUME NEW f, NEW g \in Files, g # f, NEW p,
         \/ \E k : Goes(p, k, None, f) \/ Goes(p, k, f, None)
         \/ \E k, m : Moves(p, k, m, f)
  PROVE  References(g)' = References(g)
<1>1. None # g
  BY FilesAssumption
<1>2. \A q \in Procs, j \in Slots : RefAt(q, j)' = g <=> RefAt(q, j) = g
  BY SMT, <1>1 DEF Goes, Moves, Rest
<1>3. QED
  BY <1>2 DEF References

LEMMA RefAdd ==
  ASSUME NEW f \in Files, NEW p, NEW k, Goes(p, k, None, f)
  PROVE  References(f)' = References(f) \cup {<<p, k>>} /\ <<p, k>> \notin References(f)
<1>1. f # None
  BY FilesAssumption
<1>2. QED
  BY SMT, <1>1 DEF References, Goes, Rest

LEMMA RefDrop ==
  ASSUME NEW f \in Files, NEW p, NEW k, Goes(p, k, f, None)
  PROVE  References(f)' = References(f) \ {<<p, k>>} /\ <<p, k>> \in References(f)
<1>1. f # None
  BY FilesAssumption
<1>2. QED
  BY SMT, <1>1 DEF References, Goes, Rest

LEMMA RefMove ==
  ASSUME NEW f \in Files, NEW p, NEW k, NEW m, Moves(p, k, m, f)
  PROVE  /\ References(f)' = (References(f) \ {<<p, k>>}) \cup {<<p, m>>}
         /\ <<p, k>> \in References(f) /\ <<p, m>> \notin References(f)
<1>1. f # None
  BY FilesAssumption
<1>2. QED
  BY SMT, <1>1 DEF References, Moves, Rest

(***************************************************************************)
(* What a step of p must respect                                           *)
(***************************************************************************)
\* A count follows the references: one more, one less, or another one instead.
Follows(n, R, m, S) ==
  \/ S = R /\ m = n
  \/ \E x : x \notin R /\ S = R \cup {x} /\ m = n + 1
  \/ \E x \in R : S = R \ {x} /\ m = n - 1
  \/ \E x, y : x \in R /\ y \notin R /\ S = (R \ {x}) \cup {y} /\ m = n
FollowsAt(g) == Follows(file[g].ref, References(g), file'[g].ref, References(g)')
Settles == file' \in [Files -> FileRec] /\ KindInv' /\ \A g \in Files : FollowsAt(g)

\* What every step establishes.
StepOK == Types' /\ CallInv' /\ SlotInv' /\ Settles

LEMMA Stays ==
  ASSUME NEW g, file'[g] = file[g], References(g)' = References(g)
  PROVE  FollowsAt(g)
BY DEF FollowsAt, Follows

\* The files and the references stay.
LEMMA FilesSame ==
  ASSUME Inv, file' = file, \A g : References(g)' = References(g)
  PROVE  Settles
<1>1. KindInv' /\ file' \in [Files -> FileRec]
  BY DEF Inv, Types, KindInv
<1>2. QED
  BY <1>1, Stays DEF Settles

\* One file changes.
LEMMA FileChanges ==
  ASSUME Inv, NEW f \in Files, NEW r \in FileRec, KindOK(r), file' = [file EXCEPT ![f] = r],
         \A g \in Files : g # f => References(g)' = References(g),
         Follows(file[f].ref, References(f), r.ref, References(f)')
  PROVE  Settles
<1>1. file' \in [Files -> FileRec] /\ file'[f] = r /\ \A g \in Files : g # f => file'[g] = file[g]
  BY DEF Inv, Types
<1>2. KindInv'
  BY <1>1 DEF Inv, KindInv
<1>3. FollowsAt(f)
  BY <1>1 DEF FollowsAt
<1>4. QED
  BY <1>1, <1>2, <1>3, Stays DEF Settles

\* Its count changes.
LEMMA CountChanges ==
  ASSUME Inv, NEW f \in Files, NEW n \in Nat, file' = [file EXCEPT ![f].ref = n],
         \A g \in Files : g # f => References(g)' = References(g),
         Follows(file[f].ref, References(f), n, References(f)')
  PROVE  Settles
<1>1. file \in [Files -> FileRec] /\ file[f] \in FileRec /\ KindOK(file[f])
  BY DEF Inv, Types, KindInv
<1>2. PICK r \in FileRec : r = [file[f] EXCEPT !.ref = n]
  BY <1>1 DEF FileRec
<1>3. r.ref = n /\ KindOK(r)
  BY <1>1, <1>2 DEF FileRec, KindOK
<1>4. file' = [file EXCEPT ![f] = r]
  BY <1>1, <1>2
<1>5. QED
  BY <1>3, <1>4, FileChanges

\* q gets a reference to f.
LEMMA Added ==
  ASSUME Inv, NEW q, NEW k, NEW f \in Files, Goes(q, k, None, f), file' = [file EXCEPT ![f].ref = file[f].ref + 1]
  PROVE  Settles
<1>1. file[f].ref + 1 \in Nat
  BY SMT DEF Inv, Types, FileRec
<1>2. Follows(file[f].ref, References(f), file[f].ref + 1, References(f)')
  BY RefAdd DEF Follows
<1>3. QED
  BY <1>1, <1>2, CountChanges, RefOthers

\* A reference moves to another of p's places.
LEMMA Moved ==
  ASSUME Inv, NEW p, NEW k, NEW m, NEW f \in Files, Moves(p, k, m, f), file' = file
  PROVE  Settles
<1>1. FollowsAt(f)
  BY RefMove DEF FollowsAt, Follows
<1>2. KindInv' /\ file' \in [Files -> FileRec]
  BY DEF Inv, Types, KindInv
<1>3. QED
  BY <1>1, <1>2, RefOthers, Stays DEF Settles

\* p drops a reference, the last one or not.
LEMMA Dropped ==
  ASSUME Inv, NEW p, NEW k, NEW f \in Files, Goes(p, k, f, None),
         IF ~Last(file[f].ref) THEN file' = [file EXCEPT ![f].ref = file[f].ref - 1]
                               ELSE file' = [file EXCEPT ![f] = Closed(file[f])]
  PROVE  Settles
<1>1. References(f)' = References(f) \ {<<p, k>>} /\ <<p, k>> \in References(f)
  BY RefDrop
<1>2. file[f].ref \in Nat /\ file[f].ref # 0 /\ file[f] \in FileRec
  BY <1>1 DEF Inv, Types, FileRec, Counted
<1>3. Follows(file[f].ref, References(f), file[f].ref - 1, References(f)')
  BY <1>1 DEF Follows
<1>4. CASE ~Last(file[f].ref)
  <2>1. file[f].ref - 1 \in Nat
    BY SMT, <1>2
  <2>2. QED
    BY <1>3, <1>4, <2>1, CountChanges, RefOthers
<1>5. CASE Last(file[f].ref)
  <2>1. file[f].ref - 1 = 0
    BY SMT, <1>2, <1>5 DEF Last
  <2>2. Closed(file[f]) \in FileRec /\ Closed(file[f]).ref = 0 /\ Closed(file[f]).type = "NONE"
    BY <1>2 DEF FileRec, Closed
  <2>3. KindOK(Closed(file[f]))
    BY <2>2 DEF KindOK
  <2>4. QED
    BY <1>3, <1>5, <2>1, <2>2, <2>3, FileChanges, RefOthers
<1>6. QED
  BY <1>4, <1>5

\* Only the descriptors of p change, and what its call has left becomes t.
OFiles(p) ==
  /\ ofile' \in [Procs -> [FDs -> Files \cup {None}]]
  /\ \A q \in Procs : q # p => ofile'[q] = ofile[q]
Step(p, t) ==
  /\ p \in Procs /\ p \in alive /\ (todo[p] # <<>> => todo[p][1].op # "fork")
  /\ Turned(p, t) /\ OFiles(p) /\ Shape(t, ofile'[p])

LEMMA SlotKept ==
  ASSUME Types, SlotInv, NEW p, NEW t, Step(p, t), alive' \in {alive, alive \ {p}},
         p \notin alive' /\ t = <<>> => \A k \in FDs : ofile'[p][k] = None
  PROVE  SlotInv'
<1> USE DEF Step, Turned, OFiles
<1>1. \A q \in Procs : q \notin alive' /\ todo'[q] = <<>> => \A k \in FDs : ofile'[q][k] = None
  <2>1. \A q \in Procs : q # p => (q \in alive' <=> q \in alive)
    OBVIOUS
  <2>2. todo'[p] = t
    OBVIOUS
  <2>3. ASSUME NEW q \in Procs, q \notin alive', todo'[q] = <<>>, NEW k \in FDs PROVE ofile'[q][k] = None
    <3>1. CASE q = p
      BY <2>2, <2>3, <3>1
    <3>2. CASE q # p
      BY ZenonT(40), <2>1, <2>3, <3>2 DEF SlotInv
    <3>3. QED
      BY <3>1, <3>2
  <2>4. QED
    BY <2>3
<1>2. \A q \in Procs : NoneBelow(ofile'[q], todo'[q])
  BY DEF SlotInv, Shape
<1>3. \A q, c \in Procs : Forking(q, c)' => q # p /\ Forking(q, c)
  BY DEF Forking, Shape
<1>4. ASSUME NEW q \in Procs, NEW c \in Procs, Forking(q, c)' PROVE ChildOf(q, c)'
  <2>1. q # p /\ Forking(q, c) /\ ChildOf(q, c)
    BY <1>3, <1>4 DEF SlotInv
  <2>2. c \notin alive /\ c # p
    BY <2>1 DEF ChildOf
  <2>3. todo'[q] = todo[q] /\ todo'[c] = todo[c] /\ ofile'[c] = ofile[c] /\ c \notin alive'
    BY <2>1, <2>2
  <2>4. QED
    BY <1>3, <2>1, <2>3 DEF ChildOf
<1>5. QED
  BY <1>1, <1>2, <1>4 DEF SlotInv

LEMMA StepIsOK ==
  ASSUME Inv, NEW p, NEW t, Step(p, t), alive' = alive, Settles
  PROVE  StepOK
<1>1. Types'
  BY DEF Inv, Types, Step, Turned, OFiles, Shape, Settles
<1>2. CallInv'
  BY DEF Inv, CallInv, Step, Turned, Shape
<1>3. SlotInv'
  BY SlotKept DEF Inv, Step
<1>4. QED
  BY <1>1, <1>2, <1>3 DEF StepOK

\* The places of p change only where its descriptors and promises do.
LEMMA Changed ==
  ASSUME NEW p \in Procs, NEW t, Step(p, t), NEW S, \A k \in FDs : k \notin S => ofile'[p][k] = ofile[p][k],
         \A j \in 1..2 : CallSlot(j) \notin S => Promised(t, j) = Promised(todo[p], j)
  PROVE  Rest(p, S)
<1> USE DEF Step, Turned, OFiles
<1>1. \A q \in Procs, k \in Slots : q # p => RefAt(q, k)' = RefAt(q, k)
  BY DEF RefAt
<1>2. ASSUME NEW k \in Slots, k \notin S PROVE RefAt(p, k)' = RefAt(p, k)
  <2>1. CASE k \in FDs
    BY SMT, <1>2, <2>1, Places
  <2>2. CASE k \notin FDs
    <3>1. PICK j \in 1..2 : k = CallSlot(j)
      BY <2>2, Places
    <3>2. QED
      BY SMT, <1>2, <3>1, Places
  <2>3. QED
    BY <2>1, <2>2
<1>3. QED
  BY <1>1, <1>2 DEF Rest

(***************************************************************************)
(* The kinds of steps                                                      *)
(***************************************************************************)
SameFDs(p) == \A m \in FDs : ofile'[p][m] = ofile[p][m]
SameButFD(p, k) == \A m \in FDs : m # k => ofile'[p][m] = ofile[p][m]

\* No reference changes.
LEMMA NoRefs ==
  ASSUME NEW p, NEW t, Step(p, t), SameFDs(p), NEW a, NEW b, Holds(todo[p], a, b), Holds(t, a, b)
  PROVE  \A g : References(g)' = References(g)
<1>1. \A j \in 1..2 : Promised(t, j) = Promised(todo[p], j)
  BY SMT DEF Holds
<1>2. Rest(p, {}) /\ p \in Procs
  BY SMT, <1>1, Changed DEF SameFDs, Step
<1>3. QED
  BY <1>2, RefSame

LEMMA Quiet ==
  ASSUME Inv, NEW p, NEW t, Step(p, t), SameFDs(p), NEW a, NEW b, Holds(todo[p], a, b), Holds(t, a, b),
         UNCHANGED <<file, alive>>
  PROVE  StepOK
<1>1. Settles
  BY NoRefs, FilesSame
<1>2. QED
  BY <1>1, StepIsOK

\* A descriptor gets a reference.
LEMMA FDGets ==
  ASSUME Inv, NEW p, NEW t, Step(p, t), NEW k \in FDs, SameButFD(p, k), NEW a, NEW b, Holds(todo[p], a, b), Holds(t, a, b),
         NEW f \in Files, ofile[p][k] = None, ofile'[p][k] = f,
         file' = [file EXCEPT ![f].ref = file[f].ref + 1], alive' = alive
  PROVE  StepOK
<1>1. \A j \in 1..2 : Promised(t, j) = Promised(todo[p], j)
  BY SMT DEF Holds
<1>2. Rest(p, {k}) /\ p \in Procs
  BY SMT, <1>1, Changed DEF SameButFD, Step
<1>3. Goes(p, k, None, f)
  BY <1>2, Places DEF Goes
<1>4. QED
  BY <1>3, Added, StepIsOK

\* The call gets a reference, or loses one.
LEMMA CallGoes ==
  ASSUME NEW p, NEW t, Step(p, t), SameFDs(p), NEW a, NEW b, Holds(todo[p], a, b), NEW c, NEW d, Holds(t, c, d)
  PROVE  /\ b = d => Goes(p, CallSlot(1), a, c)
         /\ a = c => Goes(p, CallSlot(2), b, d)
<1>1. p \in Procs /\ todo'[p] = t
  BY DEF Step, Turned
<1>2. /\ CallSlot(1) \in Slots /\ CallSlot(2) \in Slots /\ RefAt(p, CallSlot(1)) = a /\ RefAt(p, CallSlot(2)) = b
      /\ RefAt(p, CallSlot(1))' = c /\ RefAt(p, CallSlot(2))' = d
  BY <1>1, CallPlaces
<1>3. ASSUME b = d PROVE Rest(p, {CallSlot(1)})
  <2>1. \A j \in 1..2 : CallSlot(j) \notin {CallSlot(1)} => Promised(t, j) = Promised(todo[p], j)
    BY SMT, <1>3 DEF Holds
  <2>2. QED
    BY SMT, <1>1, <2>1, Changed DEF SameFDs
<1>4. ASSUME a = c PROVE Rest(p, {CallSlot(2)})
  <2>1. \A j \in 1..2 : CallSlot(j) \notin {CallSlot(2)} => Promised(t, j) = Promised(todo[p], j)
    BY SMT, <1>4 DEF Holds
  <2>2. QED
    BY SMT, <1>1, <2>1, Changed DEF SameFDs
<1>5. QED
  BY <1>1, <1>2, <1>3, <1>4 DEF Goes

LEMMA CallGets ==
  ASSUME Inv, NEW p, NEW t, Step(p, t), SameFDs(p), NEW a, NEW b, Holds(todo[p], a, b), NEW c, NEW d, Holds(t, c, d),
         NEW f \in Files, (a = None /\ c = f /\ b = d) \/ (b = None /\ d = f /\ a = c),
         file' = [file EXCEPT ![f].ref = file[f].ref + 1], alive' = alive
  PROVE  StepOK
<1>1. \E k : Goes(p, k, None, f)
  BY CallGoes
<1>2. QED
  BY <1>1, Added, StepIsOK

\* A reference moves from a descriptor to the call.
LEMMA CallTakes ==
  ASSUME Inv, NEW p, NEW t, Step(p, t), NEW k \in FDs, SameButFD(p, k), Holds(todo[p], None, None),
         NEW f \in Files, ofile[p][k] = f, ofile'[p][k] = None,
         NEW c, NEW d, Holds(t, c, d), (c = f /\ d = None) \/ (c = None /\ d = f), UNCHANGED <<file, alive>>
  PROVE  StepOK
<1>1. p \in Procs /\ Holds(todo'[p], c, d)
  BY DEF Step, Turned
<1>2. /\ CallSlot(1) \in Slots /\ CallSlot(2) \in Slots /\ k \in Slots /\ k # CallSlot(1) /\ k # CallSlot(2)
      /\ RefAt(p, CallSlot(1)) = None /\ RefAt(p, CallSlot(2)) = None
      /\ RefAt(p, CallSlot(1))' = c /\ RefAt(p, CallSlot(2))' = d /\ RefAt(p, k) = f /\ RefAt(p, k)' = None
  <2>1. /\ CallSlot(1) \in Slots /\ CallSlot(2) \in Slots
        /\ RefAt(p, CallSlot(1)) = None /\ RefAt(p, CallSlot(2)) = None
        /\ RefAt(p, CallSlot(1))' = c /\ RefAt(p, CallSlot(2))' = d
    BY SMT, <1>1, Places DEF Holds
  <2>2. k \in Slots /\ k # CallSlot(1) /\ k # CallSlot(2) /\ RefAt(p, k) = f /\ RefAt(p, k)' = None
    BY SMT, <1>1, Places
  <2>3. QED
    BY <2>1, <2>2
<1>3. ASSUME c = f, d = None PROVE Moves(p, k, CallSlot(1), f)
  <2>1. \A j \in 1..2 : CallSlot(j) \notin {k, CallSlot(1)} => Promised(t, j) = Promised(todo[p], j)
    BY SMT, <1>3 DEF Holds
  <2>2. Rest(p, {k, CallSlot(1)})
    BY SMT, <1>1, <2>1, Changed DEF SameButFD
  <2>3. QED
    BY <1>1, <1>2, <1>3, <2>2 DEF Moves
<1>4. ASSUME c = None, d = f PROVE Moves(p, k, CallSlot(2), f)
  <2>1. \A j \in 1..2 : CallSlot(j) \notin {k, CallSlot(2)} => Promised(t, j) = Promised(todo[p], j)
    BY SMT, <1>4 DEF Holds
  <2>2. Rest(p, {k, CallSlot(2)})
    BY SMT, <1>1, <2>1, Changed DEF SameButFD
  <2>3. QED
    BY <1>1, <1>2, <1>4, <2>2 DEF Moves
<1>5. QED
  BY <1>3, <1>4, Moved, StepIsOK

\* A file that pipe() has taken is closed instead.
LEMMA CallMoves ==
  ASSUME Inv, NEW p, NEW t, Step(p, t), SameFDs(p), NEW f \in Files, Holds(todo[p], None, f), Holds(t, f, None),
         UNCHANGED <<file, alive>>
  PROVE  StepOK
<1>1. p \in Procs /\ todo'[p] = t
  BY DEF Step, Turned
<1>2. \A j \in 1..2 : CallSlot(j) \in {CallSlot(2), CallSlot(1)}
  BY SMT
<1>3. Rest(p, {CallSlot(2), CallSlot(1)})
  BY <1>1, <1>2, Changed DEF SameFDs
<1>4. /\ CallSlot(1) \in Slots /\ CallSlot(2) \in Slots /\ CallSlot(2) # CallSlot(1)
      /\ RefAt(p, CallSlot(1)) = None /\ RefAt(p, CallSlot(1))' = f
      /\ RefAt(p, CallSlot(2)) = f /\ RefAt(p, CallSlot(2))' = None
  BY ZenonT(40), <1>1, CallPlaces
<1>5. Moves(p, CallSlot(2), CallSlot(1), f)
  BY <1>1, <1>3, <1>4 DEF Moves
<1>6. QED
  BY <1>5, Moved, StepIsOK

\* One descriptor changes, or none.
LEMMA OneFD ==
  ASSUME Types, NEW p \in Procs, NEW k \in FDs, NEW f \in Files \cup {None}, ofile' = [ofile EXCEPT ![p][k] = f]
  PROVE  OFiles(p) /\ ofile'[p][k] = f /\ SameButFD(p, k)
BY DEF Types, OFiles, SameButFD

LEMMA NoFD == ASSUME Types, NEW p, ofile' = ofile PROVE OFiles(p) /\ SameFDs(p)
BY DEF Types, OFiles, SameFDs

(***************************************************************************)
(* dup(), close(), open() and exit()                                       *)
(***************************************************************************)
\* fdalloc() finds a free descriptor if there is one, and then a second one.
FdallocOK ==
  /\ \A S : S \subseteq FDs /\ S # {} => fdalloc(S) \in S
  /\ \A p : ~(Cardinality(FreeFDs(p)) < 2) =>
       /\ fdalloc(FreeFDs(p)) \in FreeFDs(p)
       /\ fdalloc(FreeFDs(p) \ {fdalloc(FreeFDs(p))}) \in FreeFDs(p) \ {fdalloc(FreeFDs(p))}

\* A process outside system calls.
LEMMA Idle ==
  ASSUME Inv, NEW p \in Procs, User(p)
  PROVE  /\ Types /\ p \in alive /\ todo[p] = <<>> /\ Holds(todo[p], None, None)
         /\ \A t : Start(p, t) /\ OFiles(p) /\ Shape(t, ofile'[p]) => Step(p, t)
<1>1. Types /\ p \in alive /\ todo[p] = <<>>
  BY DEF Inv, User
<1>2. ASSUME NEW t, Start(p, t), OFiles(p), Shape(t, ofile'[p]) PROVE Step(p, t)
  <2>1. Turned(p, t)
    BY <1>1, <1>2 DEF Start, Types, Turned, Shape
  <2>2. QED
    BY <1>1, <1>2, <2>1 DEF Step
<1>3. QED
  BY <1>1, <1>2, Nothing

\* A process in a call that does one thing at a time.
LEMMA GoesOnAlone ==
  ASSUME NEW p \in Procs, NEW o, Alone(p, o), o.op \notin {"born", "fork"}, NEW t, Then(p, t), OFiles(p), Shape(t, ofile'[p])
  PROVE  Step(p, t)
BY DEF Alone, Step, Shape

LEMMA Dup ==
  ASSUME Inv, NEW p \in Procs, NEW fd \in FDs, sys_dup(p, fd), FdallocOK
  PROVE  StepOK
<1>1. Types /\ p \in alive /\ todo[p] = <<>> /\ Holds(todo[p], None, None) /\ alive' = alive /\ todo' = todo
  BY Idle DEF sys_dup
<1>2. fdalloc(FreeFDs(p)) \in FDs /\ ofile[p][fdalloc(FreeFDs(p))] = None /\ ofile[p][fd] \in Files
  <2>1. FreeFDs(p) # {} /\ FreeFDs(p) \subseteq FDs /\ ofile[p][fd] \in Files
    BY SMT, <1>1 DEF sys_dup, FreeFDs, Types
  <2>2. fdalloc(FreeFDs(p)) \in FreeFDs(p)
    BY <2>1 DEF FdallocOK
  <2>3. QED
    BY <2>1, <2>2 DEF FreeFDs
<1>3. PICK f \in Files, k \in FDs :
        /\ ofile[p][k] = None /\ ofile' = [ofile EXCEPT ![p][k] = f] /\ file' = [file EXCEPT ![f].ref = file[f].ref + 1]
  BY <1>2 DEF sys_dup, filedup, Ref
<1>4. f \in Files \cup {None}
  OBVIOUS
<1>5. OFiles(p) /\ ofile'[p][k] = f /\ SameButFD(p, k)
  BY <1>1, <1>3, <1>4, OneFD
<1>6. Step(p, <<>>)
  BY <1>1, <1>5, Nothing DEF Step, Turned, Types
<1>7. QED
  BY <1>1, <1>3, <1>5, <1>6, FDGets

LEMMA Close ==
  ASSUME Inv, NEW p \in Procs, NEW fd \in FDs, sys_close(p, fd)
  PROVE  StepOK
<1>1. PICK f \in Files : f = ofile[p][fd]
  BY DEF Inv, sys_close, Types
<1>2. OFiles(p) /\ ofile'[p][fd] = None /\ SameButFD(p, fd)
  BY OneFD DEF sys_close, Inv
<1>3. PICK t : t = <<Op("fileclose", f)>> /\ Holds(t, f, None) /\ Shape(t, ofile'[p])
  BY ZenonT(40), Calls
<1>4. Step(p, t) /\ Holds(todo[p], None, None)
  BY <1>1, <1>2, <1>3, Idle DEF sys_close
<1>5. QED
  BY <1>1, <1>2, <1>3, <1>4, CallTakes DEF sys_close

\* A call starts with nothing in hand.
LEMMA CallsStart ==
  ASSUME Inv, NEW p \in Procs, sys_pipe(p) \/ exit(p) \/ \E i \in Inodes : sys_open(p, i)
  PROVE  StepOK
<1>1. User(p) /\ UNCHANGED <<file, ofile, alive>> /\ OFiles(p) /\ SameFDs(p)
  BY ZenonT(40), NoFD DEF sys_pipe, exit, sys_open, Inv
<1>2. ASSUME NEW k \in FDs PROVE ~(k < 0)
  BY SMT, FilesAssumption DEF FDs
<1>3. 0 \in 0..NOFILE
  BY SMT, FilesAssumption
<1>4. PICK t : Start(p, t) /\ Holds(t, None, None) /\ Shape(t, ofile'[p])
  <2>1. CASE sys_pipe(p)
    BY <2>1, PipeCalls DEF sys_pipe
  <2>2. CASE exit(p)
    BY <1>2, <1>3, <2>2, ExitCalls DEF exit
  <2>3. CASE \E i \in Inodes : sys_open(p, i)
    BY <2>3, Calls DEF sys_open
  <2>4. QED
    BY <2>1, <2>2, <2>3
<1>5. QED
  BY <1>1, <1>4, Idle, Quiet

\* filealloc() counts one reference to a free file.
LEMMA Allocs ==
  ASSUME Inv, NEW f \in Free, file' = filealloc(f)
  PROVE  f \in Files /\ References(f) = {} /\ file' = [file EXCEPT ![f].ref = file[f].ref + 1]
<1>1. f \in Files /\ file[f].ref = 0
  BY DEF Free
<1>2. file[f].ref + 1 = 1
  BY SMT, <1>1
<1>3. QED
  BY <1>1, <1>2 DEF filealloc, Inv, Counted

LEMMA OpenAllocs ==
  ASSUME Inv, NEW p \in Procs, open_alloc(p), FdallocOK
  PROVE  StepOK
<1>1. Types /\ alive' = alive /\ Now(p, "open") /\ "open" \notin Closers
  BY DEF Inv, open_alloc, Closers
<1>2. PICK o : Alone(p, o) /\ o.op = "open"
  BY <1>1, IsAlone
<1>3. o.op \notin {"born", "fork"} /\ Holds(todo[p], None, None) /\ Head(todo[p]) = o
  BY <1>2 DEF Alone
<1>4. PICK i \in Inodes : i = Head(todo[p]).x
  BY <1>2, OpsElim DEF Alone
<1>5. CASE Then(p, <<Op("iput", i)>>) /\ UNCHANGED <<file, ofile>>
  <2>1. OFiles(p) /\ SameFDs(p)
    BY <1>1, <1>5, NoFD
  <2>2. PICK t : t = <<Op("iput", i)>> /\ Holds(t, None, None) /\ Shape(t, ofile'[p])
    BY Calls
  <2>3. Step(p, t)
    BY <1>2, <1>3, <1>5, <2>1, <2>2, GoesOnAlone
  <2>4. QED
    BY <1>1, <1>3, <1>5, <2>1, <2>2, <2>3, Quiet
<1>6. ASSUME NEW f \in Free, file' = filealloc(f), ofile' = ofile, Then(p, <<Op("fileclose", f), Op("iput", i)>>)
      PROVE  StepOK
  <2>1. f \in Files /\ file' = [file EXCEPT ![f].ref = file[f].ref + 1] /\ OFiles(p) /\ SameFDs(p)
    BY <1>1, <1>6, Allocs, NoFD
  <2>2. PICK t : t = <<Op("fileclose", f), Op("iput", i)>> /\ Holds(t, None, f) /\ Shape(t, ofile'[p])
    BY <2>1, Calls
  <2>3. Step(p, t)
    BY <1>2, <1>3, <1>6, <2>1, <2>2, GoesOnAlone
  <2>4. QED
    BY <1>1, <1>3, <2>1, <2>2, <2>3, CallGets
<1>7. ASSUME NEW f \in Free, file' = filealloc(f), NEW k \in FDs, ofile[p][k] = None,
             ofile' = [ofile EXCEPT ![p][k] = f], Then(p, <<Op("opened", [f |-> f, i |-> i])>>)
      PROVE  StepOK
  <2>1. f \in Files /\ file' = [file EXCEPT ![f].ref = file[f].ref + 1] /\ f \in Files \cup {None}
    BY <1>7, Allocs
  <2>2. OFiles(p) /\ ofile'[p][k] = f /\ SameButFD(p, k)
    BY <1>1, <1>7, <2>1, OneFD
  <2>3. PICK t : t = <<Op("opened", [f |-> f, i |-> i])>> /\ Holds(t, None, None) /\ Shape(t, ofile'[p])
    BY <2>1, Calls
  <2>4. Step(p, t)
    BY <1>2, <1>3, <1>7, <2>2, <2>3, GoesOnAlone
  <2>5. QED
    BY <1>1, <1>3, <1>7, <2>1, <2>2, <2>3, <2>4, FDGets
<1>8. FreeFDs(p) # {} => fdalloc(FreeFDs(p)) \in FDs /\ ofile[p][fdalloc(FreeFDs(p))] = None
  BY DEF FdallocOK, FreeFDs
<1>9. QED
  BY <1>4, <1>5, <1>6, <1>7, <1>8 DEF open_alloc

LEMMA OpenDone ==
  ASSUME Inv, NEW p \in Procs, open_done(p)
  PROVE  StepOK
<1>1. /\ Types /\ alive' = alive /\ Now(p, "opened") /\ "opened" \notin Closers /\ Then(p, <<>>)
      /\ OFiles(p) /\ SameFDs(p)
  BY NoFD DEF Inv, open_done, Closers
<1>2. PICK o : Alone(p, o) /\ o.op = "opened"
  BY <1>1, IsAlone
<1>3. o.op \notin {"born", "fork"} /\ Holds(todo[p], None, None) /\ Head(todo[p]) = o
  BY <1>2 DEF Alone
<1>4. PICK f \in Files, i \in Inodes : file' = [file EXCEPT ![f].type = "INODE", ![f].obj = i]
  BY <1>2, <1>3, OpsElim DEF Alone, open_done
<1>5. Step(p, <<>>)
  BY <1>1, <1>2, <1>3, Nothing, GoesOnAlone
<1>6. \A g : References(g)' = References(g)
  BY <1>3, <1>1, <1>5, Nothing, NoRefs
<1>7. file \in [Files -> FileRec] /\ file[f] \in FileRec
  BY <1>1 DEF Types
<1>8. PICK r \in FileRec : r = [file[f] EXCEPT !.type = "INODE", !.obj = i]
  BY <1>7 DEF FileRec
<1>9. r.ref = file[f].ref /\ r.type = "INODE" /\ r.obj = i
  BY <1>7, <1>8 DEF FileRec
<1>10. KindOK(r) /\ Follows(file[f].ref, References(f), r.ref, References(f)')
  BY <1>6, <1>9 DEF KindOK, Follows
<1>11. file' = [file EXCEPT ![f] = r]
  BY <1>4, <1>7, <1>8
<1>12. QED
  BY <1>1, <1>5, <1>6, <1>10, <1>11, FileChanges, StepIsOK

\* exit() at descriptor fd: those below are closed.
LEMMA ExitCall ==
  ASSUME Inv, NEW p \in Procs, Now(p, "exit")
  PROVE  \E o : /\ Alone(p, o) /\ o.op \notin {"born", "fork"} /\ Head(todo[p]) = o /\ Holds(todo[p], None, None)
                /\ p \in alive /\ o.x \in 0..NOFILE /\ \A k \in FDs : k < o.x => ofile[p][k] = None
<1>1. PICK o : Alone(p, o) /\ o.op = "exit"
  BY IsAlone DEF Closers
<1>2. NoneBelow(ofile[p], todo[p]) /\ 1 \in 1..Len(todo[p])
  BY SMT, <1>1 DEF Inv, SlotInv, Alone
<1>3. QED
  BY <1>1, <1>2, OpsElim DEF NoneBelow, Alone

LEMMA ExitFile ==
  ASSUME Inv, NEW p \in Procs, exit_file(p)
  PROVE  StepOK
<1>1. PICK o : /\ Alone(p, o) /\ o.op \notin {"born", "fork"} /\ Head(todo[p]) = o /\ Holds(todo[p], None, None)
               /\ o.x \in 0..NOFILE /\ \A k \in FDs : k < o.x => ofile[p][k] = None
  BY ExitCall DEF exit_file
<1>2. PICK fd \in FDs : fd = o.x /\ fd + 1 \in 0..NOFILE /\ \A k \in FDs : k < fd + 1 => k = fd \/ k < fd
  BY SMT, <1>1, FilesAssumption DEF exit_file, FDs
<1>3. Types /\ UNCHANGED <<file, alive>> /\ ofile' = [ofile EXCEPT ![p][fd] = None]
  BY ZenonT(40), <1>1, <1>2 DEF Inv, exit_file
<1>4. OFiles(p) /\ ofile'[p][fd] = None /\ SameButFD(p, fd)
  BY <1>3, OneFD
<1>5. \A k \in FDs : k < fd + 1 => ofile'[p][k] = None
  BY <1>1, <1>2, <1>4 DEF SameButFD
<1>6. CASE ofile[p][fd] = None
  <2>1. PICK t : t = <<Op("exit", fd + 1)>> /\ Holds(t, None, None) /\ Shape(t, ofile'[p])
    BY <1>2, <1>5, ExitCalls
  <2>2. Step(p, t)
    BY <1>1, <1>2, <1>4, <1>6, <2>1, GoesOnAlone DEF exit_file
  <2>3. SameFDs(p)
    BY <1>4, <1>6 DEF SameFDs, SameButFD
  <2>4. QED
    BY <1>1, <1>3, <2>1, <2>2, <2>3, Quiet
<1>7. CASE ofile[p][fd] # None
  <2>1. PICK f \in Files : f = ofile[p][fd]
    BY <1>3, <1>7 DEF Types
  <2>2. PICK t : t = <<Op("fileclose", f), Op("exit", fd + 1)>> /\ Holds(t, None, f) /\ Shape(t, ofile'[p])
    BY <1>2, <1>5, ExitCalls
  <2>3. Then(p, t)
    BY <1>1, <1>2, <1>7, <2>1, <2>2 DEF exit_file
  <2>4. Step(p, t)
    BY <1>1, <1>4, <2>2, <2>3, GoesOnAlone
  <2>5. QED
    BY SMT, <1>1, <1>3, <1>4, <2>1, <2>2, <2>4, CallTakes
<1>8. QED
  BY <1>6, <1>7

LEMMA ExitDone ==
  ASSUME Inv, NEW p \in Procs, exit_done(p)
  PROVE  StepOK
<1>1. PICK o : /\ Alone(p, o) /\ o.op \notin {"born", "fork"} /\ Head(todo[p]) = o /\ Holds(todo[p], None, None)
               /\ o.x \in 0..NOFILE /\ \A k \in FDs : k < o.x => ofile[p][k] = None
  BY ExitCall DEF exit_done
<1>2. /\ alive' = alive \ {p} /\ ofile' = ofile /\ file' = file /\ Types /\ Then(p, <<>>) /\ o.x = NOFILE
      /\ OFiles(p) /\ SameFDs(p)
  BY <1>1, NoFD DEF exit_done, Inv
<1>3. \A k \in FDs : ofile'[p][k] = None
  BY SMT, <1>1, <1>2, FilesAssumption DEF FDs
<1>4. Step(p, <<>>)
  BY <1>1, <1>2, Nothing, GoesOnAlone
<1>5. Settles
  BY <1>1, <1>2, <1>4, Nothing, NoRefs, FilesSame
<1>6. Types'
  BY <1>2, <1>4, <1>5 DEF Types, Step, Turned, OFiles, Shape, Settles
<1>7. CallInv'
  BY <1>2, <1>4 DEF Inv, CallInv, Step, Turned, Shape
<1>8. SlotInv'
  BY <1>2, <1>3, <1>4, SlotKept DEF Inv
<1>9. QED
  BY <1>5, <1>6, <1>7, <1>8 DEF StepOK

(***************************************************************************)
(* pipe()                                                                  *)
(***************************************************************************)
\* The files pipe() has so far.
LEMMA PipeCall ==
  ASSUME Inv, NEW p \in Procs, Now(p, "pipe")
  PROVE  \E o : /\ Alone(p, o) /\ o.op = "pipe" /\ o.op \notin {"born", "fork"} /\ Head(todo[p]) = o
                /\ \/ o.x = <<>> /\ Holds(todo[p], None, None)
                   \/ \E f \in Files : o.x = <<f>> /\ Holds(todo[p], None, f)
                   \/ \E f, g \in Files : o.x = <<f, g>> /\ f # g /\ Holds(todo[p], g, f)
<1>1. PICK o : Alone(p, o) /\ o.op = "pipe"
  BY IsAlone DEF Closers
<1>2. o \in Ops /\ o.x \in PipeSeqs /\ todo[p] = <<o>> /\ Head(todo[p]) = o
  BY <1>1, OpsElim DEF Alone
<1>3. \A f \in Files : o.x # <<f, f>>
  BY <1>1 DEF Inv, CallInv, CallOK, Alone
<1>4. o.x = <<>> \/ (\E f \in Files : o.x = <<f>>) \/ \E f, g \in Files : o.x = <<f, g>>
  BY SMT, <1>2 DEF PipeSeqs
<1>5. QED
  BY SMT, <1>1, <1>2, <1>3, <1>4, Single

LEMMA PipeTakes ==
  ASSUME Inv, NEW p \in Procs, Now(p, "pipe"), Len(Head(todo[p]).x) < 2, NEW f \in Free, file' = filealloc(f),
         Then(p, <<Op("pipe", Append(Head(todo[p]).x, f))>>), UNCHANGED <<ofile, alive>>
  PROVE  StepOK
<1>1. PICK o : /\ Alone(p, o) /\ o.op \notin {"born", "fork"} /\ Head(todo[p]) = o
               /\ \/ o.x = <<>> /\ Holds(todo[p], None, None)
                  \/ \E a \in Files : o.x = <<a>> /\ Holds(todo[p], None, a)
                  \/ \E a, b \in Files : o.x = <<a, b>>
  BY ZenonT(40), PipeCall
<1>2. /\ f \in Files /\ References(f) = {} /\ file' = [file EXCEPT ![f].ref = file[f].ref + 1]
      /\ OFiles(p) /\ SameFDs(p)
  BY Allocs, NoFD DEF Inv
<1>3. CASE o.x = <<>> /\ Holds(todo[p], None, None)
  <2>1. Append(<<>>, f) = <<f>>
    BY SMT, <1>2
  <2>2. PICK t : t = <<Op("pipe", <<f>>)>> /\ Holds(t, None, f) /\ Shape(t, ofile'[p])
    BY <1>2, PipeCalls
  <2>3. Step(p, t)
    BY <1>1, <1>2, <1>3, <2>1, <2>2, GoesOnAlone
  <2>4. Goes(p, CallSlot(2), None, f)
    BY <1>2, <1>3, <2>2, <2>3, CallGoes
  <2>5. QED
    BY <1>2, <2>3, <2>4, Added, StepIsOK
<1>4. ASSUME NEW a \in Files, o.x = <<a>>, Holds(todo[p], None, a) PROVE StepOK
  <2>1. PICK s : s = Append(<<a>>, f)
    OBVIOUS
  <2>2. s \in Seq(Files) /\ Len(s) = 2 /\ s[1] = a /\ s[2] = f
    BY SMT, <1>2, <2>1
  <2>3. s = <<a, f>>
    BY SMT, <2>2
  <2>4. a # f
    <3>1. CallSlot(2) \in Slots /\ RefAt(p, CallSlot(2)) = a
      BY SMT, <1>4, Places DEF Holds
    <3>2. <<p, CallSlot(2)>> \in References(a)
      BY <3>1, InRefs
    <3>3. QED
      BY <1>2, <3>2
  <2>5. PICK t : t = <<Op("pipe", <<a, f>>)>> /\ Holds(t, f, a) /\ Shape(t, ofile'[p])
    BY <1>2, <2>4, PipeCalls
  <2>6. Step(p, t)
    BY <1>1, <1>2, <1>4, <2>1, <2>3, <2>5, GoesOnAlone
  <2>7. Goes(p, CallSlot(1), None, f)
    BY <1>2, <1>4, <2>5, <2>6, CallGoes
  <2>8. QED
    BY <1>2, <2>6, <2>7, Added, StepIsOK
<1>5. \A a, b \in Files : Len(<<a, b>>) = 2
  OBVIOUS
<1>6. QED
  BY SMT, <1>1, <1>3, <1>4, <1>5

LEMMA PipeFails ==
  ASSUME Inv, NEW p \in Procs, Now(p, "pipe"), Len(Head(todo[p]).x) < 2, UNCHANGED <<file, ofile, alive>>,
         Then(p, [k \in 1..Len(Head(todo[p]).x) |-> Op("fileclose", Head(todo[p]).x[k])])
  PROVE  StepOK
<1>1. PICK o : /\ Alone(p, o) /\ o.op \notin {"born", "fork"} /\ Head(todo[p]) = o
               /\ \/ o.x = <<>> /\ Holds(todo[p], None, None)
                  \/ \E a \in Files : o.x = <<a>> /\ Holds(todo[p], None, a)
                  \/ \E a, b \in Files : o.x = <<a, b>>
  BY ZenonT(40), PipeCall
<1>2. OFiles(p) /\ SameFDs(p)
  BY NoFD DEF Inv
<1>3. CASE o.x = <<>> /\ Holds(todo[p], None, None)
  <2>1. [k \in 1..Len(<<>>) |-> Op("fileclose", <<>>[k])] = <<>>
    BY SMT
  <2>2. Step(p, <<>>)
    BY <1>1, <1>2, <1>3, <2>1, Nothing, GoesOnAlone
  <2>3. QED
    BY <1>2, <1>3, <2>2, Nothing, Quiet
<1>4. ASSUME NEW f \in Files, o.x = <<f>>, Holds(todo[p], None, f) PROVE StepOK
  <2>1. PICK ops : ops = [k \in 1..Len(<<f>>) |-> Op("fileclose", <<f>>[k])]
    BY ZenonT(40)
  <2>2. Len(<<f>>) = 1 /\ <<f>>[1] = f
    OBVIOUS
  <2>3. ops = [k \in 1..1 |-> Op("fileclose", f)]
    BY SMT, <2>1, <2>2
  <2>4. ops = <<Op("fileclose", f)>>
    BY SMT, <2>3
  <2>5. PICK t : t = <<Op("fileclose", f)>> /\ Holds(t, f, None) /\ Shape(t, ofile'[p])
    BY Calls
  <2>6. Step(p, t)
    BY <1>1, <1>2, <1>4, <2>1, <2>4, <2>5, GoesOnAlone
  <2>7. QED
    BY <1>2, <1>4, <2>5, <2>6, CallMoves
<1>5. \A a, b \in Files : Len(<<a, b>>) = 2
  OBVIOUS
<1>6. QED
  BY SMT, <1>1, <1>3, <1>4, <1>5

\* pipealloc() has its page: both files get their ends.
PipeEnds(f, g, pp) ==
  file' = [file EXCEPT ![f] = [@ EXCEPT !.type = "PIPE", !.obj = pp, !.end = "r"],
                       ![g] = [@ EXCEPT !.type = "PIPE", !.obj = pp, !.end = "w"]]

\* Their references may move, and nobody else's.
OnlyMoves(f, g) ==
  /\ \A h \in Files : h # f /\ h # g => References(h)' = References(h)
  /\ \A h \in {f, g} : Follows(file[h].ref, References(h), file[h].ref, References(h)')

LEMMA EndsSettle ==
  ASSUME Inv, NEW f \in Files, NEW g \in Files, f # g, NEW pp \in Pipes, PipeEnds(f, g, pp), OnlyMoves(f, g)
  PROVE  Settles
<1>1. file \in [Files -> FileRec] /\ file[f] \in FileRec /\ file[g] \in FileRec
  BY DEF Inv, Types
<1>2. PICK r \in FileRec : r = [file[f] EXCEPT !.type = "PIPE", !.obj = pp, !.end = "r"]
  BY <1>1 DEF FileRec, Ends
<1>3. PICK w \in FileRec : w = [file[g] EXCEPT !.type = "PIPE", !.obj = pp, !.end = "w"]
  BY <1>1 DEF FileRec, Ends
<1>4. r.ref = file[f].ref /\ KindOK(r)
  BY <1>1, <1>2 DEF FileRec, KindOK, Ends
<1>5. w.ref = file[g].ref /\ KindOK(w)
  BY <1>1, <1>3 DEF FileRec, KindOK, Ends
<1>6. file' = [[file EXCEPT ![f] = r] EXCEPT ![g] = w]
  BY <1>1, <1>2, <1>3 DEF PipeEnds
<1>7. /\ file' \in [Files -> FileRec] /\ file'[f] = r /\ file'[g] = w
      /\ \A h \in Files : h # f /\ h # g => file'[h] = file[h]
  BY <1>1, <1>6
<1>8. KindInv'
  BY <1>4, <1>5, <1>7 DEF Inv, KindInv
<1>9. FollowsAt(f) /\ FollowsAt(g)
  BY <1>4, <1>5, <1>7 DEF FollowsAt, OnlyMoves
<1>10. QED
  BY <1>7, <1>8, <1>9, Stays DEF Settles, OnlyMoves

\* The descriptors of both ends.
Given(p, a, f, b, g) ==
  /\ a \in FDs /\ b \in FDs /\ a # b /\ ofile[p][a] = None /\ ofile[p][b] = None
  /\ ofile'[p][a] = f /\ ofile'[p][b] = g /\ \A m \in FDs : m # a /\ m # b => ofile'[p][m] = ofile[p][m]

LEMMA PipeFDs ==
  ASSUME NEW p, Step(p, <<>>), NEW f \in Files, NEW g \in Files, f # g, Holds(todo[p], g, f),
         NEW a, NEW b, Given(p, a, f, b, g)
  PROVE  OnlyMoves(f, g)
<1> USE DEF Given
<1> DEFINE c == CallSlot(1)
           d == CallSlot(2)
<1>1. p \in Procs /\ Holds(todo'[p], None, None) /\ None \notin Files
  BY Nothing, FilesAssumption DEF Step, Turned
<1>2. /\ c \in Slots /\ d \in Slots /\ c # d /\ a \in Slots /\ b \in Slots /\ a \notin {c, d} /\ b \notin {c, d}
      /\ RefAt(p, c) = g /\ RefAt(p, d) = f /\ RefAt(p, c)' = None /\ RefAt(p, d)' = None
      /\ RefAt(p, a) = None /\ RefAt(p, b) = None /\ RefAt(p, a)' = f /\ RefAt(p, b)' = g
  <2>1. /\ c \in Slots /\ d \in Slots /\ c # d
        /\ RefAt(p, c) = g /\ RefAt(p, d) = f /\ RefAt(p, c)' = None /\ RefAt(p, d)' = None
    BY SMT, <1>1, Places DEF Holds
  <2>2. \A m \in {a, b} : /\ m \in Slots /\ m \notin {c, d}
                          /\ RefAt(p, m) = ofile[p][m] /\ RefAt(p, m)' = ofile'[p][m]
    BY SMT, <1>1, Places
  <2>3. QED
    BY <2>1, <2>2
<1>3. \A j \in 1..2 : CallSlot(j) \in {a, b, CallSlot(1), CallSlot(2)}
  BY SMT
<1>4. Rest(p, {a, b, c, d})
  BY <1>1, <1>3, Changed
<1> HIDE DEF c, d
<1>5. ASSUME NEW h \in Files, h # f, h # g PROVE References(h)' = References(h)
  <2>1. \A q \in Procs, j \in Slots : RefAt(q, j)' = h <=> RefAt(q, j) = h
    BY <1>1, <1>2, <1>4, <1>5 DEF Rest
  <2>2. QED
    BY <2>1 DEF References
<1>6. /\ References(f)' = (References(f) \ {<<p, d>>}) \cup {<<p, a>>}
      /\ <<p, d>> \in References(f) /\ <<p, a>> \notin References(f)
  BY SMT, <1>1, <1>2, <1>4 DEF References, Rest
<1>7. /\ References(g)' = (References(g) \ {<<p, c>>}) \cup {<<p, b>>}
      /\ <<p, c>> \in References(g) /\ <<p, b>> \notin References(g)
  BY SMTT(60), <1>1, <1>2, <1>4 DEF References, Rest
<1>8. QED
  BY <1>5, <1>6, <1>7 DEF Follows, OnlyMoves

LEMMA PipePage ==
  ASSUME Inv, NEW p \in Procs, pipe_page(p), FdallocOK
  PROVE  StepOK
<1>1. Types /\ Now(p, "pipe") /\ Len(Head(todo[p]).x) = 2 /\ alive' = alive
  BY ZenonT(40) DEF pipe_page, Inv
<1>2. PICK o, f, g : /\ Alone(p, o) /\ o.op \notin {"born", "fork"} /\ Head(todo[p]) = o
                     /\ f \in Files /\ g \in Files /\ o.x = <<f, g>> /\ f # g /\ Holds(todo[p], g, f)
  <2>1. Len(<<>>) # 2 /\ \A f \in Files : Len(<<f>>) # 2
    BY SMT
  <2>2. QED
    BY <1>1, <2>1, PipeCall
<1>3. ASSUME Then(p, Bad(<<f, g>>)), ofile' = ofile
      PROVE  \E t : Step(p, t) /\ SameFDs(p) /\ Holds(t, g, f)
  <2>1. OFiles(p) /\ SameFDs(p)
    BY <1>1, <1>3, NoFD
  <2>2. PICK t : t = <<Op("fileclose", f), Op("fileclose", g)>> /\ Holds(t, g, f) /\ Shape(t, ofile'[p])
    BY <1>2, Calls
  <2>3. Bad(<<f, g>>) = t
    BY <2>2 DEF Bad
  <2>4. QED
    BY ZenonT(40), <1>2, <1>3, <2>1, <2>2, <2>3, GoesOnAlone
<1>4. CASE Then(p, Bad(<<f, g>>)) /\ UNCHANGED <<file, ofile>>
  BY <1>1, <1>2, <1>3, <1>4, Quiet
<1>5. ASSUME NEW pp \in Pipes, PipeEnds(f, g, pp), Then(p, Bad(<<f, g>>)), ofile' = ofile PROVE StepOK
  <2>1. PICK t : Step(p, t) /\ SameFDs(p) /\ Holds(t, g, f)
    BY <1>3, <1>5
  <2>2. \A h : References(h)' = References(h)
    BY <1>2, <2>1, NoRefs
  <2>3. Settles
    BY <1>2, <1>5, <2>2, EndsSettle DEF Follows, OnlyMoves
  <2>4. QED
    BY <1>1, <2>1, <2>3, StepIsOK
<1>6. ASSUME NEW pp \in Pipes, PipeEnds(f, g, pp), NEW a \in FDs, NEW b \in FDs, a # b,
             ofile[p][a] = None, ofile[p][b] = None, ofile' = [ofile EXCEPT ![p][a] = f, ![p][b] = g], Then(p, <<>>)
      PROVE  StepOK
  <2>1. ofile \in [Procs -> [FDs -> Files \cup {None}]]
    BY <1>1 DEF Types
  <2>2. PICK u \in [FDs -> Files \cup {None}] : u = [[ofile[p] EXCEPT ![a] = f] EXCEPT ![b] = g]
    BY <1>2, <2>1
  <2>3. u[a] = f /\ u[b] = g /\ \A m \in FDs : m # a /\ m # b => u[m] = ofile[p][m]
    BY <1>6, <2>1, <2>2
  <2>4. ofile' = [ofile EXCEPT ![p] = u]
    BY <1>6, <2>1, <2>2
  <2>5. OFiles(p) /\ ofile'[p] = u
    BY <2>1, <2>4 DEF OFiles
  <2>6. Step(p, <<>>)
    BY <1>2, <1>6, <2>5, Nothing, GoesOnAlone
  <2>7. Given(p, a, f, b, g)
    BY <1>6, <2>3, <2>5 DEF Given
  <2>8. OnlyMoves(f, g)
    BY <1>2, <1>6, <2>6, <2>7, PipeFDs
  <2>9. Settles
    BY <1>2, <1>6, <2>8, EndsSettle
  <2>10. QED
    BY <1>1, <2>6, <2>9, StepIsOK
<1>7. ASSUME ~(Cardinality(FreeFDs(p)) < 2)
      PROVE  LET a == fdalloc(FreeFDs(p))
                 b == fdalloc(FreeFDs(p) \ {a})
             IN  a \in FDs /\ b \in FDs /\ a # b /\ ofile[p][a] = None /\ ofile[p][b] = None
  BY <1>7 DEF FdallocOK, FreeFDs
<1>8. CASE \E pp \in Pipes : /\ PipeEnds(f, g, pp)
                             /\ IF Cardinality(FreeFDs(p)) < 2
                                THEN ofile' = ofile /\ Then(p, Bad(<<f, g>>))
                                ELSE LET a == fdalloc(FreeFDs(p))
                                         b == fdalloc(FreeFDs(p) \ {a})
                                     IN  ofile' = [ofile EXCEPT ![p][a] = f, ![p][b] = g] /\ Then(p, <<>>)
  BY <1>5, <1>6, <1>7, <1>8, ZenonT(40)
<1>9. QED
  <2>1. PICK fs : fs = Head(todo[p]).x /\ fs = <<f, g>> /\ fs[1] = f /\ fs[2] = g
    BY SMT, <1>2
  <2>2. \/ Then(p, Bad(fs)) /\ UNCHANGED <<file, ofile>>
        \/ \E pp \in Pipes : /\ PipeEnds(fs[1], fs[2], pp)
                             /\ IF Cardinality(FreeFDs(p)) < 2
                                THEN ofile' = ofile /\ Then(p, Bad(fs))
                                ELSE LET a == fdalloc(FreeFDs(p))
                                         b == fdalloc(FreeFDs(p) \ {a})
                                     IN  ofile' = [ofile EXCEPT ![p][a] = fs[1], ![p][b] = fs[2]] /\ Then(p, <<>>)
    BY <2>1, ZenonT(40) DEF pipe_page, PipeEnds
  <2>3. QED
    BY ZenonT(40), <1>4, <1>8, <2>1, <2>2

(***************************************************************************)
(* fork()                                                                  *)
(***************************************************************************)
\* p forks c: only their calls and c's descriptors change.
Forks(p, c) ==
  /\ p \in Procs /\ c \in Procs /\ p # c /\ p \in alive /\ c \notin alive
  /\ todo' \in [Procs -> Seq(Ops)] /\ ofile' \in [Procs -> [FDs -> Files \cup {None}]]
  /\ \A q \in Procs : q # p /\ q # c => todo'[q] = todo[q]
  /\ \A q \in Procs : q # c => ofile'[q] = ofile[q]
  /\ \A q \in Procs : Forking(q, c) => q = p
  /\ \A q \in {p, c} : Holds(todo[q], None, None) /\ Holds(todo'[q], None, None)

\* The child is on its way.
Way(p, c) ==
  /\ alive' = alive /\ Len(todo'[p]) = 1 /\ todo'[p] # <<>> /\ todo'[p][1].op = "fork" /\ todo'[p][1].x.c = c
  /\ \A k \in FDs : k >= todo'[p][1].x.fd => ofile'[c][k] = None
  /\ Len(todo'[c]) = 1 /\ todo'[c] # <<>> /\ todo'[c][1].op = "born"

\* The child runs.
Runs(p, c) == alive' = alive \cup {c} /\ todo'[p] = <<>> /\ todo'[c] = <<>>

LEMMA ForkStep ==
  ASSUME Inv, NEW p, NEW c, Forks(p, c), Way(p, c) \/ Runs(p, c), Settles
  PROVE  StepOK
<1>a. p \in Procs /\ c \in Procs /\ p # c /\ p \in alive /\ c \notin alive /\ alive \subseteq Procs
  BY DEF Forks, Inv, Types
<1>1. /\ Len(todo'[p]) \in {0, 1} /\ (todo'[p] # <<>> => todo'[p][1].op = "fork" /\ todo'[p][1].x.c = c) /\ p \in alive'
      /\ Len(todo'[c]) \in {0, 1} /\ (todo'[c] # <<>> => todo'[c][1].op = "born" /\ c \notin alive')
      /\ (todo'[c] = <<>> => c \in alive') /\ alive' \subseteq Procs /\ Len(todo'[p]) <= 2 /\ Len(todo'[c]) <= 2
      /\ \A q \in Procs : q # c => (q \in alive' <=> q \in alive)
  <2>1. CASE Way(p, c)
    BY SMT, <1>a, <2>1 DEF Way
  <2>2. CASE Runs(p, c)
    <3>1. Len(todo'[p]) = 0 /\ Len(todo'[c]) = 0
      BY <2>2 DEF Runs
    <3>2. QED
      BY SMT, <1>a, <2>2, <3>1 DEF Runs
  <2>3. QED
    BY <2>1, <2>2
<1> USE DEF Forks
<1>2. Types'
  <2>1. ASSUME NEW q \in Procs PROVE Len(todo'[q]) <= 2
    <3>1. CASE q # p /\ q # c
      BY <3>1 DEF Inv, Types
    <3>2. QED
      BY <1>1, <3>1
  <2>2. QED
    BY ZenonT(40), <1>1, <2>1 DEF Types, Settles
<1>3. CallInv'
  <2>1. ASSUME NEW t, Len(t) \in {0, 1}, t # <<>> => t[1].op \in {"fork", "born"} PROVE CallOK(t)
    BY SMT, <2>1 DEF CallOK
  <2>2. CallOK(todo'[p]) /\ CallOK(todo'[c])
    BY SMT, <1>1, <2>1
  <2>3. QED
    BY ZenonT(40), <1>1, <2>2 DEF Inv, CallInv
<1>4. SlotInv'
  <2>1. \A q \in Procs : q \notin alive' /\ todo'[q] = <<>> => \A k \in FDs : ofile'[q][k] = None
    <3>1. ASSUME NEW q \in Procs, q \notin alive', todo'[q] = <<>>
          PROVE  q \notin alive /\ todo[q] = <<>> /\ ofile'[q] = ofile[q]
      BY <1>1, <3>1
    <3>2. QED
      BY SMTT(60), <3>1 DEF Inv, SlotInv
  <2>2. ASSUME NEW q \in Procs PROVE NoneBelow(ofile'[q], todo'[q])
    <3>1. CASE q # p /\ q # c
      BY ZenonT(40), <3>1 DEF Inv, SlotInv
    <3>2. CASE q = p \/ q = c
      BY SMTT(60), <1>1, <3>2 DEF NoneBelow, Way, Runs
    <3>3. QED
      BY <3>1, <3>2
  <2>3. \A q, d \in Procs : Forking(q, d)' => (q = p /\ d = c) \/ (q # p /\ q # c /\ Forking(q, d))
    BY ZenonT(40), <1>1 DEF Forking
  <2>4. ASSUME NEW q \in Procs, NEW d \in Procs, q # p, q # c, Forking(q, d)' PROVE ChildOf(q, d)'
    <3>1. Forking(q, d) /\ ChildOf(q, d)
      BY ZenonT(40), <2>3, <2>4 DEF Inv, SlotInv
    <3>2. d # c /\ d # p
      BY <2>4, <3>1 DEF ChildOf
    <3>3. todo'[q] = todo[q] /\ todo'[d] = todo[d] /\ ofile'[d] = ofile[d] /\ d \notin alive'
      BY ZenonT(40), <1>1, <2>4, <3>1, <3>2 DEF ChildOf
    <3>4. \A r \in Procs : Forking(r, d)' => r = q
      BY ZenonT(40), <2>3, <3>1, <3>2 DEF ChildOf
    <3>5. QED
      BY ZenonT(40), <3>1, <3>3, <3>4 DEF ChildOf
  <2>5. ASSUME Forking(p, c)' PROVE ChildOf(p, c)'
    <3>1. Way(p, c)
      BY <2>5 DEF Runs, Forking
    <3>2. \A r \in Procs : Forking(r, c)' => r = p
      BY <2>3
    <3>3. QED
      BY <1>1, <3>1, <3>2 DEF Way, ChildOf
  <2>6. QED
    BY ZenonT(40), <2>1, <2>2, <2>3, <2>4, <2>5 DEF SlotInv
<1>5. QED
  BY <1>2, <1>3, <1>4 DEF StepOK

\* What the places of a fork become.
LEMMA ForkRest ==
  ASSUME NEW p, NEW c, Forks(p, c), NEW S, \A k \in FDs : k \notin S => ofile'[c][k] = ofile[c][k]
  PROVE  Rest(c, S)
<1> USE DEF Forks
<1>1. ASSUME NEW q \in Procs, NEW k \in Slots, q # c \/ k \notin S PROVE RefAt(q, k)' = RefAt(q, k)
  <2>1. \A j \in 1..2 : Promised(todo'[q], j) = Promised(todo[q], j)
    <3>1. CASE q # p /\ q # c
      BY <3>1
    <3>2. CASE q = p \/ q = c
      BY SMT, <3>2 DEF Holds
    <3>3. QED
      BY <3>1, <3>2
  <2>2. k \in FDs => ofile'[q][k] = ofile[q][k]
    BY <1>1
  <2>3. CASE k \in FDs
    BY SMT, <2>2, <2>3, Places
  <2>4. CASE k \notin FDs
    <3>1. PICK j \in 1..2 : k = CallSlot(j)
      BY <2>4, Places
    <3>2. QED
      BY SMT, <2>1, <3>1, Places
  <2>5. QED
    BY <2>3, <2>4
<1>2. QED
  BY <1>1 DEF Rest

LEMMA ForkSame ==
  ASSUME Inv, NEW p, NEW c, Forks(p, c), ofile' = ofile, file' = file
  PROVE  Settles
<1>1. Rest(c, {}) /\ c \in Procs
  BY ZenonT(40), ForkRest DEF Forks
<1>2. \A g : References(g)' = References(g)
  BY <1>1, RefSame
<1>3. QED
  BY <1>2, FilesSame

LEMMA ForkStarts ==
  ASSUME Inv, NEW p \in Procs, NEW c \in Procs, fork(p, c)
  PROVE  StepOK
<1>1. /\ Types /\ p \in alive /\ todo[p] = <<>> /\ c \notin alive /\ todo[c] = <<>> /\ p # c
      /\ UNCHANGED <<file, ofile, alive>>
  BY Idle DEF fork
<1>2. PICK o \in Ops, b \in Ops : /\ o = Op("fork", [c |-> c, fd |-> 0]) /\ o.op = "fork" /\ o.x = [c |-> c, fd |-> 0]
                                  /\ b = Op("born", c) /\ b.op = "born"
  BY SMT, OpsIntro, OpIs, FilesAssumption
<1>3. o.x.c = c /\ o.x.fd = 0
  BY SMT, <1>2
<1>4. /\ <<o>> \in Seq(Ops) /\ Len(<<o>>) = 1 /\ <<o>>[1] = o /\ <<o>> # <<>>
      /\ <<b>> \in Seq(Ops) /\ Len(<<b>>) = 1 /\ <<b>>[1] = b /\ <<b>> # <<>>
      /\ Holds(<<o>>, None, None) /\ Holds(<<b>>, None, None) /\ Holds(<<>>, None, None)
  BY <1>2, Nothing, Single DEF Drops
<1>5. /\ todo' \in [Procs -> Seq(Ops)] /\ todo'[p] = <<o>> /\ todo'[c] = <<b>>
      /\ \A q \in Procs : q # p /\ q # c => todo'[q] = todo[q]
  <2>1. todo' = [todo EXCEPT ![p] = <<o>>, ![c] = <<b>>] /\ todo \in [Procs -> Seq(Ops)]
    BY <1>1, <1>2 DEF fork, Types
  <2>2. QED
    BY ZenonT(40), <1>1, <1>4, <2>1
<1>6. \A q \in Procs : ~Forking(q, c)
  BY <1>1 DEF Inv, SlotInv, ChildOf
<1>7. Forks(p, c)
  BY ZenonT(40), <1>1, <1>4, <1>5, <1>6 DEF Forks, Types
<1>8. Way(p, c)
  <2>1. \A k \in FDs : ofile[c][k] = None
    BY <1>1 DEF Inv, SlotInv
  <2>2. QED
    BY <1>1, <1>2, <1>3, <1>4, <1>5, <2>1 DEF Way
<1>9. QED
  BY <1>1, <1>7, <1>8, ForkSame, ForkStep

\* p in the middle of fork(), with o to do next.
Copying(p, o, c, fd) ==
  /\ o.op = "fork" /\ o.x.c = c /\ o.x.fd = fd /\ c \in Procs /\ fd \in 0..NOFILE /\ Alone(p, o) /\ Head(todo[p]) = o
  /\ todo[p] = <<o>> /\ p # c /\ p \in alive /\ c \notin alive /\ (\A q \in Procs : Forking(q, c) => q = p)
  /\ \A k \in FDs : k >= fd => ofile[c][k] = None
  /\ Len(todo[c]) = 1 /\ todo[c] # <<>> /\ todo[c][1].op = "born"
  /\ Holds(todo[p], None, None) /\ Holds(todo[c], None, None)

LEMMA ForkCall ==
  ASSUME Inv, NEW p \in Procs, Now(p, "fork")
  PROVE  \E o, c, fd : Copying(p, o, c, fd)
<1>1. PICK o : Alone(p, o) /\ o.op = "fork"
  BY IsAlone DEF Closers
<1>2. o \in Ops /\ todo[p] = <<o>> /\ todo[p][1] = o /\ Head(todo[p]) = o /\ todo[p] # <<>> /\ p \in alive
  BY <1>1 DEF Alone
<1>3. PICK c \in Procs, fd \in 0..NOFILE : o.x.c = c /\ o.x.fd = fd
  BY <1>1, <1>2, OpsElim
<1>4. Forking(p, c)
  BY <1>1, <1>2, <1>3 DEF Forking
<1>5. /\ c \notin alive /\ todo[c] # <<>> /\ (\A k \in FDs : k >= fd => ofile[c][k] = None)
      /\ \A q \in Procs : Forking(q, c) => q = p
  BY SMT, <1>2, <1>3, <1>4 DEF Inv, SlotInv, ChildOf
<1>6. todo[c][1].op = "born"
  BY <1>5 DEF Inv, CallInv
<1>7. Now(c, "born")
  BY <1>5, <1>6, Tuples DEF Now, Inv, Types
<1>8. PICK b : Alone(c, b) /\ b.op = "born"
  BY <1>7, IsAlone DEF Closers
<1>9. b \in Ops /\ todo[c] = <<b>>
  BY <1>8 DEF Alone
<1>10. Len(todo[c]) = 1 /\ Holds(todo[p], None, None) /\ Holds(todo[c], None, None)
  BY <1>1, <1>2, <1>8, <1>9, Single DEF Drops
<1>11. p # c
  BY <1>2, <1>5
<1>12. QED
  BY <1>1, <1>2, <1>3, <1>5, <1>6, <1>10, <1>11 DEF Copying

LEMMA ForkFile ==
  ASSUME Inv, NEW p \in Procs, fork_file(p)
  PROVE  StepOK
<1>1. PICK o, c, fd : Copying(p, o, c, fd)
  BY ForkCall DEF fork_file
<1>2. c \in Procs /\ fd \in FDs /\ fd + 1 \in 0..NOFILE
  BY SMT, <1>1, FilesAssumption DEF fork_file, FDs, Copying
<1>3. PICK f \in Files \cup {None} : f = ofile[p][fd]
  BY <1>2 DEF Inv, Types
<1>4. /\ Types /\ ofile' = [ofile EXCEPT ![c][fd] = f] /\ alive' = alive
      /\ file' = (IF f = None THEN file ELSE [file EXCEPT ![f].ref = file[f].ref + 1])
      /\ Then(p, <<Op("fork", [c |-> c, fd |-> fd + 1])>>)
  BY ZenonT(40), <1>1, <1>3 DEF fork_file, filedup, Ref, Inv, Copying
<1>5. PICK n \in Ops : /\ n = Op("fork", [c |-> c, fd |-> fd + 1]) /\ n.op = "fork"
                       /\ n.x = [c |-> c, fd |-> fd + 1]
  BY SMT, <1>2, OpsIntro, OpIs
<1>6. n.x.c = c /\ n.x.fd = fd + 1
  BY SMT, <1>5
<1>7. <<n>> \in Seq(Ops) /\ Len(<<n>>) = 1 /\ <<n>>[1] = n /\ <<n>> # <<>> /\ Holds(<<n>>, None, None)
  BY <1>5, Single DEF Drops
<1>8. Turned(p, <<n>>)
  BY ZenonT(40), <1>1, <1>4, <1>5, <1>7 DEF Copying, Alone
<1>9. todo' \in [Procs -> Seq(Ops)] /\ todo'[p] = <<n>> /\ \A q \in Procs : q # p => todo'[q] = todo[q]
  BY <1>8 DEF Turned
<1>10. OFiles(c) /\ ofile'[c][fd] = f /\ SameButFD(c, fd)
  BY <1>2, <1>4, OneFD
<1>11. Forks(p, c)
  <2>1. /\ p # c /\ p \in alive /\ c \notin alive /\ \A q \in Procs : Forking(q, c) => q = p
        /\ Holds(todo[p], None, None) /\ Holds(todo[c], None, None)
    BY <1>1 DEF Copying
  <2>2. ofile' \in [Procs -> [FDs -> Files \cup {None}]] /\ \A q \in Procs : q # c => ofile'[q] = ofile[q]
    BY <1>10 DEF OFiles
  <2>3. QED
    BY ZenonT(40), <1>2, <1>7, <1>9, <2>1, <2>2 DEF Forks
<1>12. Way(p, c)
  <2>1. \A k \in FDs : k >= fd + 1 => k >= fd /\ k # fd
    BY SMT, <1>2, FilesAssumption DEF FDs
  <2>2. QED
    BY SMTT(40), <1>1, <1>2, <1>4, <1>5, <1>6, <1>7, <1>9, <1>10, <2>1 DEF Way, Copying, SameButFD
<1>13. ofile[c][fd] = None
  BY SMT, <1>1, <1>2, FilesAssumption DEF FDs, Copying
<1>14. Goes(c, fd, None, f)
  <2>1. Rest(c, {fd})
    BY <1>10, <1>11, ForkRest DEF SameButFD
  <2>2. QED
    BY <1>2, <1>10, <1>13, <2>1, Places DEF Goes
<1>15. Settles
  <2>1. CASE f = None
    <3>1. \A g : References(g)' = References(g)
      BY <1>2, <1>14, <2>1, RefSame
    <3>2. QED
      BY <1>4, <2>1, <3>1, FilesSame
  <2>2. CASE f # None
    <3>1. f \in Files /\ file' = [file EXCEPT ![f].ref = file[f].ref + 1]
      BY <1>4, <2>2
    <3>2. QED
      BY ZenonT(40), <1>14, <3>1, Added
  <2>3. QED
    BY <2>1, <2>2
<1>16. QED
  BY <1>11, <1>12, <1>15, ForkStep

LEMMA ForkDone ==
  ASSUME Inv, NEW p \in Procs, fork_done(p)
  PROVE  StepOK
<1>1. PICK o, c, fd : Copying(p, o, c, fd)
  BY ForkCall DEF fork_done
<1>2. o \in Ops /\ todo[p] = <<o>> /\ Head(todo[p]) = o /\ o.x.c = c /\ c \in Procs
  BY <1>1 DEF Copying, Alone
<1>3. Tail(todo[p]) = <<>>
  BY SMT, <1>2
<1>4. /\ Types /\ todo' = [todo EXCEPT ![p] = <<>>, ![c] = <<>>] /\ alive' = alive \cup {c} /\ ofile' = ofile /\ file' = file
  BY <1>2, <1>3 DEF fork_done, Inv
<1>5. /\ todo' \in [Procs -> Seq(Ops)] /\ todo'[p] = <<>> /\ todo'[c] = <<>>
      /\ \A q \in Procs : q # p /\ q # c => todo'[q] = todo[q]
  BY <1>2, <1>4, Nothing DEF Types, Shape
<1>6. Forks(p, c)
  BY ZenonT(40), <1>1, <1>2, <1>4, <1>5, Nothing DEF Forks, Types, Copying
<1>7. Runs(p, c)
  BY <1>4, <1>5 DEF Runs
<1>8. QED
  BY <1>4, <1>6, <1>7, ForkSame, ForkStep

(***************************************************************************)
(* fileclose()                                                             *)
(***************************************************************************)
\* A close is done, or becomes the close of the object.
LEMMA GoesOn ==
  ASSUME Inv, NEW p \in Procs, NEW s \in Closers, Now(p, s), NEW ops, Then(p, ops), ofile' = ofile,
         ops = <<>> \/ \E m \in Ops : ops = <<m>> /\ m.op \in {"pipeclose", "iput"}
  PROVE  \E t, k : Step(p, t) /\ Goes(p, k, Drops(Head(todo[p])), None)
<1>1. PICK o \in Ops : /\ o.op = s /\ Head(todo[p]) = o /\ todo[p][1] = o /\ todo[p] # <<>> /\ (s # "born" => p \in alive)
                       /\ \/ todo[p] = <<o>>
                          \/ \E n \in Ops : todo[p] = <<o, n>> /\ n.op \in Later
  BY SMT, Busy DEF Inv
<1>2. s \notin {"fork", "pipe", "born"}
  BY DEF Closers
<1>3. Types /\ OFiles(p) /\ SameFDs(p)
  BY NoFD DEF Inv
<1>4. ops \in Seq(Ops)
  BY ZenonT(40), Nothing, Single
<1>5. ASSUME NEW t, Turned(p, t), Shape(t, ofile'[p]) PROVE Step(p, t)
  BY <1>1, <1>2, <1>3, <1>5 DEF Step
<1>6. ASSUME NEW m \in Ops, m.op \in {"pipeclose", "iput"}
      PROVE  m.op \in Closers /\ Drops(m) = None /\ m.op \notin {"pipe", "born", "fork", "exit"}
  BY <1>6 DEF Closers, Drops
<1>7. CASE todo[p] = <<o>>
  <2>1. Turned(p, ops)
    BY <1>3, <1>4, <1>7, Nexts
  <2>2. Holds(todo[p], Drops(o), None)
    BY <1>1, <1>2, <1>7, Single
  <2>3. Holds(ops, None, None) /\ Shape(ops, ofile'[p])
    <3>1. CASE ops = <<>>
      BY <3>1, Nothing
    <3>2. ASSUME NEW m \in Ops, ops = <<m>>, m.op \in {"pipeclose", "iput"}
          PROVE  Holds(ops, None, None) /\ Shape(ops, ofile'[p])
      BY <1>6, <3>2, Single, SingleOK
    <3>3. QED
      BY <3>1, <3>2
  <2>4. Step(p, ops)
    BY <1>5, <2>1, <2>3
  <2>5. Goes(p, CallSlot(1), Drops(o), None)
    BY ZenonT(40), <1>3, <2>2, <2>3, <2>4, CallGoes
  <2>6. QED
    BY <1>1, <2>4, <2>5
<1>8. ASSUME NEW n \in Ops, todo[p] = <<o, n>>, n.op \in Later
      PROVE  \E t : Step(p, t) /\ Goes(p, CallSlot(2), Drops(o), None)
  <2>1. Holds(todo[p], Drops(n), Drops(o))
    BY SMT, <1>1, <1>2, <1>8, Pair
  <2>2. n.op \notin {"pipe", "born", "fork"}
    BY <1>8 DEF Later
  <2>3. n.op = "exit" => \A k \in FDs : k < n.x => ofile'[p][k] = None
    <3>1. 2 \in 1..Len(todo[p]) /\ todo[p][2] = n
      BY SMT, <1>8, Pair
    <3>2. NoneBelow(ofile[p], todo[p])
      BY DEF Inv, SlotInv
    <3>3. QED
      BY <3>1, <3>2 DEF NoneBelow
  <2>4. ASSUME NEW t, Turned(p, t), Shape(t, ofile'[p]), Holds(t, Drops(n), None)
        PROVE  Step(p, t) /\ Goes(p, CallSlot(2), Drops(o), None)
    <3>1. Step(p, t)
      BY <1>5, <2>4
    <3>2. QED
      BY ZenonT(40), <1>3, <2>1, <2>4, <3>1, CallGoes
  <2>5. CASE ops = <<>>
    <3>1. Turned(p, <<n>>)
      BY ZenonT(40), <1>3, <1>4, <1>8, <2>5, Nexts
    <3>2. Holds(<<n>>, Drops(n), None)
      BY <2>2, Single
    <3>3. Shape(<<n>>, ofile'[p])
      BY <2>2, <2>3, SingleOK
    <3>4. QED
      BY <2>4, <3>1, <3>2, <3>3
  <2>6. ASSUME NEW m \in Ops, ops = <<m>>, m.op \in {"pipeclose", "iput"}
        PROVE  \E t : Step(p, t) /\ Goes(p, CallSlot(2), Drops(o), None)
    <3>1. Turned(p, <<m, n>>)
      BY <1>3, <1>4, <1>8, <2>6, Nexts
    <3>2. Holds(<<m, n>>, Drops(n), None)
      BY SMT, <1>6, <2>6, Pair
    <3>3. Shape(<<m, n>>, ofile'[p])
      BY <1>6, <1>8, <2>3, <2>6, PairOK
    <3>4. QED
      BY <2>4, <3>1, <3>2, <3>3
  <2>7. QED
    BY <2>5, <2>6
<1>9. QED
  BY <1>1, <1>7, <1>8

LEMMA FileClose ==
  ASSUME Inv, NEW p \in Procs, fileclose(p)
  PROVE  StepOK
<1>1. Now(p, "fileclose") /\ "fileclose" \in Closers /\ ofile' = ofile /\ alive' = alive
  BY DEF fileclose, Closers
<1>2. PICK f \in Files : f = Head(todo[p]).x /\ Drops(Head(todo[p])) = f
  <2>1. PICK o \in Ops : o.op = "fileclose" /\ Head(todo[p]) = o
    BY SMT, <1>1, Busy DEF Inv
  <2>2. QED
    BY <2>1, OpsElim DEF Drops
<1>3. PICK ops : Then(p, ops) /\ (ops = <<>> \/ \E m \in Ops : ops = <<m>> /\ m.op \in {"pipeclose", "iput"})
  <2>1. KindOK(file[f]) /\ file[f].type \in {"NONE", "PIPE", "INODE"}
    BY DEF Inv, KindInv, Types, FileRec
  <2>2. CASE ~Last(file[f].ref)
    BY <1>2, <2>2 DEF fileclose
  <2>3. CASE Last(file[f].ref) /\ file[f].type = "NONE"
    <3>1. Then(p, <<>>)
      BY <1>2, <2>3 DEF fileclose
    <3>2. QED
      BY <3>1
  <2>4. CASE Last(file[f].ref) /\ file[f].type = "PIPE"
    <3>1. Then(p, <<Op("pipeclose", [pp |-> file[f].obj, end |-> file[f].end])>>)
      BY <1>2, <2>4 DEF fileclose
    <3>2. Op("pipeclose", [pp |-> file[f].obj, end |-> file[f].end]) \in Ops /\ Op("pipeclose", [pp |-> file[f].obj, end |-> file[f].end]).op = "pipeclose"
      BY <2>1, <2>4, OpsIntro, OpIs DEF KindOK
    <3>3. QED
      BY <3>1, <3>2
  <2>5. CASE Last(file[f].ref) /\ file[f].type = "INODE"
    <3>1. Then(p, <<Op("iput", file[f].obj)>>)
      BY <1>2, <2>5 DEF fileclose
    <3>2. Op("iput", file[f].obj) \in Ops /\ Op("iput", file[f].obj).op = "iput"
      BY <2>1, <2>5, OpsIntro, OpIs DEF KindOK
    <3>3. QED
      BY <3>1, <3>2
  <2>6. QED
    BY <2>1, <2>2, <2>3, <2>4, <2>5
<1>4. PICK t, k : Step(p, t) /\ Goes(p, k, f, None)
  BY ZenonT(40), <1>1, <1>2, <1>3, GoesOn
<1>5. IF ~Last(file[f].ref) THEN file' = [file EXCEPT ![f].ref = file[f].ref - 1]
                            ELSE file' = [file EXCEPT ![f] = Closed(file[f])]
  BY SMTT(60), <1>2 DEF fileclose
<1>6. Settles
  BY <1>4, <1>5, Dropped
<1>7. QED
  BY <1>1, <1>4, <1>6, StepIsOK

\* The close of the object.
LEMMA ObjectClose ==
  ASSUME Inv, NEW p \in Procs, pipeclose(p) \/ iput(p)
  PROVE  StepOK
<1>1. PICK s \in {"pipeclose", "iput"} : Now(p, s) /\ Then(p, <<>>) /\ UNCHANGED <<file, ofile, alive>>
  BY DEF pipeclose, iput
<1>2. s \in Closers
  BY DEF Closers
<1>3. Drops(Head(todo[p])) = None
  BY <1>1 DEF Now, Drops
<1>4. PICK t, k : Step(p, t) /\ Goes(p, k, None, None)
  BY <1>1, <1>2, <1>3, GoesOn
<1>5. \A g : References(g)' = References(g)
  BY <1>4, RefSame
<1>6. Settles
  BY <1>1, <1>5, FilesSame
<1>7. QED
  BY <1>1, <1>4, <1>6, StepIsOK

\* One step of anybody.
LEMMA NextOK ==
  ASSUME Inv, [Next]_vars, FdallocOK
  PROVE  StepOK
<1>1. CASE UNCHANGED vars
  <2>1. \A f : References(f)' = References(f)
    BY <1>1 DEF vars, References, RefAt
  <2>2. Types' /\ CallInv'
    BY <1>1 DEF vars, Inv, Types, CallInv
  <2>3. SlotInv'
    BY SMTT(60), <1>1 DEF vars, Inv, SlotInv, Forking, ChildOf
  <2>4. Settles
    BY <1>1, <2>1, FilesSame DEF vars
  <2>5. QED
    BY <2>2, <2>3, <2>4 DEF StepOK
<1>2. ASSUME NEW p \in Procs,
             \/ \E fd \in FDs : sys_dup(p, fd) \/ sys_close(p, fd)
             \/ \E i \in Inodes : sys_open(p, i)
             \/ sys_pipe(p) \/ exit(p) \/ \E c \in Procs : fork(p, c)
      PROVE  StepOK
  BY <1>2, Dup, Close, CallsStart, ForkStarts
<1>3. ASSUME NEW p \in Procs, pipe_file(p) PROVE StepOK
  BY <1>3, PipeFails, PipeTakes DEF pipe_file
<1>4. ASSUME NEW p \in Procs,
             \/ open_alloc(p) \/ open_done(p) \/ pipe_page(p) \/ fork_file(p) \/ fork_done(p)
             \/ exit_file(p) \/ exit_done(p) \/ fileclose(p) \/ pipeclose(p) \/ iput(p)
      PROVE  StepOK
  BY ZenonT(40), <1>4, OpenAllocs, OpenDone, PipePage, ForkFile, ForkDone, ExitFile, ExitDone, FileClose, ObjectClose
<1>5. QED
  BY <1>1, <1>2, <1>3, <1>4 DEF Next

\* The first state; its counts follow from its having no references.
LEMMA InitOK ==
  ASSUME Init
  PROVE  /\ Types /\ CallInv /\ SlotInv /\ KindInv
         /\ \A f \in Files : References(f) = {} /\ file[f].ref = 0
<1> USE DEF Init
<1>1. NoFile \in FileRec /\ NoFile.ref = 0 /\ NoFile.type = "NONE"
  BY DEF NoFile, FileRec
<1>2. <<>> \in Seq(Ops)
  BY SMT
<1>3. Types
  BY SMT, <1>1, <1>2, FilesAssumption DEF Types
<1>4. \A p \in Procs : todo[p] = <<>> /\ Len(todo[p]) = 0 /\ \A k \in FDs : ofile[p][k] = None
  BY <1>2
<1>5. CallInv
  BY SMTT(60), <1>4 DEF CallInv, CallOK
<1>6. SlotInv
  BY <1>4 DEF SlotInv, NoneBelow, Forking
<1>7. KindInv
  BY <1>1 DEF KindInv, KindOK
<1>8. ASSUME NEW f \in Files, NEW p \in Procs, NEW k \in Slots PROVE RefAt(p, k) # f
  <2>1. \A j \in 1..2 : Promised(todo[p], j) = None
    BY SMT, <1>4, Nothing DEF Holds
  <2>2. RefAt(p, k) = None
    BY SMT, <1>4, <2>1, Places
  <2>3. QED
    BY <2>2, FilesAssumption
<1>9. \A f \in Files : References(f) = {}
  BY <1>8 DEF References
<1>10. QED
  BY <1>1, <1>3, <1>5, <1>6, <1>7, <1>9

(***************************************************************************)
(* Counting.  The library's facts about finite sets come in only here.     *)
(***************************************************************************)
FST == INSTANCE FiniteSetTheorems

LEMMA SameCardinality ==
  ASSUME NEW S
  PROVE  (IsFiniteSet(S) <=> FST!IsFiniteSet(S)) /\ Cardinality(S) = FST!Cardinality(S)
BY DEF IsFiniteSet, FST!IsFiniteSet, Cardinality, FST!Cardinality

LEMMA FiniteSetFacts ==
  /\ IsFiniteSet({}) /\ Cardinality({}) = 0
  /\ \A S : IsFiniteSet(S) => Cardinality(S) \in Nat /\ (Cardinality(S) = 0 <=> S = {})
  /\ \A S, T : IsFiniteSet(T) /\ S \subseteq T => IsFiniteSet(S)
  /\ \A S, x : IsFiniteSet(S) /\ x \notin S => IsFiniteSet(S \cup {x}) /\ Cardinality(S \cup {x}) = Cardinality(S) + 1
  /\ \A S, x : IsFiniteSet(S) /\ x \in S => IsFiniteSet(S \ {x}) /\ Cardinality(S \ {x}) = Cardinality(S) - 1
<1>1. IsFiniteSet({}) /\ Cardinality({}) = 0
  BY SameCardinality, FST!FS_EmptySet
<1>2. ASSUME NEW S, IsFiniteSet(S) PROVE Cardinality(S) \in Nat /\ (Cardinality(S) = 0 <=> S = {})
  BY ZenonT(40), <1>2, SameCardinality, FST!FS_EmptySet, FST!FS_CardinalityType
<1>3. ASSUME NEW S, NEW T, IsFiniteSet(T), S \subseteq T PROVE IsFiniteSet(S)
  BY ZenonT(40), <1>3, SameCardinality, FST!FS_Subset
<1>4. ASSUME NEW S, NEW x, IsFiniteSet(S), x \notin S
      PROVE  IsFiniteSet(S \cup {x}) /\ Cardinality(S \cup {x}) = Cardinality(S) + 1
  BY SMTT(40), <1>4, SameCardinality, FST!FS_AddElement
<1>5. ASSUME NEW S, NEW x, IsFiniteSet(S), x \in S
      PROVE  IsFiniteSet(S \ {x}) /\ Cardinality(S \ {x}) = Cardinality(S) - 1
  BY <1>5, SameCardinality, FST!FS_RemoveElement
<1>6. QED
  BY ZenonT(40), <1>1, <1>2, <1>3, <1>4, <1>5

LEMMA RefsFinite == ASSUME NEW f PROVE IsFiniteSet(References(f))
<1>1. NOFILE + 1 \in Int /\ 0 \in Int
  BY SMT, FilesAssumption
<1>2. IsFiniteSet(Procs \X Slots)
  BY ZenonT(40), <1>1, FilesAssumption, SameCardinality, FST!FS_Interval, FST!FS_Product DEF Slots
<1>3. References(f) \subseteq Procs \X Slots
  BY DEF References
<1>4. QED
  BY <1>2, <1>3, FiniteSetFacts

\* A count that is right is not zero while there are references.
LEMMA CountsSay == RefCounts => Counted
BY RefsFinite, FiniteSetFacts DEF RefCounts, Counted

\* Counts that follow the references stay right.
LEMMA CountsFollow ==
  ASSUME RefCounts, Settles
  PROVE  RefCounts'
<1> SUFFICES ASSUME NEW f \in Files PROVE file'[f].ref = Cardinality(References(f)')
  BY DEF RefCounts
<1> DEFINE R == References(f)
           S == References(f)'
<1>1. Follows(file[f].ref, R, file'[f].ref, S) /\ file[f].ref = Cardinality(R) /\ IsFiniteSet(R)
  BY RefsFinite DEF RefCounts, Settles, FollowsAt
<1> HIDE DEF R, S
<1>2. CASE S = R /\ file'[f].ref = file[f].ref
  BY ZenonT(40), <1>1, <1>2 DEF S
<1>3. CASE \E x : x \notin R /\ S = R \cup {x} /\ file'[f].ref = file[f].ref + 1
  <2>1. PICK x : x \notin R /\ S = R \cup {x} /\ file'[f].ref = file[f].ref + 1
    BY <1>3
  <2>2. Cardinality(R \cup {x}) = Cardinality(R) + 1
    BY <1>1, <2>1, FiniteSetFacts
  <2>3. QED
    BY <1>1, <2>1, <2>2 DEF S
<1>4. CASE \E x \in R : S = R \ {x} /\ file'[f].ref = file[f].ref - 1
  <2>1. PICK x \in R : S = R \ {x} /\ file'[f].ref = file[f].ref - 1
    BY <1>4
  <2>2. Cardinality(R \ {x}) = Cardinality(R) - 1
    BY <1>1, <2>1, FiniteSetFacts
  <2>3. QED
    BY <1>1, <2>1, <2>2 DEF S
<1>5. CASE \E x, y : x \in R /\ y \notin R /\ S = (R \ {x}) \cup {y} /\ file'[f].ref = file[f].ref
  <2>1. PICK x, y : x \in R /\ y \notin R /\ S = (R \ {x}) \cup {y} /\ file'[f].ref = file[f].ref
    BY <1>5
  <2>2. IsFiniteSet(R \ {x}) /\ Cardinality(R \ {x}) = Cardinality(R) - 1 /\ y \notin R \ {x} /\ Cardinality(R) \in Nat
    BY ZenonT(40), <1>1, <2>1, FiniteSetFacts
  <2>3. Cardinality((R \ {x}) \cup {y}) = Cardinality(R \ {x}) + 1
    BY <2>2, FiniteSetFacts
  <2>4. \A n \in Nat : (n - 1) + 1 = n
    BY SMT
  <2>5. QED
    BY <1>1, <2>1, <2>2, <2>3, <2>4 DEF S
<1>6. QED
  BY ZenonT(40), <1>1, <1>2, <1>3, <1>4, <1>5 DEF Follows

LEMMA LeastFree ==
  ASSUME NEW S, S \subseteq FDs, S # {}
  PROVE  fdalloc(S) \in S
<1>1. FDs \subseteq Nat
  BY SMT, FilesAssumption DEF FDs
<1>2. PICK x \in S : \A y \in S : <<y, x>> \notin FST!OpToRel(<, Nat)
  BY <1>1, FST!WFMin, FST!NatLessThanWellFounded
<1>3. ASSUME NEW y \in S PROVE x <= y
  <2>1. x \in Nat /\ y \in Nat /\ <<y, x>> \in Nat \X Nat
    BY <1>1
  <2>2. ~(y < x)
    BY <1>2, <2>1 DEF FST!OpToRel
  <2>3. QED
    BY SMTT(40), <2>1, <2>2
<1>4. QED
  BY <1>3 DEF fdalloc

LEMMA TwoFree ==
  ASSUME NEW p, ~(Cardinality(FreeFDs(p)) < 2)
  PROVE  /\ fdalloc(FreeFDs(p)) \in FreeFDs(p)
         /\ fdalloc(FreeFDs(p) \ {fdalloc(FreeFDs(p))}) \in FreeFDs(p) \ {fdalloc(FreeFDs(p))}
<1> DEFINE S == FreeFDs(p)
           a == fdalloc(S)
<1>1. S \subseteq FDs /\ IsFiniteSet(S)
  <2>1. NOFILE - 1 \in Int /\ 0 \in Int
    BY SMT, FilesAssumption
  <2>2. IsFiniteSet(FDs)
    BY <2>1, SameCardinality, FST!FS_Interval DEF FDs
  <2>3. S \subseteq FDs
    BY DEF FreeFDs
  <2>4. QED
    BY <2>2, <2>3, FiniteSetFacts
<1>2. S # {}
  BY SMT, FiniteSetFacts
<1>3. a \in S
  BY <1>1, <1>2, LeastFree
<1>4. S \ {a} # {}
  <2>1. Cardinality(S \ {a}) = Cardinality(S) - 1 /\ Cardinality(S) \in Nat
    BY <1>1, <1>3, FiniteSetFacts
  <2>2. Cardinality(S \ {a}) # 0
    BY SMT, <2>1
  <2>3. QED
    BY <2>2, FiniteSetFacts
<1> HIDE DEF a
<1>5. fdalloc(S \ {a}) \in S \ {a}
  BY <1>1, <1>4, LeastFree
<1>6. QED
  BY <1>3, <1>5 DEF a

(***************************************************************************)
(* The invariant                                                           *)
(***************************************************************************)
LEMMA InitInv == Init => Inv /\ RefCounts
<1> SUFFICES ASSUME Init PROVE Inv /\ RefCounts
  OBVIOUS
<1>1. RefCounts
  BY InitOK, FiniteSetFacts DEF RefCounts
<1>2. QED
  BY <1>1, InitOK, CountsSay DEF Inv

LEMMA NextInv == Inv /\ RefCounts /\ [Next]_vars => (Inv /\ RefCounts)'
<1> SUFFICES ASSUME Inv, RefCounts, [Next]_vars PROVE (Inv /\ RefCounts)'
  OBVIOUS
<1>1. StepOK
  BY NextOK, LeastFree, TwoFree DEF FdallocOK
<1>2. RefCounts'
  BY <1>1, CountsFollow DEF StepOK
<1>3. Counted'
  BY <1>2, CountsSay, PTL
<1>4. QED
  BY <1>1, <1>2, <1>3 DEF StepOK, Settles, Inv

LEMMA Invariance == Spec => [](Inv /\ RefCounts)
BY InitInv, NextInv, PTL DEF Spec

(***************************************************************************)
(* Theorems                                                                *)
(***************************************************************************)
\* filedup(), filealloc() and fileclose() keep a file's count equal to the
\* references to it, in descriptors and in calls on their way: no file is
\* freed while one names it and none leaks, whatever dup(), open(), pipe(),
\* fork() and exit() do at the same time and wherever one of them fails.
THEOREM CountsExact == Spec => []RefCounts
BY Invariance, PTL

=============================================================================
