------------------------------- MODULE Files --------------------------------
(***************************************************************************)
(* The open files of file.c and the descriptors of sysfile.c: reference    *)
(* counts shared by processes that fork, dup, open, close and exit at the  *)
(* same time.  One action is one critical section of ftable.lock, p->lock, *)
(* kmem.lock or the inode's, with the work on the process's own descriptor *)
(* table next to it.  todo[p] is what p's system call still has to do.     *)
(***************************************************************************)
EXTENDS Integers, Sequences, FiniteSets

CONSTANTS Procs,
          InitProc,   \* the process that runs first
          NOFILE, Files, Inodes, Pipes,
          None        \* a null pointer

Ends == {"r", "w"}

ASSUME FilesAssumption ==
  /\ InitProc \in Procs /\ NOFILE \in Nat \ {0} /\ IsFiniteSet(Files) /\ IsFiniteSet(Procs)
  /\ None \notin Files \cup Inodes \cup Pipes \cup Ends

VARIABLES
  file,    \* ftable: ref, type, and the pipe end or inode it stands for
  ofile,   \* proc->ofile
  iref,    \* references to an in-memory inode held by files and by open()
  ends,    \* the open ends of each pipe; a pipe with none is a free page
  alive,   \* processes between fork() and the end of exit()
  todo

vars == <<file, ofile, iref, ends, alive, todo>>

FDs == 0..NOFILE-1
NoFile == [ref |-> 0, type |-> "NONE", obj |-> None, end |-> None]

Init ==
  /\ file = [f \in Files |-> NoFile]
  /\ ofile = [p \in Procs |-> [fd \in FDs |-> None]]
  /\ iref = [i \in Inodes |-> 0]
  /\ ends = [pp \in Pipes |-> {}]
  /\ alive = {InitProc}
  /\ todo = [p \in Procs |-> <<>>]

Free == {f \in Files : file[f].ref = 0}

\* A bug: the last close leaves the type in place.
Closed_stale(r) == [r EXCEPT !.ref = 0]

\* What fileclose() leaves of a file with no references.
Closed(r) == [r EXCEPT !.ref = 0, !.type = "NONE", !.obj = None, !.end = None]

Last(n) == n <= 1

\* filealloc(): any free file; the type is what fileclose() left there.
filealloc(f) == [file EXCEPT ![f].ref = 1]

\* A bug: the count is set rather than incremented.
Ref_one(n) == 2
Ref(n) == n + 1
filedup(f) == [file EXCEPT ![f].ref = Ref(@)]

FreeFDs(p) == {fd \in FDs : ofile[p][fd] = None}

\* fdalloc(): the lowest free descriptor.
fdalloc(S) == CHOOSE fd \in S : \A e \in S : fd <= e

User(p) == p \in alive /\ todo[p] = <<>>
Now(p, op) == todo[p] # <<>> /\ Head(todo[p]).op = op
Then(p, ops) == todo' = [todo EXCEPT ![p] = ops \o Tail(@)]
Start(p, ops) == todo' = [todo EXCEPT ![p] = ops]
Op(o, x) == [op |-> o, x |-> x]

(***************************************************************************)
(* System calls                                                            *)
(***************************************************************************)
\* fdalloc() then filedup(); with no free descriptor, -1.
sys_dup(p, fd) ==
  /\ User(p) /\ ofile[p][fd] # None /\ FreeFDs(p) # {}
  /\ ofile' = [ofile EXCEPT ![p][fdalloc(FreeFDs(p))] = ofile[p][fd]]
  /\ file' = filedup(ofile[p][fd])
  /\ UNCHANGED <<iref, ends, alive, todo>>

sys_close(p, fd) ==
  /\ User(p) /\ ofile[p][fd] # None
  /\ ofile' = [ofile EXCEPT ![p][fd] = None]
  /\ Start(p, <<Op("fileclose", ofile[p][fd])>>)
  /\ UNCHANGED <<file, iref, ends, alive>>

\* namei() or create() has found the inode and counted a reference to it.
sys_open(p, i) ==
  /\ User(p)
  /\ iref' = [iref EXCEPT ![i] = @ + 1]
  /\ Start(p, <<Op("open", i)>>)
  /\ UNCHANGED <<file, ofile, ends, alive>>

\* filealloc() and fdalloc(); what was obtained is given back on failure.
open_alloc(p) ==
  /\ Now(p, "open")
  /\ LET i == Head(todo[p]).x IN
     \/ /\ Free = {}
        /\ Then(p, <<Op("iput", i)>>)
        /\ UNCHANGED <<file, ofile>>
     \/ \E f \in Free :
          /\ file' = filealloc(f)
          /\ IF FreeFDs(p) = {}
             THEN ofile' = ofile /\ Then(p, <<Op("fileclose", f), Op("iput", i)>>)
             ELSE /\ ofile' = [ofile EXCEPT ![p][fdalloc(FreeFDs(p))] = f]
                  /\ Then(p, <<Op("opened", [f |-> f, i |-> i])>>)
  /\ UNCHANGED <<iref, ends, alive>>

\* After iunlock() and end_op(): the file becomes an inode's.
open_done(p) ==
  /\ Now(p, "opened")
  /\ LET x == Head(todo[p]).x IN
       file' = [file EXCEPT ![x.f].type = "INODE", ![x.f].obj = x.i]
  /\ Then(p, <<>>)
  /\ UNCHANGED <<ofile, iref, ends, alive>>

\* sys_pipe(): pipealloc() takes one file, then the other, then a page.
sys_pipe(p) ==
  /\ User(p)
  /\ Start(p, <<Op("pipe", <<>>)>>)
  /\ UNCHANGED <<file, ofile, iref, ends, alive>>

pipe_file(p) ==
  /\ Now(p, "pipe") /\ Len(Head(todo[p]).x) < 2
  /\ LET fs == Head(todo[p]).x IN
     \/ /\ Free = {} /\ file' = file
        /\ Then(p, [k \in 1..Len(fs) |-> Op("fileclose", fs[k])])
     \/ \E f \in Free : file' = filealloc(f) /\ Then(p, <<Op("pipe", Append(fs, f))>>)
  /\ UNCHANGED <<ofile, iref, ends, alive>>

\* bad: both files are closed.
Bad(fs) == <<Op("fileclose", fs[1]), Op("fileclose", fs[2])>>

\* kalloc(); both files get their end, both descriptors or none are made.
pipe_page(p) ==
  /\ Now(p, "pipe") /\ Len(Head(todo[p]).x) = 2
  /\ LET fs == Head(todo[p]).x
         pages == {pp \in Pipes : ends[pp] = {}} IN
     \/ /\ pages = {}
        /\ Then(p, Bad(fs))
        /\ UNCHANGED <<file, ofile, ends>>
     \/ \E pp \in pages :
          /\ ends' = [ends EXCEPT ![pp] = Ends]
          /\ file' = [file EXCEPT ![fs[1]] = [@ EXCEPT !.type = "PIPE", !.obj = pp, !.end = "r"],
                                  ![fs[2]] = [@ EXCEPT !.type = "PIPE", !.obj = pp, !.end = "w"]]
          /\ IF Cardinality(FreeFDs(p)) < 2
             THEN ofile' = ofile /\ Then(p, Bad(fs))
             ELSE LET fd0 == fdalloc(FreeFDs(p))
                      fd1 == fdalloc(FreeFDs(p) \ {fd0})
                  IN  /\ ofile' = [ofile EXCEPT ![p][fd0] = fs[1], ![p][fd1] = fs[2]]
                      /\ Then(p, <<>>)
  /\ UNCHANGED <<iref, alive>>

\* fork(): filedup() of each open file in turn, then the child runs.
fork(p, c) ==
  /\ User(p) /\ c \notin alive /\ todo[c] = <<>>
  /\ todo' = [todo EXCEPT ![p] = <<Op("fork", [c |-> c, fd |-> 0])>>, ![c] = <<Op("born", c)>>]
  /\ UNCHANGED <<file, ofile, iref, ends, alive>>

fork_file(p) ==
  /\ Now(p, "fork") /\ Head(todo[p]).x.fd < NOFILE
  /\ LET c == Head(todo[p]).x.c
         fd == Head(todo[p]).x.fd
         f == ofile[p][fd]
     IN  /\ ofile' = [ofile EXCEPT ![c][fd] = f]
         /\ file' = IF f = None THEN file ELSE filedup(f)
         /\ Then(p, <<Op("fork", [c |-> c, fd |-> fd + 1])>>)
  /\ UNCHANGED <<iref, ends, alive>>

fork_done(p) ==
  /\ Now(p, "fork") /\ Head(todo[p]).x.fd = NOFILE
  /\ LET c == Head(todo[p]).x.c
     IN  todo' = [todo EXCEPT ![p] = Tail(@), ![c] = <<>>] /\ alive' = alive \cup {c}
  /\ UNCHANGED <<file, ofile, iref, ends>>

\* exit(): fileclose() of each open file in turn.  The code clears the
\* descriptor after the close; only p itself looks at it, and p is busy.
exit(p) ==
  /\ User(p) /\ p # InitProc
  /\ Start(p, <<Op("exit", 0)>>)
  /\ UNCHANGED <<file, ofile, iref, ends, alive>>

exit_file(p) ==
  /\ Now(p, "exit") /\ Head(todo[p]).x < NOFILE
  /\ LET fd == Head(todo[p]).x
         f == ofile[p][fd]
     IN  /\ ofile' = [ofile EXCEPT ![p][fd] = None]
         /\ Then(p, IF f = None THEN <<Op("exit", fd + 1)>> ELSE <<Op("fileclose", f), Op("exit", fd + 1)>>)
  /\ UNCHANGED <<file, iref, ends, alive>>

exit_done(p) ==
  /\ Now(p, "exit") /\ Head(todo[p]).x = NOFILE
  /\ Then(p, <<>>)
  /\ alive' = alive \ {p}
  /\ UNCHANGED <<file, ofile, iref, ends>>

(***************************************************************************)
(* fileclose(): drop a reference; the last one closes the object, outside  *)
(* ftable.lock.                                                            *)
(***************************************************************************)
fileclose(p) ==
  /\ Now(p, "fileclose")
  /\ LET f == Head(todo[p]).x
         ff == file[f]
     IN  IF ~Last(ff.ref)
         THEN file' = [file EXCEPT ![f].ref = @ - 1] /\ Then(p, <<>>)
         ELSE /\ file' = [file EXCEPT ![f] = Closed(ff)]
              /\ Then(p, CASE ff.type = "PIPE"  -> <<Op("pipeclose", [pp |-> ff.obj, end |-> ff.end])>>
                           [] ff.type = "INODE" -> <<Op("iput", ff.obj)>>
                           [] ff.type = "NONE"  -> <<>>)
  /\ UNCHANGED <<ofile, iref, ends, alive>>

pipeclose(p) ==
  /\ Now(p, "pipeclose")
  /\ LET x == Head(todo[p]).x IN ends' = [ends EXCEPT ![x.pp] = @ \ {x.end}]
  /\ Then(p, <<>>)
  /\ UNCHANGED <<file, ofile, iref, alive>>

iput(p) ==
  /\ Now(p, "iput")
  /\ iref' = [iref EXCEPT ![Head(todo[p]).x] = @ - 1]
  /\ Then(p, <<>>)
  /\ UNCHANGED <<file, ofile, ends, alive>>

Next ==
  \E p \in Procs :
    \/ \E fd \in FDs : sys_dup(p, fd) \/ sys_close(p, fd)
    \/ \E i \in Inodes : sys_open(p, i)
    \/ sys_pipe(p) \/ exit(p) \/ \E c \in Procs : fork(p, c)
    \/ open_alloc(p) \/ open_done(p) \/ pipe_file(p) \/ pipe_page(p)
    \/ fork_file(p) \/ fork_done(p) \/ exit_file(p) \/ exit_done(p)
    \/ fileclose(p) \/ pipeclose(p) \/ iput(p)

Spec == Init /\ [][Next]_vars

(***************************************************************************)
(* Properties                                                              *)
(***************************************************************************)
FileRec == [ref : Nat, type : {"NONE", "PIPE", "INODE"}, obj : {None} \cup Pipes \cup Inodes, end : {None} \cup Ends]
Ops ==
  [op : {"fileclose"}, x : Files] \cup [op : {"open", "iput"}, x : Inodes] \cup
  [op : {"opened"}, x : [f : Files, i : Inodes]] \cup
  [op : {"pipe"}, x : {<<>>} \cup {<<f>> : f \in Files} \cup (Files \X Files)] \cup
  [op : {"pipeclose"}, x : [pp : Pipes, end : Ends]] \cup
  [op : {"fork"}, x : [c : Procs, fd : 0..NOFILE]] \cup [op : {"born"}, x : Procs] \cup
  [op : {"exit"}, x : 0..NOFILE]

\* The types: the reference counts of files and inodes never go below 0, and a
\* call has at most two things left to do.
TypeOK ==
  /\ file \in [Files -> FileRec]
  /\ ofile \in [Procs -> [FDs -> Files \cup {None}]]
  /\ iref \in [Inodes -> Nat]
  /\ ends \in [Pipes -> SUBSET Ends]
  /\ alive \subseteq Procs
  /\ todo \in [Procs -> Seq(Ops)] /\ \A p \in Procs : Len(todo[p]) <= 2

\* The places that refer to a file: the descriptors of each process, and what
\* the call it is in has still to drop or hand out: t is its todo, and the j-th
\* place is the j-th from the end, so that it stays as the call goes on.
Promised(t, j) ==
  IF t # <<>> /\ t[1].op = "pipe" THEN IF 3 - j <= Len(t[1].x) THEN t[1].x[3 - j] ELSE None
  ELSE IF j <= Len(t) /\ t[Len(t) + 1 - j].op = "fileclose" THEN t[Len(t) + 1 - j].x ELSE None
RefAt(p, k) == IF k < NOFILE THEN ofile[p][k] ELSE Promised(todo[p], k - NOFILE + 1)
Slots == 0..NOFILE+1
References(f) == {x \in Procs \X Slots : RefAt(x[1], x[2]) = f}

\* A file's count is the number of descriptors for it, in all processes, and
\* of references that a call in progress has still to drop or hand out; so a
\* file is never freed while a descriptor names it, and never leaks, whatever
\* fails half-way (no file, no descriptor, no page).
RefCounts == \A f \in Files : file[f].ref = Cardinality(References(f))

\* An end of a pipe is open exactly while one file stands for it or its close
\* is on its way, and nobody closes an end twice: the page is freed once.
EndsOpen ==
  \A pp \in Pipes : \A e \in Ends :
    LET open    == {f \in Files : file[f].type = "PIPE" /\ file[f].obj = pp /\ file[f].end = e}
        closing == {p \in Procs : Now(p, "pipeclose") /\ Head(todo[p]).x = [pp |-> pp, end |-> e]}
    IN  Cardinality(open) + Cardinality(closing) = IF e \in ends[pp] THEN 1 ELSE 0

\* The inode that something left to do holds a reference to.
InodeOf(o) ==
  CASE o.op \in {"open", "iput"} -> o.x
    [] o.op = "opened" -> o.x.i
    [] OTHER -> None
InodeAt(t, j) == IF j <= Len(t) THEN InodeOf(t[Len(t) + 1 - j]) ELSE None
InodeCalls(i) == {x \in Procs \X (1..2) : InodeAt(todo[x[1]], x[2]) = i}
InodeFiles(i) == {f \in Files : file[f].type = "INODE" /\ file[f].obj = i}

\* Each open file holds one reference to its inode, and each open() on the way
\* to one: open() that fails, and the last close, give back exactly one.
InodeRefs == \A i \in Inodes : iref[i] = Cardinality(InodeFiles(i)) + Cardinality(InodeCalls(i))

\* A file keeps what it stands for, and gives it back once: its pipe end stays
\* open and its inode referenced from the call that made the file to the one
\* that closed it, although fileclose() frees the file first.
ObjectsHeld == EndsOpen /\ InodeRefs
=============================================================================
