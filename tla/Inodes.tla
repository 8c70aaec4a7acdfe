------------------------------- MODULE Inodes -------------------------------
(***************************************************************************)
(* Inodes, their cache, and the directory tree (fs.c), under the system    *)
(* calls that look up, make and remove names (sysfile.c).  A process waits *)
(* in ilock() while the inode is I_BUSY; what it does between an ilock()   *)
(* and the next ilock() or iput() is one action.  Disk blocks are written  *)
(* through the log: dinode and dirent are what a reader of them finds.     *)
(***************************************************************************)
EXTENDS Integers, Sequences, FiniteSets, FiniteSetsExt, TLC

CONSTANTS Procs, Nobody,
          Inums,      \* inode numbers; ROOT is the root directory's
          ROOT,
          Names,      \* entry names, "." and ".." among them
          Calls,      \* the system calls made: op, path, and type, mode or new
          MaxCalls,   \* bound: calls made by each process
          InitType, InitDir   \* the tree to start from, as mkfs or calls made it

ASSUME InodesAssumption == ROOT \in Inums /\ 0 \notin Inums /\ {".", ".."} \subseteq Names

VARIABLES
  dinode,   \* type and nlink on disk
  dirent,   \* the entries of each directory; 0 is no entry
  mem,      \* the cached inode: ref, I_BUSY with its owner, I_VALID, type, nlink
  ps,       \* each process: its place in the call, its cwd and open file, and
            \* the inodes it has still to iput(), .lk if it has to unlock them;
            \* .lost: it went through the ".." of a removed directory
  dropped   \* entries for each inode that went with the directory they were in

vars == <<dinode, dirent, mem, ps, dropped>>

NoDir == [n \in Names |-> 0]
NoInode == [ref |-> 0, busy |-> Nobody, valid |-> FALSE, type |-> "FREE", nlink |-> 0]

\* Entries for inode i in the tree d: "." does not count, and the ".." of a
\* directory counts while the directory itself has a name.
Named(d, j) == j = ROOT \/ \E k \in Inums : \E n \in Names \ {".", ".."} : d[k][n] = j
Links(d, i) ==
  {x \in Inums \X (Names \ {"."}) : d[x[1]][x[2]] = i /\ (x[2] = ".." => Named(d, x[1]))}

Init ==
  /\ dirent = InitDir
  /\ dinode = [i \in Inums |-> [type |-> InitType[i],
                                nlink |-> Cardinality(Links(InitDir, i))]]
  /\ mem = [i \in Inums |-> IF i = ROOT THEN [NoInode EXCEPT !.ref = Cardinality(Procs)] ELSE NoInode]
  /\ ps = [p \in Procs |-> [pc |-> "user", call |-> [op |-> "none"], path |-> <<>>, par |-> FALSE,
                            name |-> ".", ip |-> 0, dp |-> 0, puts |-> <<>>, freeing |-> 0,
                            cwd |-> ROOT, file |-> 0, lost |-> FALSE, left |-> MaxCalls]]
  /\ dropped = [i \in Inums |-> 0]

(***************************************************************************)
(* The inode cache                                                         *)
(***************************************************************************)
\* A bug: a second iget() of a cached inode is not counted.
More_not(n) == n
More(n) == n + 1

\* iget(), and idup() of an inode in use.  An unused entry is recycled.
Iget(m, i) ==
  [m EXCEPT ![i] = IF @.ref > 0 THEN [@ EXCEPT !.ref = More(@)] ELSE [NoInode EXCEPT !.ref = 1]]

CanLock(i) == mem[i].busy = Nobody
NoType(i) == ~mem[i].valid /\ dinode[i].type = "FREE"
LockOk(i) == CanLock(i) /\ ~NoType(i)

\* ilock(): read the inode from disk if it is not valid.
Load(m, i) ==
  [m EXCEPT ![i] = IF @.valid THEN @ ELSE [@ EXCEPT !.valid = TRUE, !.type = dinode[i].type, !.nlink = dinode[i].nlink]]
Lock(m, i, p) == [Load(m, i) EXCEPT ![i].busy = p]
\* A bug: the inode stays locked.
Unlock_not(m, i) == m
Unlock(m, i) == [m EXCEPT ![i].busy = Nobody]
Type(i) == Load(mem, i)[i].type
Nlink(i) == Load(mem, i)[i].nlink

\* Change the link count, and iupdate().
Link(m, i, n) == [m EXCEPT ![i].nlink = @ + n]
Update(m, S) == [i \in Inums |-> IF i \in S THEN [type |-> m[i].type, nlink |-> m[i].nlink] ELSE dinode[i]]

\* The inode a name stands for in dp, or 0; and a new entry in the tree d.
dirlookup(dp, name) == dirent[dp][name]
dirlink(d, dp, name, i) == [d EXCEPT ![dp][name] = i]

Put(i) == [i |-> i, lk |-> FALSE]
UnlockPut(i) == [i |-> i, lk |-> TRUE]

\* The first of the iput()s has been made; an iunlockput() that follows unlocks.
PutDone(p, m) ==
  LET rest == Tail(ps[p].puts)
      done == IF m[Head(ps[p].puts).i].ref = 1 THEN [m EXCEPT ![Head(ps[p].puts).i] = NoInode]
              ELSE [m EXCEPT ![Head(ps[p].puts).i].ref = @ - 1]
  IN  /\ mem' = IF rest # <<>> /\ Head(rest).lk THEN Unlock(done, Head(rest).i) ELSE done
      /\ ps' = [ps EXCEPT ![p].puts = rest, ![p].freeing = 0]

LastUse(i) == mem[i].ref = 1 /\ mem[i].valid /\ mem[i].nlink = 0

iput(p) ==
  /\ ps[p].puts # <<>> /\ ps[p].freeing = 0
  /\ LET i == Head(ps[p].puts).i IN
     \/ ~LastUse(i) /\ PutDone(p, mem) /\ UNCHANGED <<dinode, dirent>>
     \/ /\ LastUse(i) /\ CanLock(i)
        /\ mem' = Lock(mem, i, p)
        /\ ps' = [ps EXCEPT ![p].freeing = 1]
        /\ UNCHANGED <<dinode, dirent>>

\* itrunc() and iupdate(), without icache.lock.
iput_free(p) ==
  /\ ps[p].freeing = 1
  /\ LET i == Head(ps[p].puts).i IN
       /\ dirent' = [dirent EXCEPT ![i] = NoDir]
       /\ mem' = [mem EXCEPT ![i].type = "FREE"]
       /\ dinode' = Update(mem', {i})
  /\ ps' = [ps EXCEPT ![p].freeing = 2]

Flags(r) == [r EXCEPT !.busy = Nobody, !.valid = FALSE]

iput_done(p) ==
  /\ ps[p].freeing = 2
  /\ PutDone(p, [mem EXCEPT ![Head(ps[p].puts).i] = Flags(@)])
  /\ UNCHANGED <<dinode, dirent>>

(***************************************************************************)
(* Path lookup                                                             *)
(***************************************************************************)
Ready(p, l) == ps[p].pc = l /\ ps[p].puts = <<>>
Step(p, x) == ps' = [ps EXCEPT ![p] = x @@ @]
Return == [pc |-> "user", call |-> [op |-> "none"], path |-> <<>>, par |-> FALSE, name |-> ".", ip |-> 0, dp |-> 0,
           lost |-> FALSE]

Start(m, path, cwd) == Iget(m, IF path.abs THEN ROOT ELSE cwd)
Begin(path, par, cwd) == [pc |-> "namex", path |-> path.elems, par |-> par, dp |-> IF path.abs THEN ROOT ELSE cwd]

syscall(p, c) ==
  /\ Ready(p, "user") /\ ps[p].left > 0
  /\ mem' = Start(mem, c.path, ps[p].cwd)
  /\ Step(p, [call |-> c, left |-> ps[p].left - 1] @@ Begin(c.path, c.op \in {"create", "unlink"}, ps[p].cwd))
  /\ UNCHANGED <<dinode, dirent>>

\* The lookup failed, and so does the call; link() has a count to take back.
Fail(x, puts) ==
  IF x.ip # 0 THEN [pc |-> "link_bad", dp |-> 0, puts |-> puts]
  ELSE [puts |-> puts] @@ Return

\* One turn of namex(); x.dp is its ip.
namex(p) ==
  /\ Ready(p, "namex")
  /\ LET x == ps[p]
         next == dirlookup(x.dp, Head(x.path))
         last == Len(x.path) = 1
     IN
     \/ /\ x.path = <<>>
        /\ mem' = mem
        /\ IF x.par THEN Step(p, Fail(x, <<Put(x.dp)>>))
           ELSE Step(p, [pc |-> x.call.op, ip |-> x.dp, dp |-> 0])
     \/ /\ x.path # <<>> /\ LockOk(x.dp)
        /\ \/ /\ Type(x.dp) = "DIR" /\ x.par /\ last
              /\ mem' = Load(mem, x.dp)
              /\ Step(p, [pc |-> IF x.ip # 0 THEN "link2" ELSE x.call.op, name |-> Head(x.path), path |-> <<>>])
           \/ /\ Type(x.dp) = "DIR" /\ ~(x.par /\ last) /\ next # 0
              /\ mem' = Iget(Load(mem, x.dp), next)
              /\ Step(p, [dp |-> next, path |-> Tail(x.path), puts |-> <<Put(x.dp)>>,
                          lost |-> x.lost \/ (Head(x.path) = ".." /\ ~Named(dirent, x.dp))])
           \/ /\ Type(x.dp) # "DIR" \/ (~(x.par /\ last) /\ next = 0)
              /\ mem' = Load(mem, x.dp)
              /\ Step(p, Fail(x, <<Put(x.dp)>>))
  /\ UNCHANGED <<dinode, dirent>>

(***************************************************************************)
(* open(), chdir(), close()                                                *)
(***************************************************************************)
sys_open(p) ==
  /\ Ready(p, "open") /\ LockOk(ps[p].ip)
  /\ LET ip == ps[p].ip
         ok == ps[p].file = 0 /\ ~(Type(ip) = "DIR" /\ ps[p].call.mode # "r")
     IN  /\ mem' = Load(mem, ip)
         /\ Step(p, (IF ok THEN [file |-> ip] ELSE [puts |-> <<Put(ip)>>]) @@ Return)
  /\ UNCHANGED <<dinode, dirent>>

sys_chdir(p) ==
  /\ Ready(p, "chdir") /\ LockOk(ps[p].ip)
  /\ LET ip == ps[p].ip IN
       /\ mem' = Load(mem, ip)
       /\ Step(p, (IF Type(ip) = "DIR" THEN [cwd |-> ip, puts |-> <<Put(ps[p].cwd)>>]
                   ELSE [puts |-> <<Put(ip)>>]) @@ Return)
  /\ UNCHANGED <<dinode, dirent>>

sys_close(p) ==
  /\ Ready(p, "user") /\ ps[p].file # 0
  /\ Step(p, [file |-> 0, puts |-> <<Put(ps[p].file)>>])
  /\ UNCHANGED <<dinode, dirent, mem>>

(***************************************************************************)
(* create() for open(O_CREATE), mkdir() and mknod()                        *)
(***************************************************************************)
FreeInums == {i \in Inums : dinode[i].type = "FREE"}

\* The name exists: iunlockput(dp), then look at the inode.  It does not: dp
\* stays locked, and ialloc() marks the first free inode on disk.
create(p) ==
  /\ Ready(p, "create") /\ LockOk(ps[p].dp)
  /\ LET dp == ps[p].dp
         ip == dirlookup(dp, ps[p].name)
         new == Min(FreeInums)
     IN  IF ip # 0
         THEN /\ mem' = Iget(Load(mem, dp), ip)
              /\ Step(p, [pc |-> "create_old", ip |-> ip, dp |-> 0, puts |-> <<Put(dp)>>])
              /\ dinode' = dinode
         ELSE /\ FreeInums # {}
              /\ mem' = Iget(Lock(mem, dp, p), new)
              /\ dinode' = [dinode EXCEPT ![new] = [type |-> ps[p].call.type, nlink |-> 0]]
              /\ Step(p, [pc |-> "create_new", ip |-> new])
  /\ UNCHANGED dirent

\* Only open(O_CREATE) of a file accepts what is there.
create_old(p) ==
  /\ Ready(p, "create_old") /\ LockOk(ps[p].ip)
  /\ LET ip == ps[p].ip IN
       /\ mem' = Load(mem, ip)
       /\ Step(p, (IF ps[p].call.type = "FILE" /\ Type(ip) = "FILE" /\ ps[p].file = 0 THEN [file |-> ip]
                   ELSE [puts |-> <<Put(ip)>>]) @@ Return)
  /\ UNCHANGED <<dinode, dirent>>

DotDot(m, dp, dir) == IF dir THEN Link(m, dp, 1) ELSE m

create_new(p) ==
  /\ Ready(p, "create_new") /\ LockOk(ps[p].ip)
  /\ LET ip == ps[p].ip
         dp == ps[p].dp
         dir == ps[p].call.type = "DIR"
         m == DotDot([Lock(mem, ip, p) EXCEPT ![ip].nlink = 1], dp, dir)
     IN  /\ mem' = Unlock(m, dp)
         /\ dinode' = Update(m, {ip, dp})
         /\ dirent' = LET dots == dirlink(dirlink(dirent, ip, ".", ip), ip, "..", dp)
                      IN  dirlink(IF dir THEN dots ELSE dirent, dp, ps[p].name, ip)
         /\ Step(p, [pc |-> "create_ret", dp |-> 0, puts |-> <<Put(dp)>>])

\* The caller unlocks the new inode: open() keeps it, mkdir() and mknod() do not.
create_ret(p) ==
  /\ Ready(p, "create_ret")
  /\ LET ip == ps[p].ip IN
       /\ mem' = Unlock(mem, ip)
       /\ Step(p, (IF ps[p].call.type = "FILE" /\ ps[p].file = 0 THEN [file |-> ip]
                   ELSE [puts |-> <<Put(ip)>>]) @@ Return)
  /\ UNCHANGED <<dinode, dirent>>

(***************************************************************************)
(* unlink()                                                                *)
(***************************************************************************)
sys_unlink(p) ==
  /\ Ready(p, "unlink") /\ LockOk(ps[p].dp)
  /\ LET dp == ps[p].dp
         ip == dirlookup(dp, ps[p].name)
     IN  IF ps[p].name \in {".", ".."} \/ ip = 0
         THEN mem' = Load(mem, dp) /\ Step(p, [puts |-> <<Put(dp)>>] @@ Return)
         ELSE mem' = Iget(Lock(mem, dp, p), ip) /\ Step(p, [pc |-> "unlink2", ip |-> ip])
  /\ UNCHANGED <<dinode, dirent>>

\* isdirempty()
DirEmpty(ip) == \A n \in Names \ {".", ".."} : dirent[ip][n] = 0

\* With both locked: refuse a directory in use, or clear the entry ...
unlink2(p) ==
  /\ Ready(p, "unlink2") /\ LockOk(ps[p].ip) /\ Nlink(ps[p].ip) >= 1
  /\ LET ip == ps[p].ip
         dp == ps[p].dp
         dir == Type(ip) = "DIR"
         m == Lock(mem, ip, p)
     IN  IF dir /\ ~DirEmpty(ip)
         THEN /\ mem' = Unlock(m, ip)
              /\ Step(p, [puts |-> <<Put(ip), UnlockPut(dp)>>] @@ Return)
              /\ UNCHANGED <<dinode, dirent>>
         ELSE LET m2 == IF dir THEN Link(m, dp, -1) ELSE m IN
              /\ dirent' = [dirent EXCEPT ![dp][ps[p].name] = 0]
              /\ dinode' = Update(m2, {dp})
              /\ mem' = Unlock(m2, dp)
              /\ Step(p, [pc |-> "unlink3", dp |-> 0, puts |-> <<Put(dp)>>])

\* ... and, dp released, the link.
unlink3(p) ==
  /\ Ready(p, "unlink3")
  /\ LET ip == ps[p].ip
         m == Link(mem, ip, -1)
     IN  mem' = Unlock(m, ip) /\ dinode' = Update(m, {ip}) /\ Step(p, [puts |-> <<Put(ip)>>] @@ Return)
  /\ UNCHANGED dirent

(***************************************************************************)
(* link(): the count goes up before the entry is made, and down again if   *)
(* it cannot be.                                                           *)
(***************************************************************************)
sys_link(p) ==
  /\ Ready(p, "link") /\ LockOk(ps[p].ip)
  /\ LET ip == ps[p].ip
         m == Link(Load(mem, ip), ip, 1)
         new == ps[p].call.new
     IN  IF Type(ip) = "DIR"
         THEN mem' = Load(mem, ip) /\ dinode' = dinode /\ Step(p, [puts |-> <<Put(ip)>>] @@ Return)
         ELSE /\ mem' = Start(m, new, ps[p].cwd)
              /\ dinode' = Update(m, {ip})
              /\ Step(p, Begin(new, TRUE, ps[p].cwd))
  /\ UNCHANGED dirent

link2(p) ==
  /\ Ready(p, "link2") /\ LockOk(ps[p].dp)
  /\ LET ip == ps[p].ip
         dp == ps[p].dp
         old == dirlookup(dp, ps[p].name)
     IN  IF old # 0
         THEN /\ mem' = Iget(Lock(mem, dp, p), old)
              /\ Step(p, [pc |-> "link_bad", dp |-> 0, puts |-> <<Put(old), UnlockPut(dp)>>])
              /\ dirent' = dirent
         ELSE /\ mem' = Load(mem, dp)
              /\ dirent' = dirlink(dirent, dp, ps[p].name, ip)
              /\ Step(p, [puts |-> <<Put(dp), Put(ip)>>] @@ Return)
  /\ UNCHANGED dinode

\* A bug: the count is not taken back.
Undo_not(m, ip) == m
Undo(m, ip) == Link(m, ip, -1)

link_bad(p) ==
  /\ Ready(p, "link_bad") /\ LockOk(ps[p].ip)
  /\ LET ip == ps[p].ip
         m == Undo(Load(mem, ip), ip)
     IN  mem' = m /\ dinode' = Update(m, {ip}) /\ Step(p, [puts |-> <<Put(ip)>>] @@ Return)
  /\ UNCHANGED dirent

(***************************************************************************)
(* The system                                                              *)
(***************************************************************************)
\* The inode p's next step locks.
Target(p) ==
  CASE ps[p].pc = "namex" /\ ps[p].path # <<>> -> {ps[p].dp}
    [] ps[p].pc \in {"create", "unlink", "link2"} -> {ps[p].dp}
    [] ps[p].pc \in {"open", "chdir", "create_old", "create_new", "unlink2", "link", "link_bad"} -> {ps[p].ip}
    [] OTHER -> {}

\* "ilock: no type", "unlink: nlink < 1", "ialloc: no inodes", "iput busy".
Panics(p) ==
  LET x == ps[p] IN
    IF x.puts # <<>> THEN x.freeing = 0 /\ LastUse(Head(x.puts).i) /\ ~CanLock(Head(x.puts).i)
    ELSE \/ \E i \in Target(p) : CanLock(i) /\ NoType(i)
         \/ x.pc = "unlink2" /\ LockOk(x.ip) /\ Nlink(x.ip) < 1
         \/ x.pc = "create" /\ LockOk(x.dp) /\ dirlookup(x.dp, x.name) = 0 /\ FreeInums = {}

panic(p) ==
  /\ Panics(p)
  /\ Step(p, [pc |-> "panic"])
  /\ UNCHANGED <<dinode, dirent, mem>>

\* What the itrunc() of a directory in iput() loses: no count goes down.
Drop(p) ==
  dropped' = [i \in Inums |-> dropped[i] + IF ps[p].freeing # 1 THEN 0
                ELSE Cardinality({n \in Names \ {".", ".."} : dirent[Head(ps[p].puts).i][n] = i})]

Handler(p) ==
  \/ iput(p) \/ iput_free(p) \/ iput_done(p) \/ namex(p)
  \/ sys_open(p) \/ sys_chdir(p)
  \/ create(p) \/ create_old(p) \/ create_new(p) \/ create_ret(p)
  \/ sys_unlink(p) \/ unlink2(p) \/ unlink3(p)
  \/ sys_link(p) \/ link2(p) \/ link_bad(p)
  \/ panic(p)

Kernel(p) == Handler(p) /\ Drop(p)
User(p) == (sys_close(p) \/ \E c \in Calls : syscall(p, c)) /\ UNCHANGED dropped

Next ==
  /\ \A p \in Procs : ps[p].pc # "panic"
  /\ \E p \in Procs : Kernel(p) \/ User(p)

Spec == Init /\ [][Next]_vars

\* A process in the kernel runs again whenever it can; the number of calls is
\* bounded, so no one has to win a race for an inode for ever.
LiveSpec == Spec /\ \A p \in Procs : WF_vars(Kernel(p))

(***************************************************************************)
(* Properties                                                              *)
(***************************************************************************)
\* The types; the reference count of an inode never goes below 0.
TypeOK ==
  /\ dinode \in [Inums -> [type : {"FREE", "DIR", "FILE", "DEV"}, nlink : Nat]]
  /\ dirent \in [Inums -> [Names -> Inums \cup {0}]]
  /\ mem \in [Inums -> [ref : Nat, busy : Procs \cup {Nobody}, valid : BOOLEAN,
                        type : {"FREE", "DIR", "FILE", "DEV"}, nlink : Int]]

\* "ip->ref tracks the number of in-memory pointers to the entry": open files,
\* current directories, and what calls in progress have still to iput().
RefsCounted ==
  \A i \in Inums :
    mem[i].ref =
      Cardinality({x \in Procs \X {"cwd", "file", "ip", "dp"} : ps[x[1]][x[2]] = i})
      + Cardinality({x \in Procs \X (1..2) : x[2] \in DOMAIN ps[x[1]].puts /\ ps[x[1]].puts[x[2]].i = i})

\* Calls in progress that have counted a link whose entry is not there (any
\* more, or yet), and the freshly allocated inode whose count is still 0.
Owed(i) ==
  Cardinality({p \in Procs : ps[p].ip = i /\ \/ ps[p].pc \in {"unlink3", "link2", "link_bad"}
                                             \/ ps[p].pc = "namex" /\ ps[p].call.op = "link"})



\* Every call returns, unless the kernel panics: ilock() of a parent and then of
\* an entry in it cannot make a cycle with another call.
CallsReturn ==
  \A p \in Procs : ps[p].pc # "user" ~> ps[p].pc = "user" \/ \E q \in Procs : ps[q].pc = "panic"


\* ilock()'s assertion as it stands: an inode that a lookup reaches is allocated.
NoPanic == \A p \in Procs : ps[p].pc = "panic" => FreeInums = {}

\* "the number of links referring to it": with no call in progress, an inode
\* with a link count has an entry.
CountedIsNamed ==
  (\A p \in Procs : Ready(p, "user")) =>
    \A i \in Inums \ {ROOT} : dinode[i].nlink > 0 => Links(dirent, i) # {}
=============================================================================
