--------------------------------- MODULE Vm ---------------------------------
(***************************************************************************)
(* Physical pages (kalloc.c), page tables (vm.c) and the system calls that *)
(* build, grow, copy and replace the memory of a process: exec(), sbrk(),  *)
(* fork() and wait().  A page is a number; 0 is a null pointer, an absent  *)
(* entry or a failed allocation.  An address space is                      *)
(*   dir     its page directory                                            *)
(*   ktabs   the page tables of the kernel's mappings                      *)
(*   tab     the page table of each group of NPT user pages                *)
(*   pte     the page behind each user page                                *)
(*   nou     the user pages whose PTE_U is cleared                         *)
(***************************************************************************)
EXTENDS Integers, Sequences, FiniteSets

CONSTANTS
  Procs, NPAGES,
  PGSIZE,      \* bytes in a page
  NPT,         \* NPTENTRIES
  NUPAGES,     \* user pages below KERNBASE
  KTABS,       \* page tables that setupkvm() needs
  UINT,        \* uint arithmetic wraps here
  Programs,    \* what may be executed: the ends of the segments, in order
  ArgBytes,    \* bytes of arguments exec() pushes
  Sbrks,       \* arguments of sbrk()
  MaxOther     \* pages that pipes may hold

KERNBASE == NUPAGES * PGSIZE
Up(a) == ((a + PGSIZE - 1) \div PGSIZE) * PGSIZE

ASSUME VmAssumption == NUPAGES % NPT = 0 /\ KERNBASE < UINT

VARIABLES
  mem,    \* free: the free list; notab: no page was left for a page table;
          \* panic: what the kernel panicked with, "" if it has not
  space,  \* p->pgdir with p->sz and p->kstack; kstack 0 in a free slot
  pipes,  \* pages held by pipes
  ret     \* what the last system call returned

vars == <<mem, space, pipes, ret>>

NoSpace == [dir |-> 0, ktabs |-> {}, tab |-> [t \in 0..(NUPAGES \div NPT)-1 |-> 0],
            pte |-> [v \in 0..NUPAGES-1 |-> 0], nou |-> {}]
NoProc == [as |-> NoSpace, sz |-> 0, kstack |-> 0]

(***************************************************************************)
(* kalloc() and kfree().  Which free page is taken makes no difference.    *)
(***************************************************************************)
Pick(m) == IF m.free = {} THEN 0 ELSE CHOOSE g \in m.free : TRUE
Taken(m) == [m EXCEPT !.free = @ \ {Pick(m)}]
Freed(m, gs) == [m EXCEPT !.free = @ \cup (gs \ {0})]

(***************************************************************************)
(* Page tables.  Each operator returns the memory m, the address space s   *)
(* and ok, or ret, what the function returns.                              *)
(***************************************************************************)
\* walkpgdir() with alloc set: the page table of user page v.
Walk(m, s, v) ==
  LET t == v \div NPT IN
  IF s.tab[t] # 0 THEN [m |-> m, s |-> s, ok |-> TRUE]
  ELSE IF Pick(m) = 0 THEN [m |-> [m EXCEPT !.notab = TRUE], s |-> s, ok |-> FALSE]
  ELSE [m |-> Taken(m), s |-> [s EXCEPT !.tab[t] = Pick(m)], ok |-> TRUE]

\* The first panic stops the kernel; nothing that follows in the call counts.
Panicked(m, why) == [m EXCEPT !.panic = IF @ = "" THEN why ELSE @]

\* mappages() of one page.
Map(m, s, v, g) ==
  LET w == Walk(m, s, v) IN
  IF ~w.ok THEN w
  ELSE IF w.s.pte[v] # 0 THEN [w EXCEPT !.m = Panicked(@, "remap")]
  ELSE [w EXCEPT !.s.pte[v] = g]

\* setupkvm(): on failure what it has taken stays taken.
RECURSIVE KernelTables(_, _)
KernelTables(m, s) ==
  IF Cardinality(s.ktabs) = KTABS THEN [m |-> m, s |-> s, ok |-> TRUE]
  ELSE IF Pick(m) = 0 THEN [m |-> [m EXCEPT !.notab = TRUE], s |-> NoSpace, ok |-> FALSE]
  ELSE KernelTables(Taken(m), [s EXCEPT !.ktabs = @ \cup {Pick(m)}])
Setupkvm(m) ==
  IF Pick(m) = 0 THEN [m |-> m, s |-> NoSpace, ok |-> FALSE]
  ELSE KernelTables(Taken(m), [NoSpace EXCEPT !.dir = Pick(m)])

\* A bug: the entries of the freed pages are kept.
Cleared_not(s, v) == s
Cleared(s, v) == [s EXCEPT !.pte[v] = 0, !.nou = @ \ {v}]

\* deallocuvm()
RECURSIVE Unmap(_, _, _, _)
Unmap(m, s, a, oldsz) ==
  LET v == a \div PGSIZE IN
  IF a >= oldsz THEN [m |-> m, s |-> s]
  ELSE IF s.tab[v \div NPT] = 0 THEN Unmap(m, s, a + NPT * PGSIZE, oldsz)
  ELSE Unmap(Freed(m, {s.pte[v]}), Cleared(s, v), a + PGSIZE, oldsz)
Deallocuvm(m, s, oldsz, newsz) ==
  IF newsz >= oldsz THEN [m |-> m, s |-> s, ret |-> oldsz]
  ELSE LET u == Unmap(m, s, Up(newsz), oldsz) IN [m |-> u.m, s |-> u.s, ret |-> newsz]

\* A bug: on failure the pages already added are kept.
Undo_not(m, s, newsz, oldsz) == [m |-> m, s |-> s]
Undo(m, s, newsz, oldsz) == Deallocuvm(m, s, newsz, oldsz)

\* allocuvm(): what mappages() returns is not looked at.
RECURSIVE Grow(_, _, _, _, _)
Grow(m, s, a, oldsz, newsz) ==
  IF a >= newsz THEN [m |-> m, s |-> s, ret |-> newsz]
  ELSE IF Pick(m) = 0
       THEN LET u == Undo(m, s, newsz, oldsz) IN [m |-> u.m, s |-> u.s, ret |-> 0]
  ELSE LET w == Map(Taken(m), s, a \div PGSIZE, Pick(m)) IN
       Grow(w.m, w.s, a + PGSIZE, oldsz, newsz)
TooBig(newsz) == newsz >= KERNBASE
Allocuvm(m, s, oldsz, newsz) ==
  IF TooBig(newsz) THEN [m |-> m, s |-> s, ret |-> 0]
  ELSE IF newsz < oldsz THEN [m |-> m, s |-> s, ret |-> oldsz]
  ELSE Grow(m, s, Up(oldsz), oldsz, newsz)

\* freevm().  A bug: the page tables of user memory are forgotten.
Tables_kernel(s) == s.ktabs \cup {s.dir}
Tables(s) == s.ktabs \cup {s.tab[t] : t \in DOMAIN s.tab} \cup {s.dir}
Freevm(m, s) ==
  LET u == Deallocuvm(m, s, KERNBASE, 0) IN Freed(u.m, Tables(u.s))

\* copyuvm(): pages v and above, into d.
RECURSIVE CopyFrom(_, _, _, _, _)
CopyFrom(m, d, s, v, sz) ==
  IF v * PGSIZE >= sz THEN [m |-> m, s |-> d, ok |-> TRUE]
  ELSE IF s.pte[v] = 0 THEN [m |-> Panicked(m, "copyuvm"), s |-> d, ok |-> FALSE]
  ELSE IF Pick(m) = 0 THEN [m |-> Freevm(m, d), s |-> NoSpace, ok |-> FALSE]
  ELSE LET w == Map(Taken(m), [d EXCEPT !.nou = @ \cup (s.nou \cap {v})], v, Pick(m)) IN
       IF w.ok THEN CopyFrom(w.m, w.s, s, v + 1, sz)
       ELSE [m |-> Freevm(w.m, w.s), s |-> NoSpace, ok |-> FALSE]
Copyuvm(m, s, sz) ==
  LET k == Setupkvm(m) IN IF k.ok THEN CopyFrom(k.m, k.s, s, 0, sz) ELSE k

PagesOf(a, b) == a \div PGSIZE..(b - 1) \div PGSIZE

\* copyout() of bytes a .. b-1 succeeds on user pages only.
Copyout(s, a, b) ==
  a >= 0 /\ \A v \in PagesOf(a, b) : s.pte[v] # 0 /\ v \notin s.nou

\* uva2ka() follows the null pointer that walkpgdir() returns when the first
\* page that is not a user page has no table.  What is read at address 0 then
\* decides: copyout() fails, or the kernel traps.
Wild(s, a, b) ==
  \E v \in PagesOf(a, b) : s.tab[v \div NPT] = 0 /\ Copyout(s, a, v * PGSIZE)

(***************************************************************************)
(* System calls                                                            *)
(***************************************************************************)
Init ==
  \E p \in Procs :   \* userinit(): one process of one page
    LET m0 == [free |-> 1..NPAGES, notab |-> FALSE, panic |-> ""]
        k == Setupkvm(Taken(m0))
        w == Map(Taken(k.m), k.s, 0, Pick(k.m))
    IN  /\ mem = w.m
        /\ space = [q \in Procs |-> IF q = p THEN [as |-> w.s, sz |-> PGSIZE, kstack |-> Pick(m0)] ELSE NoProc]
        /\ pipes = {} /\ ret = 0

Alive(p) == space[p].kstack # 0
Running == mem.panic = ""

\* The call never returns; what it had in hand is lost with the machine.
panic(m) == m.panic # "" /\ mem' = [mem EXCEPT !.panic = m.panic] /\ UNCHANGED <<space, ret>>

\* allocproc()'s kernel stack, then copyuvm().
fork(p, np) ==
  /\ Alive(p) /\ ~Alive(np)
  /\ LET k == Pick(mem)
         c == Copyuvm(Taken(mem), space[p].as, space[p].sz)
     IN  \/ k = 0 /\ ret' = -1 /\ UNCHANGED <<mem, space>>
         \/ k # 0 /\ panic(c.m)
         \/ /\ k # 0 /\ c.m.panic = "" /\ ~c.ok
            /\ mem' = Freed(c.m, {k}) /\ ret' = -1 /\ UNCHANGED space
         \/ /\ k # 0 /\ c.ok
            /\ mem' = c.m /\ ret' = 0
            /\ space' = [space EXCEPT ![np] = [as |-> c.s, sz |-> space[p].sz, kstack |-> k]]
  /\ UNCHANGED pipes

\* loaduvm() of bytes a .. b-1 wants their page tables.  clearpteu() finds its
\* own: had it been refused, allocuvm() would have failed at the page above.
NoTable(s, a, b) == \E v \in PagesOf(a, b) : s.tab[v \div NPT] = 0

\* The segments of a program, one allocuvm() and loaduvm() each; a segment
\* starts at a page boundary and is all in the file, and reading it may fail.
RECURSIVE Segments(_, _, _, _, _)
Segments(m, s, sz, prog, ok) ==
  IF prog = <<>> THEN [m |-> m, s |-> s, ret |-> sz]
  ELSE LET g == Allocuvm(m, s, sz, Head(prog)) IN
       IF g.ret = 0 THEN g
       ELSE IF NoTable(g.s, Up(sz), g.ret) THEN [g EXCEPT !.m = Panicked(@, "loaduvm"), !.ret = 0]
       ELSE IF ~ok /\ Len(prog) = 1 THEN [g EXCEPT !.ret = 0]
       ELSE Segments(g.m, g.s, g.ret, Tail(prog), ok)

exec_bad(m, s) == mem' = Freevm(m, s) /\ ret' = -1 /\ UNCHANGED space

\* exec() of a readable file; ok: the reads of the segments succeed.
exec(p, prog, args, ok) ==
  /\ Alive(p)
  /\ LET k == Setupkvm(mem)
         g == Segments(k.m, k.s, 0, prog, ok)
         h == Allocuvm(g.m, g.s, Up(g.ret), Up(g.ret) + 2 * PGSIZE)
         s == [h.s EXCEPT !.nou = @ \cup {h.ret \div PGSIZE - 2}]
         stack == k.ok /\ g.ret # 0 /\ h.ret # 0
     IN  \/ ~k.ok /\ mem' = k.m /\ ret' = -1 /\ UNCHANGED space
         \/ k.ok /\ panic(g.m)
         \/ k.ok /\ g.ret = 0 /\ g.m.panic = "" /\ exec_bad(g.m, g.s)
         \/ k.ok /\ g.ret # 0 /\ h.ret = 0 /\ exec_bad(h.m, h.s)
         \/ stack /\ Wild(s, h.ret - args, h.ret) /\ panic(Panicked(h.m, "trap"))
         \/ stack /\ ~Copyout(s, h.ret - args, h.ret) /\ exec_bad(h.m, s)
         \/ /\ stack /\ Copyout(s, h.ret - args, h.ret)
            /\ mem' = Freevm(h.m, space[p].as) /\ ret' = 0
            /\ space' = [space EXCEPT ![p].as = s, ![p].sz = h.ret]
  /\ UNCHANGED pipes

\* sbrk() calls growproc().
growproc(p, n) ==
  /\ Alive(p)
  /\ LET old == space[p].sz
         new == (old + n) % UINT
         g == IF n > 0 THEN Allocuvm(mem, space[p].as, old, new)
                       ELSE Deallocuvm(mem, space[p].as, old, new)
     IN  /\ mem' = g.m
         /\ space' = [space EXCEPT ![p].as = g.s, ![p].sz = IF g.ret = 0 THEN @ ELSE g.ret]
         /\ ret' = IF g.ret = 0 THEN -1 ELSE old
  /\ UNCHANGED pipes

\* The process has exited and its parent collects it.
wait(p) ==
  /\ Alive(p) /\ \E q \in Procs \ {p} : Alive(q)
  /\ mem' = Freevm(Freed(mem, {space[p].kstack}), space[p].as)
  /\ space' = [space EXCEPT ![p] = NoProc]
  /\ ret' = 0 /\ UNCHANGED pipes

pipealloc ==
  /\ Cardinality(pipes) < MaxOther
  /\ ret' = (IF Pick(mem) = 0 THEN -1 ELSE 0)
  /\ mem' = Taken(mem) /\ pipes' = pipes \cup ({Pick(mem)} \ {0}) /\ UNCHANGED space

pipeclose(g) == mem' = Freed(mem, {g}) /\ pipes' = pipes \ {g} /\ ret' = 0 /\ UNCHANGED space

\* No entry below sz is missing or not present: copyuvm() goes through.
Present(p) == \A v \in 0..NUPAGES-1 : v * PGSIZE < space[p].sz => space[p].as.pte[v] # 0

Next == Running /\
  \/ \E p \in Procs :
       \/ \E np \in Procs : fork(p, np)
       \/ \E prog \in Programs, args \in ArgBytes, ok \in BOOLEAN : exec(p, prog, args, ok)
       \/ \E n \in Sbrks : growproc(p, n)
       \/ wait(p)
  \/ pipealloc \/ \E g \in pipes : pipeclose(g)

Spec == Init /\ [][Next]_vars

(***************************************************************************)
(* Properties                                                              *)
(***************************************************************************)
\* The places of an address space that hold a page, by name, and those of all.
SpacePlaces(p) ==
  LET s == space[p].as IN
  ({<<p, "pte", v, s.pte[v]>> : v \in DOMAIN s.pte} \cup {<<p, "tab", t, s.tab[t]>> : t \in DOMAIN s.tab}
   \cup {<<p, "ktab", 0, g>> : g \in s.ktabs} \cup {<<p, "dir", 0, s.dir>>, <<p, "kstack", 0, space[p].kstack>>})
Places == {x \in UNION {SpacePlaces(p) : p \in Procs} : x[4] # 0}
Held == {x[4] : x \in Places} \cup pipes

\* Every variable has its type; no process is larger than the user part of memory.
TypeOK ==
  /\ mem.free \subseteq 1..NPAGES /\ mem.notab \in BOOLEAN
  /\ \A p \in Procs : space[p].sz < KERNBASE /\ space[p].as.pte \in [0..NUPAGES-1 -> 0..NPAGES]
  /\ pipes \subseteq 1..NPAGES

\* No page is at two places: not in two processes, not used twice in one, not
\* both free and in use, however fork(), exec(), sbrk() and wait() fail and
\* undo what they did.
OwnedOnce ==
  /\ mem.free \cap Held = {}
  /\ Cardinality(Places) + Cardinality(pipes) = Cardinality(Held)

\* Unless no page was left for a page table, every page is free or in use: a
\* system call that fails for any other reason gives back all it took.
NothingLost == ~mem.notab => mem.free \cup Held = 1..NPAGES

\* No page stays mapped at or above sz when memory shrinks or does not grow, so
\* mappages() never meets one (panic "remap"); and copyuvm() finds every page
\* below sz unless a page table was refused or sbrk() unmapped all down to 0.
MappedToSz ==
  /\ mem.panic # "remap"
  /\ \A p \in Procs :
       /\ \A v \in 0..NUPAGES-1 : space[p].as.pte[v] # 0 => v * PGSIZE < space[p].sz
       /\ mem.notab \/ Present(p) \/ space[p].as.pte[0] = 0

\* allocuvm(): "Returns new size or 0 on error": the pages below the size that
\* a process was given are there.
MemoryBelowSz == \A p \in Procs : Present(p)

\* growproc(): "Return 0 on success, -1 on failure": after a failure the
\* process still has the memory it had.
FailedGrowKeeps ==
  [][\A p \in Procs : (\E n \in Sbrks : growproc(p, n)) /\ ret' = -1 => space'[p].as.pte = space[p].as.pte]_vars
=============================================================================
