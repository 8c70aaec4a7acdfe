-------------------------------- MODULE MCVm --------------------------------
(* Vm with programs of one and two segments.                               *)
EXTENDS Vm

Small == {<<2, 3>>, <<1>>}   \* of 8 and of 6 bytes with the stack
GrowsAndShrinks == {3, -3}   \* to 0 from 6 and 3, past 0 from 2

\* States that differ only in which page is where behave alike while no page is
\* at two places, so they are told apart by the shape of what is held.
Filled(f) == {x \in DOMAIN f : f[x] # 0}
Shape ==
  <<OwnedOnce, Cardinality(mem.free), mem.notab, mem.panic, Cardinality(pipes), ret,
    [p \in Procs |-> <<space[p].sz, space[p].kstack # 0, space[p].as.nou, Cardinality(space[p].as.ktabs),
                       Filled(space[p].as.tab), Filled(space[p].as.pte)>>]>>
=============================================================================
