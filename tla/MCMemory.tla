------------------------------ MODULE MCMemory ------------------------------
(* Memory with two processes, for TLC. *)
EXTENDS Memory

Seg(va, file, mem) == [va |-> va, file |-> file, mem |-> mem]

(* Programs of one and two segments. *)
MCPrograms == {<<Seg(0, 1, 1)>>, <<Seg(0, 2, 2), Seg(1, 1, 3)>>}
MCDeltas   == {1, 3, -3}

(* Which page is where makes no difference as long as each has one owner:  *)
(* states that agree on the shape of the page tables, the contents of user *)
(* pages and the number of free pages are explored once.                   *)
Shape(p) ==
  [sz     |-> proc[p].sz,
   tables |-> <<Cardinality(Tables(ram, proc[p].pt)),
                {va \in 0 .. MAXVA - 1 : LastTable(ram, proc[p].pt, va) # 0}>>,
   pages  |-> [i \in 0 .. Up(proc[p].sz) - 1 |->
                 LET pte == Walk(ram, proc[p].pt, i) IN
                 <<IF Valid(pte) THEN ram.mem[pte[1]] ELSE "", pte[2]>>]]

View == <<PagesOwned, ram.bad, Cardinality(ram.free), [p \in Live |-> Shape(p)]>>
=============================================================================
