---------------------------- MODULE MCVirtioDisk ----------------------------
(* Instances of VirtioDisk for TLC. *)
EXTENDS VirtioDisk

(* The state without the values that are written before they are read      *)
(* again: write of an idle process, ops and info of a descriptor that is   *)
(* no request's head, ring entries that are not between the two indices.   *)
Heads == {d \in Descs : info[d].b # NoProc}

Pending ==
  LET n == ((availIdx + Word - devIdx) % Word)
             + (IF \E p \in Procs : pc[p] = "publish" THEN 1 ELSE 0)
  IN [k \in 0 .. n - 1 |-> avail[(devIdx + k) % NUM]]

Finished == [k \in 0 .. ((usedIdx + Word - used_idx) % Word) - 1 |-> used[(used_idx + k) % NUM]]

View ==
  <<free, desc, [d \in Heads |-> <<ops[d], info[d]>>], Pending, Finished,
    availIdx, devIdx, usedIdx, used_idx, inflight, notified, isr, block,
    bdisk, [p \in Procs |-> pc[p] # "idle" /\ write[p]], idx, pc, calls, vlock, buf>>
=============================================================================
