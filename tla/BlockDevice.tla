----------------------------- MODULE BlockDevice ----------------------------
(***************************************************************************)
(* What the disk driver promises to the buffer cache: a request moves the  *)
(* contents between the caller's buffer and its block once, at some time   *)
(* between the call and the return.                                        *)
(***************************************************************************)
CONSTANTS Procs, Values

VARIABLES
  block,  \* contents of the block each process works on
  buf,    \* contents of its buffer
  req     \* "none", "read", "write" or "done"

vars == <<block, buf, req>>

Init ==
  /\ block \in [Procs -> Values]
  /\ buf \in [Procs -> Values]
  /\ req = [p \in Procs |-> "none"]

Read(p) ==
  /\ req[p] = "none"
  /\ req' = [req EXCEPT ![p] = "read"]
  /\ UNCHANGED <<block, buf>>

Write(p, v) ==
  /\ req[p] = "none"
  /\ buf' = [buf EXCEPT ![p] = v]
  /\ req' = [req EXCEPT ![p] = "write"]
  /\ UNCHANGED block

ServeRead(p) ==
  /\ req[p] = "read"
  /\ buf' = [buf EXCEPT ![p] = block[p]]
  /\ req' = [req EXCEPT ![p] = "done"]
  /\ UNCHANGED block

ServeWrite(p) ==
  /\ req[p] = "write"
  /\ block' = [block EXCEPT ![p] = buf[p]]
  /\ req' = [req EXCEPT ![p] = "done"]
  /\ UNCHANGED buf

Return(p) ==
  /\ req[p] = "done"
  /\ req' = [req EXCEPT ![p] = "none"]
  /\ UNCHANGED <<block, buf>>

Next == \E p \in Procs :
          \/ Read(p) \/ ServeRead(p) \/ ServeWrite(p) \/ Return(p)
          \/ \E v \in Values : Write(p, v)

Spec == Init /\ [][Next]_vars
=============================================================================
