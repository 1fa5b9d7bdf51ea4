----------------------------- MODULE AtomicDisk -----------------------------
(***************************************************************************)
(* What the log promises to the file system.  Operations change the view   *)
(* of the blocks and record the changes; the stable contents, which a      *)
(* crash falls back to, take over what is recorded in one step, and only   *)
(* while no operation is in progress.  So the blocks found after a crash   *)
(* are those that whole operations recorded.  A change that its operation  *)
(* gives up is seen by reads until it is forgotten, and becomes stable     *)
(* only together with a change of the block that is recorded.              *)
(***************************************************************************)
CONSTANTS Threads, Blocks, Values, InitValue

VARIABLES
  view,      \* what a read of each block returns
  stable,    \* what each block holds after a crash and recovery
  busy,      \* the blocks that a thread is changing
  recorded,  \* the blocks whose change is recorded and not yet stable
  active     \* the threads between begin_op() and end_op()

vars == <<view, stable, busy, recorded, active>>

Init ==
  /\ view     = [b \in Blocks |-> InitValue]
  /\ stable   = view
  /\ busy     = {}
  /\ recorded = {}
  /\ active   = {}

Begin(t) ==
  /\ t \notin active
  /\ active' = active \union {t}
  /\ UNCHANGED <<view, stable, busy, recorded>>

Write(t, b, v) ==
  /\ t \in active /\ b \notin busy
  /\ view' = [view EXCEPT ![b] = v]
  /\ busy' = busy \union {b}
  /\ UNCHANGED <<stable, recorded, active>>

Record(t, b) ==
  /\ t \in active /\ b \in busy
  /\ busy' = busy \ {b}
  /\ recorded' = recorded \union {b}
  /\ UNCHANGED <<view, stable, active>>

GiveUp(t, b) ==
  /\ t \in active /\ b \in busy
  /\ busy' = busy \ {b}
  /\ UNCHANGED <<view, stable, recorded, active>>

End(t) ==
  /\ t \in active
  /\ active' = active \ {t}
  /\ UNCHANGED <<view, stable, busy, recorded>>

Forget(b) ==
  /\ b \notin busy \union recorded
  /\ view' = [view EXCEPT ![b] = stable[b]]
  /\ UNCHANGED <<stable, busy, recorded, active>>

Commit ==
  /\ active = {}
  /\ stable' = [b \in Blocks |-> IF b \in recorded THEN view[b] ELSE stable[b]]
  /\ recorded' = {}
  /\ UNCHANGED <<view, busy, active>>

Crash ==
  /\ view' = stable
  /\ busy' = {} /\ recorded' = {} /\ active' = {}
  /\ UNCHANGED stable

Next ==
  \/ \E t \in Threads :
       \/ Begin(t) \/ End(t)
       \/ \E b \in Blocks :
            Record(t, b) \/ GiveUp(t, b) \/ \E v \in Values : Write(t, b, v)
  \/ \E b \in Blocks : Forget(b)
  \/ Commit
  \/ Crash

Spec == Init /\ [][Next]_vars
=============================================================================
