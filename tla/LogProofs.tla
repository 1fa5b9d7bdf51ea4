----------------------------- MODULE LogProofs ------------------------------
(***************************************************************************)
(* The log is crash-safe, for every set of threads and blocks and every    *)
(* size of the log: each step of Log preserves the inductive invariant     *)
(* IInv and is a step of AtomicDisk, and the theorems follow from it.      *)
(***************************************************************************)
EXTENDS Log, FiniteSetTheorems, TLAPS

(* A leaf is pure logic unless it cites SMT. *)
USE Zenon

(* A step that AtomicDisk does not see. *)
Unseen == UNCHANGED <<View, Recovered, Busy, Uncommitted, Active>>

-----------------------------------------------------------------------------
(* Operations, up to the commit point: begin_op() to write_log() *)

LEMMA InitIInv == Init => IInv
<1> SUFFICES ASSUME Init PROVE IInv
  OBVIOUS
<1> USE LogAssumption DEF Init
<1>1. TypeOK
  <2>1. pc \in [Threads -> Labels]   BY DEF Labels
  <2>2. dhead \in Seq(Blocks) /\ lh \in Seq(Blocks)   BY SMT
  <2>3. buf \in [Blocks -> Values \union {Absent}] /\ home \in [Blocks -> Values]   OBVIOUS
  <2> QED  BY <2>1, <2>2, <2>3 DEF TypeOK
<1>2. ~Running /\ Active = {} /\ ~Installing /\ ~WritingLog /\ \A t \in Threads : ~Commits(t)
  BY DEF Running, Panics, Active, Installing, WritingLog, Commits
<1>3. ThreadInv   BY <1>2, FS_EmptySet DEF ThreadInv, NoProtocolPanic
<1>4. OwnerInv    BY DEF OwnerInv
<1>5. HeadInv     BY <1>2, SMT DEF HeadInv
<1>6. DataInv     BY <1>2 DEF DataInv, Contents
<1>7. PinInv      BY <1>2 DEF PinInv
<1> QED  BY <1>1, <1>3, <1>4, <1>5, <1>6, <1>7 DEF IInv

(* A thread changes nothing but where it is, and not between operations,   *)
(* commits and the rest.                                                   *)
LEMMA PcStep ==
  ASSUME IInv, pc' \in [Threads -> Labels],
         \A t \in Threads : \/ pc'[t] = pc[t]
                            \/ pc[t] \in {"idle", "begin", "asleep"}
                               /\ pc'[t] \in {"idle", "begin", "asleep"},
         Running, UNCHANGED <<diskVars, bufVars, logVars, wrote, sys>>
  PROVE  IInv' /\ Unseen
<1> USE DEF diskVars, bufVars, logVars
<1>1. Running' /\ (Installing' <=> Installing) /\ (WritingLog' <=> WritingLog)
  BY DEF Running, Installing, WritingLog
<1>2. Active' = Active /\ Logged' = Logged /\ \A t \in Threads : Commits(t)' <=> Commits(t)
  BY DEF Active, Logged, Commits
<1>3. \A b : Contents(b)' = Contents(b)   BY DEF Contents
<1>4. TypeOK'     BY DEF IInv, TypeOK
<1>5. ThreadInv'  BY <1>1, <1>2 DEF IInv, ThreadInv, NoProtocolPanic
<1>6. OwnerInv'   BY DEF IInv, TypeOK, OwnerInv
<1>7. HeadInv'    BY <1>1, SMT DEF IInv, HeadInv
<1>8. DataInv'    BY <1>1, <1>2, <1>3 DEF IInv, DataInv
<1>9. Pinned' = Pinned   BY <1>1 DEF Pinned
<1>10. PinInv'    BY <1>1, <1>9 DEF IInv, PinInv
<1>11. View' = View /\ Recovered' = Recovered   BY <1>1, <1>3, SMT DEF View, Recovered
<1>12. Busy' = Busy /\ Uncommitted' = Uncommitted   BY <1>1, <1>2 DEF Busy, Uncommitted
<1> QED  BY <1>2, <1>4, <1>5, <1>6, <1>7, <1>8, <1>10, <1>11, <1>12 DEF IInv, Unseen

(* begin_op() counts the operation; nobody commits. *)
LEMMA BeginStep ==
  ASSUME IInv, NEW t \in Threads, Begin(t)
  PROVE  IInv' /\ Disk!Begin(t)
<1> USE DEF diskVars, bufVars, logVars, threadVars
<1>0. /\ sys = "up" /\ pc[t] = "begin" /\ ~committing
      /\ outstanding' = outstanding + 1
      /\ pc' = [pc EXCEPT ![t] = "op"]
      /\ UNCHANGED <<diskVars, bufVars, lh, committing, tail, wrote, sys>>
  BY DEF Begin, Up
<1>1. Running /\ Running' /\ (Installing' <=> Installing) /\ (WritingLog' <=> WritingLog)
  BY <1>0 DEF Running, Installing, WritingLog, IInv, TypeOK
<1>2. Active' = Active \union {t} /\ t \notin Active
  BY <1>0 DEF Active, IInv, TypeOK
<1>3. Logged' = Logged /\ (\A u \in Threads : Commits(u)' <=> Commits(u))
  BY <1>0 DEF Logged, Commits, IInv, TypeOK
<1>4. \A b : Contents(b)' = Contents(b)   BY <1>0 DEF Contents
<1>5. TypeOK'     BY <1>0, SMT DEF IInv, TypeOK, Labels
<1>6. ThreadInv'
  <2>1. IsFiniteSet(Active') /\ outstanding' = Cardinality(Active')
    BY <1>0, <1>2, FS_AddElement DEF IInv, ThreadInv
  <2> QED  BY <1>0, <1>1, <1>3, <2>1 DEF IInv, ThreadInv, NoProtocolPanic
<1>7. OwnerInv'   BY <1>0 DEF IInv, TypeOK, OwnerInv
<1>8. HeadInv'    BY <1>0, <1>1, SMT DEF IInv, HeadInv
<1>9. DataInv'    BY <1>0, <1>1, <1>3, <1>4 DEF IInv, DataInv
<1>10. Pinned' = Pinned   BY <1>0, <1>1 DEF Pinned
<1>11. PinInv'    BY <1>0, <1>1, <1>10 DEF IInv, PinInv
<1>12. View' = View /\ Recovered' = Recovered   BY <1>0, <1>1, <1>4, SMT DEF View, Recovered
<1>13. Busy' = Busy /\ Uncommitted' = Uncommitted   BY <1>0, <1>1, <1>3 DEF Busy, Uncommitted
<1> QED
  BY <1>2, <1>5, <1>6, <1>7, <1>8, <1>9, <1>11, <1>12, <1>13 DEF IInv, Disk!Begin

(* An operation changes a block that it has locked. *)
LEMMA ModifyStep ==
  ASSUME IInv, NEW t \in Threads, NEW b \in Blocks, NEW v \in Values, Modify(t, b, v)
  PROVE  IInv' /\ Disk!Write(t, b, v)
<1> USE LogAssumption DEF diskVars, bufVars, logVars, threadVars
<1>0. /\ Running /\ pc[t] = "op" /\ owner[b] = NoThread
      /\ owner' = [owner EXCEPT ![b] = t]
      /\ buf' = [buf EXCEPT ![b] = v]
      /\ pc' = [pc EXCEPT ![t] = "logw"]
      /\ UNCHANGED <<diskVars, pin, logVars, wrote, sys>>
  BY DEF Modify
<1>1. Running' /\ (Installing' <=> Installing) /\ (WritingLog' <=> WritingLog)
  BY <1>0 DEF Running, Installing, WritingLog, IInv, TypeOK
<1>2. Active' = Active /\ t \in Active
  BY <1>0 DEF Active, IInv, TypeOK
<1>3. Logged' = Logged /\ (\A u \in Threads : Commits(u)' <=> Commits(u))
  BY <1>0, SMT DEF Logged, Commits, IInv, TypeOK
<1>4. ~Installing /\ ~WritingLog
  BY <1>2 DEF IInv, ThreadInv, Installing, WritingLog, Commits
<1>5. \A c \in Blocks : Contents(c)' = IF c = b THEN v ELSE Contents(c)
  BY <1>0 DEF Contents, IInv, TypeOK
<1>6. TypeOK'     BY <1>0 DEF IInv, TypeOK, Labels
<1>7. ThreadInv'  BY <1>0, <1>1, <1>2, <1>3 DEF IInv, ThreadInv, NoProtocolPanic
<1>8. OwnerInv'   BY <1>0 DEF IInv, TypeOK, OwnerInv
<1>9. HeadInv'    BY <1>0, <1>1, SMT DEF IInv, HeadInv
<1>10. DataInv'   BY <1>0, <1>1, <1>3, <1>4, <1>5 DEF IInv, TypeOK, DataInv, ThreadInv
<1>11. Pinned' = Pinned   BY <1>0, <1>1 DEF Pinned
<1>12. PinInv'    BY <1>0, <1>1, <1>11 DEF IInv, PinInv
<1>13. Recovered' = Recovered   BY <1>0, SMT DEF Recovered
<1>14. View' = [View EXCEPT ![b] = v]   BY <1>0, <1>1, <1>5 DEF View
<1>15. Busy' = Busy \union {b} /\ b \notin Busy
  <2>1. \A c \in Blocks : owner'[c] # NoThread <=> owner[c] # NoThread \/ c = b
    BY <1>0 DEF IInv, TypeOK
  <2> QED  BY <1>0, <2>1 DEF Busy
<1>16. Uncommitted' = Uncommitted   BY <1>0, <1>1, <1>3 DEF Uncommitted
<1> QED
  BY <1>2, <1>6, <1>7, <1>8, <1>9, <1>10, <1>12, <1>13, <1>14, <1>15, <1>16 DEF IInv, Disk!Write

(* log_write() finds the operation counted; if the log is full it stops    *)
(* the machine, but nothing is lost.                                       *)
LEMMA LogWritePanicStep ==
  ASSUME IInv, NEW t \in Threads, NEW b \in Blocks, LogWritePanic(t, b)
  PROVE  IInv' /\ Unseen
<1> USE DEF diskVars, bufVars, logVars, threadVars
<1>1. t \in Active /\ outstanding >= 1
  <2>1. t \in Active   BY DEF LogWritePanic, Active
  <2>2. Cardinality(Active) # 0 /\ Cardinality(Active) \in Nat
    BY <2>1, FS_EmptySet, FS_CardinalityType DEF IInv, ThreadInv
  <2> QED  BY <2>1, <2>2, SMT DEF IInv, ThreadInv, TypeOK
<1>2. /\ UNCHANGED <<home, dlog, dhead, buf, pin, owner>>
      /\ UNCHANGED <<lh, outstanding, committing, tail, pc, wrote>>
  BY DEF LogWritePanic
<1>3. /\ Running /\ Running' /\ (Installing' <=> Installing) /\ (WritingLog' <=> WritingLog)
      /\ sys' # "boot1" /\ sys' # "boot2"
      /\ sys' \in {"boot1", "boot2", "up"} \union Panics /\ NoProtocolPanic'
  <2>1. ~(outstanding < 1)   BY <1>1, SMT DEF IInv, TypeOK
  <2>2. sys = "up" /\ sys' = "too big a transaction"   BY <2>1 DEF LogWritePanic, Up
  <2> QED  BY <1>2, <2>2 DEF Running, Panics, Installing, WritingLog, NoProtocolPanic
<1>4. Active' = Active /\ Logged' = Logged /\ \A u \in Threads : Commits(u)' <=> Commits(u)
  BY <1>2 DEF Active, Logged, Commits
<1>5. \A c : Contents(c)' = Contents(c)   BY <1>2 DEF Contents
<1>6. TypeOK'     BY <1>2, <1>3 DEF IInv, TypeOK
<1>7. ThreadInv'  BY <1>2, <1>3, <1>4 DEF IInv, ThreadInv
<1>8. OwnerInv'   BY <1>2 DEF IInv, OwnerInv
<1>9. HeadInv'    BY <1>2, <1>3, SMT DEF IInv, HeadInv
<1>10. DataInv'   BY <1>2, <1>3, <1>4, <1>5 DEF IInv, DataInv
<1>11. Pinned' = Pinned   BY <1>2, <1>3 DEF Pinned
<1>12. PinInv'    BY <1>2, <1>3, <1>11 DEF IInv, PinInv
<1>13. View' = View /\ Recovered' = Recovered   BY <1>2, <1>3, <1>5, SMT DEF View, Recovered
<1>14. Busy' = Busy /\ Uncommitted' = Uncommitted   BY <1>2, <1>3, <1>4 DEF Busy, Uncommitted
<1> QED  BY <1>4, <1>6, <1>7, <1>8, <1>9, <1>10, <1>12, <1>13, <1>14 DEF IInv, Unseen

(* While an operation is in progress nobody commits. *)
LEMMA ActiveFacts ==
  ASSUME IInv, NEW t \in Active
  PROVE  /\ ~committing /\ outstanding >= 1 /\ ~Installing /\ ~WritingLog
         /\ \A u \in Threads : ~Commits(u)
<1>1. ~committing /\ \A u \in Threads : ~Commits(u)   BY DEF IInv, ThreadInv
<1>2. ~Installing /\ ~WritingLog   BY <1>1 DEF Installing, WritingLog, Commits
<1>3. Cardinality(Active) # 0 /\ Cardinality(Active) \in Nat
  BY FS_EmptySet, FS_CardinalityType DEF IInv, ThreadInv
<1> QED  BY <1>1, <1>2, <1>3, SMT DEF IInv, ThreadInv

(* log_write() records a block once and pins its buffer, which the caller  *)
(* then releases.                                                          *)
LEMMA LogWriteStep ==
  ASSUME IInv, NEW t \in Threads, NEW b \in Blocks, LogWrite(t, b)
  PROVE  IInv' /\ Disk!Record(t, b)
<1> USE LogAssumption
<1>0. /\ Up /\ pc[t] = "logw" /\ owner[b] = t /\ ~LogFull
      /\ IF b \in Logged THEN lh' = lh /\ pin' = pin
                         ELSE lh' = Append(lh, b) /\ pin' = [pin EXCEPT ![b] = @ + 1]
      /\ owner' = [owner EXCEPT ![b] = NoThread]
      /\ wrote' = [wrote EXCEPT ![t] = @ \union {b}]
      /\ pc' = [pc EXCEPT ![t] = "op"]
      /\ UNCHANGED <<home, dlog, dhead, buf, outstanding, committing, tail, sys>>
  BY DEF LogWrite, diskVars
<1>1. Active' = Active /\ t \in Active   BY <1>0 DEF Active, IInv, TypeOK
<1>2. ~Installing /\ ~WritingLog /\ ~committing /\ \A u \in Threads : ~Commits(u)
  BY <1>1, ActiveFacts
<1>3. \A u \in Threads : ~Commits(u)'   BY <1>0, <1>2 DEF Commits, IInv, TypeOK
<1>4. ~Installing' /\ ~WritingLog'   BY <1>3 DEF Installing, WritingLog, Commits
<1>5. Running /\ Running' /\ sys = "up"   BY <1>0 DEF Running, Up
<1>6. \A c : Contents(c)' = Contents(c)   BY <1>0 DEF Contents
<1>7. Logged = {lh[k] : k \in 1 .. Len(lh)} /\ Logged \subseteq Blocks
  BY SMT DEF Logged, IInv, TypeOK
<1>8. Pinned = Logged   BY <1>2, <1>7 DEF Pinned
<1>9. /\ lh' \in Seq(Blocks) /\ Len(lh') <= LOGSIZE
      /\ \A j, k \in 1 .. Len(lh') : lh'[j] = lh'[k] => j = k
      /\ Logged' = Logged \union {b} /\ Pinned' = Logged \union {b}
      /\ pin' = [c \in Blocks |-> IF c \in Logged \union {b} THEN 1 ELSE 0]
  <2>1. CASE b \in Logged
    <3>1. lh' = lh /\ pin' = pin /\ Logged' = Logged   BY <1>0, <2>1 DEF Logged
    <3>2. Pinned' = Logged'   BY <1>4, <3>1, <1>7 DEF Pinned
    <3>3. pin' = [c \in Blocks |-> IF c \in Logged \union {b} THEN 1 ELSE 0]
      BY <3>1, <1>5, <1>8, <2>1 DEF IInv, PinInv, TypeOK
    <3>4. /\ lh \in Seq(Blocks) /\ Len(lh) <= LOGSIZE
          /\ \A j, k \in 1 .. Len(lh) : lh[j] = lh[k] => j = k
      BY DEF IInv, TypeOK, HeadInv
    <3>5. Logged = Logged \union {b}   BY <2>1
    <3> QED  BY <3>1, <3>2, <3>3, <3>4, <3>5
  <2>2. CASE b \notin Logged
    <3>1. lh' = Append(lh, b) /\ pin' = [pin EXCEPT ![b] = @ + 1]   BY <1>0, <2>2
    <3>2. lh' \in Seq(Blocks) /\ Len(lh') = Len(lh) + 1
      BY <3>1, SMT DEF IInv, TypeOK
    <3>3. /\ \A k \in 1 .. Len(lh) : lh'[k] = lh[k]
          /\ lh'[Len(lh) + 1] = b
      BY <3>1, SMT DEF IInv, TypeOK
    <3>4. Len(lh) < LOGSIZE   BY <1>0, SMT DEF LogFull, IInv, TypeOK
    <3>5. \A k \in 1 .. Len(lh) : lh[k] # b   BY <2>2, <1>7
    <3>6. \A j, k \in 1 .. Len(lh') : lh'[j] = lh'[k] => j = k
      <4>1. Len(lh) \in Nat /\ \A j, k \in 1 .. Len(lh) : lh[j] = lh[k] => j = k
        BY SMT DEF IInv, TypeOK, HeadInv
      <4>2. \A k \in 1 .. Len(lh') : k \in 1 .. Len(lh) \/ k = Len(lh) + 1
        BY <3>2, <4>1, SMT
      <4> QED  BY <3>3, <3>5, <4>1, <4>2
    <3>7. {lh'[k] : k \in 1 .. Len(lh')} = Logged \union {b}
      <4>1. Len(lh) \in Nat   BY SMT DEF IInv, TypeOK
      <4>2. 1 .. Len(lh') = 1 .. Len(lh) \union {Len(lh) + 1}   BY <3>2, <4>1, SMT
      <4> QED  BY <3>3, <4>2, <1>7, SMT
    <3>8. Logged' = Logged \union {b} /\ Pinned' = Logged \union {b}
      <4>1. DOMAIN lh' = 1 .. Len(lh')   BY <3>2, SMT
      <4>2. Logged' = {lh'[k] : k \in 1 .. Len(lh')}   BY <4>1 DEF Logged
      <4>3. Pinned' = {lh'[k] : k \in 1 .. Len(lh')}   BY <1>4 DEF Pinned
      <4> QED  BY <3>7, <4>2, <4>3
    <3>9. pin' = [c \in Blocks |-> IF c \in Logged \union {b} THEN 1 ELSE 0]
      <4>1. pin = [c \in Blocks |-> IF c \in Logged THEN 1 ELSE 0]
        BY <1>5, <1>8 DEF IInv, PinInv, TypeOK
      <4>2. pin[b] + 1 = 1   BY <4>1, <2>2, SMT
      <4> QED  BY <3>1, <4>1, <4>2
    <3> QED  BY <3>2, <3>4, <3>6, <3>8, <3>9, SMT DEF IInv, TypeOK
  <2> QED  BY <2>1, <2>2
<1>10. TypeOK'
  <2>1. pin' \in [Blocks -> Nat]   BY <1>9
  <2>2. owner' \in [Blocks -> Threads \union {NoThread}] /\ pc' \in [Threads -> Labels]
        /\ wrote' \in [Threads -> SUBSET Blocks]
    BY <1>0 DEF IInv, TypeOK, Labels
  <2> QED  BY <1>0, <1>9, <2>1, <2>2 DEF IInv, TypeOK
<1>11. ThreadInv'  BY <1>0, <1>1, <1>2, <1>3, <1>5 DEF IInv, ThreadInv, NoProtocolPanic
<1>12. OwnerInv'   BY <1>0 DEF IInv, TypeOK, OwnerInv
<1>13. HeadInv'
  <2>1. dhead = <<>> /\ tail = 0   BY <1>2, <1>5 DEF IInv, HeadInv
  <2> QED  BY <1>0, <1>4, <1>5, <1>9, <2>1, SMT DEF IInv, TypeOK, HeadInv
<1>14. DataInv'    BY <1>0, <1>4, <1>5 DEF DataInv
<1>15. PinInv'     BY <1>5, <1>9 DEF PinInv
<1>16. View' = View /\ Recovered' = Recovered   BY <1>0, <1>5, <1>6, SMT DEF View, Recovered
<1>17. Busy' = Busy \ {b} /\ b \in Busy   BY <1>0 DEF Busy, IInv, TypeOK
<1>18. Uncommitted' = Uncommitted \union {b}
  <2>1. dhead = <<>> /\ dhead' = <<>>   BY <1>0, <1>2, <1>5 DEF IInv, HeadInv
  <2> QED  BY <1>5, <1>9, <2>1 DEF Uncommitted
<1> QED
  BY <1>1, <1>10, <1>11, <1>12, <1>13, <1>14, <1>15, <1>16, <1>17, <1>18
     DEF IInv, Disk!Record

(* writei() gives up a change: the buffer stays as it is. *)
LEMMA GiveUpStep ==
  ASSUME IInv, NEW t \in Threads, NEW b \in Blocks, GiveUp(t, b)
  PROVE  IInv' /\ Disk!GiveUp(t, b)
<1> USE LogAssumption
<1>0. /\ Running /\ pc[t] = "logw" /\ owner[b] = t
      /\ owner' = [owner EXCEPT ![b] = NoThread]
      /\ pc' = [pc EXCEPT ![t] = "op"]
      /\ UNCHANGED <<home, dlog, dhead, buf, pin, lh, outstanding, committing, tail, wrote, sys>>
  BY DEF GiveUp, diskVars, logVars
<1>1. Running' /\ (Installing' <=> Installing) /\ (WritingLog' <=> WritingLog)
  BY <1>0 DEF Running, Installing, WritingLog, IInv, TypeOK
<1>2. Active' = Active /\ t \in Active   BY <1>0 DEF Active, IInv, TypeOK
<1>3. Logged' = Logged /\ (\A u \in Threads : Commits(u)' <=> Commits(u))
      /\ \A c : Contents(c)' = Contents(c)
  <2>1. \A u \in Threads : Commits(u)' <=> Commits(u)   BY <1>0 DEF Commits, IInv, TypeOK
  <2> QED  BY <1>0, <2>1 DEF Logged, Contents
<1>4. TypeOK'     BY <1>0 DEF IInv, TypeOK, Labels
<1>5. ThreadInv'  BY <1>0, <1>1, <1>2, <1>3 DEF IInv, ThreadInv, NoProtocolPanic
<1>6. OwnerInv'   BY <1>0 DEF IInv, TypeOK, OwnerInv
<1>7. HeadInv'    BY <1>0, <1>1, SMT DEF IInv, HeadInv
<1>8. DataInv'    BY <1>0, <1>1, <1>3 DEF IInv, DataInv
<1>9. Pinned' = Pinned   BY <1>0, <1>1 DEF Pinned
<1>10. PinInv'    BY <1>0, <1>1, <1>9 DEF IInv, PinInv
<1>11. View' = View /\ Recovered' = Recovered   BY <1>0, <1>1, <1>3, SMT DEF View, Recovered
<1>12. Busy' = Busy \ {b} /\ b \in Busy   BY <1>0 DEF Busy, IInv, TypeOK
<1>13. Uncommitted' = Uncommitted   BY <1>0, <1>1, <1>3 DEF Uncommitted
<1> QED
  BY <1>2, <1>4, <1>5, <1>6, <1>7, <1>8, <1>10, <1>11, <1>12, <1>13 DEF IInv, Disk!GiveUp

(* end_op() of the last operation makes the caller the one committer; any  *)
(* other end_op() leaves the log alone.                                    *)
LEMMA EndStep ==
  ASSUME IInv, NEW t \in Threads, End(t)
  PROVE  IInv' /\ Disk!End(t)
<1>1. Up /\ pc[t] = "op" /\ t \in Active   BY DEF End, Active
<1>2. ~Installing /\ ~WritingLog /\ ~committing /\ outstanding >= 1
      /\ \A u \in Threads : ~Commits(u)
  BY <1>1, ActiveFacts
<1>3. /\ outstanding' = outstanding - 1
      /\ committing' = (outstanding = 1)
      /\ \/ outstanding > 1 /\ GotoAndWakeup(t, "idle")
         \/ outstanding = 1 /\ pc' = [pc EXCEPT ![t] = IF lh = <<>> THEN "done" ELSE "wlog"]
      /\ wrote' = [wrote EXCEPT ![t] = {}]
      /\ UNCHANGED <<home, dlog, dhead, buf, pin, owner, lh, tail, sys>>
  <2>1. /\ outstanding' = outstanding - 1
        /\ committing' = (outstanding = 1)
        /\ IF outstanding > 1
             THEN GotoAndWakeup(t, "idle")
             ELSE pc' = [pc EXCEPT ![t] = IF lh = <<>> THEN "done" ELSE "wlog"]
        /\ wrote' = [wrote EXCEPT ![t] = {}]
        /\ UNCHANGED <<home, dlog, dhead, buf, pin, owner, lh, tail, sys>>
    BY <1>2 DEF End, diskVars, bufVars
  <2>2. outstanding > 1 \/ (outstanding = 1 /\ ~(outstanding > 1))
    BY <1>2, SMT DEF IInv, TypeOK
  <2> QED  BY <2>1, <2>2
<1>4. pc' \in [Threads -> Labels]   BY <1>3 DEF GotoAndWakeup, IInv, TypeOK, Labels
<1>5. \A u \in Threads \ {t} :
         /\ pc'[u] \in {"op", "logw"} <=> pc[u] \in {"op", "logw"}
         /\ pc[u] = "logw" => pc'[u] = "logw"
         /\ ~Commits(u)'
  BY <1>2, <1>3 DEF GotoAndWakeup, IInv, TypeOK, Commits
<1>6. /\ pc'[t] \notin {"op", "logw", "inst"}
      /\ Commits(t)' <=> outstanding = 1
  BY <1>3, SMT DEF GotoAndWakeup, IInv, TypeOK, Commits
<1>7. Active' = Active \ {t}   BY <1>1, <1>5, <1>6 DEF Active
<1>8. Running /\ Running' /\ ~Installing'
  BY <1>1, <1>3, <1>5, <1>6 DEF Running, Up, Installing, Commits
<1>9. Logged' = Logged /\ (\A c : Contents(c)' = Contents(c))
  BY <1>3 DEF Logged, Contents
<1>10. TypeOK'
  <2>1. outstanding' \in Nat /\ committing' \in BOOLEAN   BY <1>2, <1>3, SMT DEF IInv, TypeOK
  <2>2. wrote' \in [Threads -> SUBSET Blocks]   BY <1>3 DEF IInv, TypeOK
  <2> QED  BY <1>3, <1>4, <2>1, <2>2 DEF IInv, TypeOK
<1>11. ThreadInv'
  <2>1. IsFiniteSet(Active') /\ outstanding' = Cardinality(Active')
    BY <1>1, <1>3, <1>7, FS_RemoveElement DEF IInv, ThreadInv
  <2>2. committing' => Active' = {}
    <3>1. outstanding = 1 => outstanding' = 0   BY <1>3, SMT
    <3> QED  BY <1>3, <3>1, <2>1, FS_EmptySet
  <2>3. committing' <=> Commits(t)'   BY <1>3, <1>6
  <2>4. NoProtocolPanic'   BY <1>3 DEF IInv, ThreadInv, NoProtocolPanic
  <2> QED  BY <1>5, <1>8, <2>1, <2>2, <2>3, <2>4 DEF ThreadInv
<1>12. OwnerInv'   BY <1>1, <1>3, <1>5 DEF IInv, TypeOK, OwnerInv
<1>13. tail = 0 /\ dhead = <<>>   BY <1>2, <1>8 DEF IInv, HeadInv
<1>14. HeadInv'    BY <1>3, <1>8, <1>13, SMT DEF IInv, HeadInv
<1>15. DataInv'    BY <1>1, <1>3, <1>8, <1>9, <1>13, SMT DEF IInv, DataInv, Up
<1>16. Pinned' = Pinned   BY <1>2, <1>3, <1>8 DEF Pinned
<1>17. PinInv'     BY <1>3, <1>8, <1>16 DEF IInv, PinInv
<1>18. View' = View /\ Recovered' = Recovered   BY <1>3, <1>8, <1>9, SMT DEF View, Recovered
<1>19. Busy' = Busy /\ Uncommitted' = Uncommitted   BY <1>3, <1>8, <1>9 DEF Busy, Uncommitted
<1> QED
  BY <1>1, <1>7, <1>10, <1>11, <1>12, <1>14, <1>15, <1>17, <1>18, <1>19 DEF IInv, Disk!End

(* A committer is alone: no operation is in progress and no buffer locked. *)
LEMMA CommitterFacts ==
  ASSUME IInv, NEW t \in Threads, Commits(t)
  PROVE  /\ committing /\ Active = {} /\ \A b \in Blocks : owner[b] = NoThread
         /\ \A u \in Threads : Commits(u) => u = t
         /\ Running
<1>1. committing /\ Active = {} /\ \A u \in Threads : Commits(u) => u = t
  BY DEF IInv, ThreadInv
<1>2. \A b \in Blocks : owner[b] = NoThread
  BY <1>1 DEF IInv, TypeOK, OwnerInv, Active
<1>3. Running   BY DEF IInv, ThreadInv, Commits
<1> QED  BY <1>1, <1>2, <1>3

(* write_log() copies a block to the log; the header on disk is empty, so  *)
(* that a crash still finds the old contents.                              *)
LEMMA WriteLogStep ==
  ASSUME IInv, NEW t \in Threads, WriteLog(t)
  PROVE  IInv' /\ Unseen
<1> DEFINE b == lh[tail + 1]
<1>1. /\ pc[t] = "wlog" /\ tail < Len(lh)
      /\ buf' = [buf EXCEPT ![b] = Contents(b)]
      /\ dlog' = [dlog EXCEPT ![tail + 1] = Contents(b)]
      /\ tail' = tail + 1
      /\ UNCHANGED <<home, dhead, pin, owner, lh, outstanding, committing, pc, wrote, sys>>
  BY DEF WriteLog, threadVars
<1>2. /\ Running /\ (\A c \in Blocks : owner[c] = NoThread)
      /\ \A u \in Threads : Commits(u) => u = t
  BY <1>1, CommitterFacts DEF Commits
<1>3. WritingLog /\ ~Installing   BY <1>1, <1>2 DEF WritingLog, Installing, Commits
<1>4. Running' /\ WritingLog' /\ ~Installing' /\ Active' = Active /\ Logged' = Logged
      /\ \A u \in Threads : Commits(u)' <=> Commits(u)
  BY <1>1, <1>2, <1>3 DEF Running, WritingLog, Installing, Active, Logged, Commits
<1>5. /\ tail + 1 \in 1 .. Len(lh) /\ tail + 1 \in 1 .. LOGSIZE /\ b \in Blocks
      /\ \A k \in 1 .. tail : k \in 1 .. Len(lh) /\ k \in 1 .. LOGSIZE /\ k # tail + 1
  <2>1. tail \in Nat /\ Len(lh) \in Nat /\ LOGSIZE \in Nat /\ Len(lh) <= LOGSIZE
        /\ lh \in Seq(Blocks)
    BY LogAssumption, SMT DEF IInv, TypeOK, HeadInv
  <2>2. tail + 1 \in 1 .. Len(lh) /\ tail + 1 \in 1 .. LOGSIZE   BY <1>1, <2>1, SMT
  <2> QED  BY <1>1, <2>1, <2>2, SMT
<1>6. /\ \A c \in Blocks : Contents(c) \in Values
      /\ \A c \in Blocks : Contents(c)' = Contents(c)
  BY <1>1, <1>5, LogAssumption DEF Contents, IInv, TypeOK
<1>7. TypeOK'
  <2>1. buf' \in [Blocks -> Values \union {Absent}] /\ dlog' \in [1 .. LOGSIZE -> Values]
    BY <1>1, <1>5, <1>6 DEF IInv, TypeOK
  <2> QED  BY <1>1, <2>1, SMT DEF IInv, TypeOK
<1>8. ThreadInv'   BY <1>1, <1>2, <1>4 DEF IInv, ThreadInv, NoProtocolPanic
<1>9. OwnerInv'    BY <1>1, <1>2 DEF OwnerInv
<1>10. HeadInv'    BY <1>1, <1>2, <1>3, <1>4, <1>5, SMT DEF IInv, TypeOK, HeadInv
<1>11. DataInv'
  <2>1. (\A k \in 1 .. tail : dlog[k] = Contents(lh[k]))'
    <3>1. ASSUME NEW k \in 1 .. tail + 1
          PROVE  dlog'[k] = Contents(lh[k])
      <4>1. CASE k = tail + 1   BY <4>1, <1>1, <1>5 DEF IInv, TypeOK
      <4>2. CASE k \in 1 .. tail   BY <4>2, <1>1, <1>3, <1>5 DEF IInv, TypeOK, DataInv
      <4> QED  BY <4>1, <4>2, SMT DEF IInv, TypeOK
    <3>2. \A k \in 1 .. tail + 1 : lh[k] \in Blocks
      BY <1>5, SMT DEF IInv, TypeOK
    <3> QED  BY <1>1, <1>6, <3>1, <3>2, SMT DEF Contents
  <2>2. sys' # "boot2"   BY <1>1, <1>2 DEF Running, Panics
  <2> QED  BY <1>1, <1>4, <2>1, <2>2 DEF DataInv
<1>12. Pinned' = Pinned   BY <1>1, <1>3, <1>4 DEF Pinned
<1>13. PinInv'     BY <1>1, <1>2, <1>4, <1>12 DEF IInv, PinInv
<1>14. View' = View   BY <1>2, <1>4, <1>6 DEF View
<1>15. Recovered' = Recovered
  <2>1. dhead = <<>> /\ dhead' = <<>>   BY <1>1, <1>2, <1>3 DEF IInv, HeadInv
  <2>2. \A c \in Blocks : {k \in DOMAIN dhead : dhead[k] = c} = {}   BY <2>1, SMT
  <2> QED  BY <1>1, <2>1, <2>2, SMT DEF Recovered
<1>16. Busy' = Busy /\ Uncommitted' = Uncommitted   BY <1>1, <1>2, <1>4 DEF Busy, Uncommitted
<1> QED
  BY <1>4, <1>7, <1>8, <1>9, <1>10, <1>11, <1>13, <1>14, <1>15, <1>16 DEF IInv, Unseen

-----------------------------------------------------------------------------
(* The commit point and what follows it, crashes and recovery *)

(* In a header without duplicates a block has one place at most. *)
LEMMA OnePlace ==
  ASSUME NEW h \in Seq(Blocks), NEW k \in 1 .. Len(h),
         \A i, j \in 1 .. Len(h) : h[i] = h[j] => i = j
  PROVE  LET ks == {i \in DOMAIN h : h[i] = h[k]} IN
         ks # {} /\ (CHOOSE i \in ks : \A m \in ks : m <= i) = k
<1> DEFINE ks == {i \in DOMAIN h : h[i] = h[k]}
<1>1. DOMAIN h = 1 .. Len(h)   BY SMT
<1>2. ks = {k}   BY <1>1
<1>3. k <= k   BY SMT
<1> HIDE DEF ks
<1>4. (CHOOSE i \in ks : \A m \in ks : m <= i) = k   BY <1>2, <1>3
<1>5. ks # {} /\ (CHOOSE i \in ks : \A m \in ks : m <= i) = k   BY <1>2, <1>4
<1> QED  BY <1>5 DEF ks

(* What recovery makes of a block, from the header, the log and the home   *)
(* location on disk.                                                       *)
LEMMA RecoveredValue ==
  ASSUME TypeOK, HeadInv
  PROVE  /\ \A k \in 1 .. Len(dhead) : Recovered[dhead[k]] = dlog[k]
         /\ \A b \in Blocks : (\A k \in 1 .. Len(dhead) : dhead[k] # b) => Recovered[b] = home[b]
         /\ dhead = <<>> => Recovered = home
<1>1. ASSUME NEW k \in 1 .. Len(dhead)
      PROVE  Recovered[dhead[k]] = dlog[k]
  <2> DEFINE ks == {i \in DOMAIN dhead : dhead[i] = dhead[k]}
  <2>1. dhead \in Seq(Blocks) /\ dhead[k] \in Blocks   BY SMT DEF TypeOK
  <2>2. ks # {} /\ (CHOOSE i \in ks : \A m \in ks : m <= i) = k
    BY <2>1, OnePlace DEF HeadInv
  <2> QED  BY <2>1, <2>2 DEF Recovered
<1>2. ASSUME NEW b \in Blocks, \A k \in 1 .. Len(dhead) : dhead[k] # b
      PROVE  Recovered[b] = home[b]
  <2>1. {k \in DOMAIN dhead : dhead[k] = b} = {}   BY <1>2, SMT DEF TypeOK
  <2> QED  BY <2>1 DEF Recovered
<1>3. ASSUME dhead = <<>>
      PROVE  Recovered = home
  <2>1. \A b \in Blocks : {k \in DOMAIN dhead : dhead[k] = b} = {}   BY <1>3, SMT
  <2>2. Recovered = [b \in Blocks |-> home[b]]   BY <2>1 DEF Recovered
  <2> QED  BY <2>2 DEF TypeOK
<1> QED  BY <1>1, <1>2, <1>3

(* bget() recycling a buffer: what a crash would find is at home, and so   *)
(* are the contents of a logged block.                                     *)
LEMMA EvictStep ==
  ASSUME IInv, NEW b \in Blocks, Evict(b)
  PROVE  IInv' /\ Disk!Forget(b)
<1> USE LogAssumption DEF diskVars, bufVars, logVars, threadVars
<1>0. /\ Running /\ buf[b] # Absent /\ pin[b] = 0 /\ owner[b] = NoThread
      /\ buf' = [buf EXCEPT ![b] = Absent]
      /\ UNCHANGED <<diskVars, pin, owner, logVars, threadVars, sys>>
  BY DEF Evict
<1>1. Running' /\ (Installing' <=> Installing) /\ (WritingLog' <=> WritingLog)
  BY <1>0 DEF Running, Installing, WritingLog
<1>2. Active' = Active /\ Logged' = Logged /\ \A t \in Threads : Commits(t)' <=> Commits(t)
  BY <1>0 DEF Active, Logged, Commits
<1>3. ASSUME b \in Logged
      PROVE  Installing /\ \E k \in 1 .. tail : k \in 1 .. Len(lh) /\ lh[k] = b
  <2>1. b \notin Pinned   BY <1>0, SMT DEF IInv, PinInv
  <2>2. PICK k \in 1 .. Len(lh) : lh[k] = b   BY <1>3, SMT DEF Logged, IInv, TypeOK
  <2>3. Installing /\ k <= tail   BY <2>1, <2>2, SMT DEF Pinned, IInv, TypeOK
  <2> QED  BY <2>2, <2>3, SMT DEF IInv, TypeOK
<1>4. b \in Logged => Contents(b) = home[b]
  BY <1>3 DEF IInv, DataInv
<1>5. \A c \in Blocks : Contents(c)' = IF c = b THEN home[b] ELSE Contents(c)
  BY <1>0 DEF Contents, IInv, TypeOK
<1>6. \A k \in 1 .. Len(lh) : lh[k] \in Blocks /\ lh[k] \in Logged
  BY SMT DEF IInv, TypeOK, Logged
<1>7. \A k \in 1 .. Len(lh) : Contents(lh[k])' = Contents(lh[k])
  <2> TAKE k \in 1 .. Len(lh)
  <2>1. PICK c \in Blocks : c = lh[k] /\ c \in Logged   BY <1>6
  <2>2. Contents(c)' = Contents(c)   BY <1>4, <1>5, <2>1
  <2> QED  BY <1>0, <2>1, <2>2 DEF Contents
<1>8. TypeOK'     BY <1>0 DEF IInv, TypeOK
<1>9. ThreadInv'  BY <1>0, <1>1, <1>2 DEF IInv, ThreadInv, NoProtocolPanic
<1>10. OwnerInv'  BY <1>0 DEF IInv, TypeOK, OwnerInv
<1>11. HeadInv'   BY <1>0, <1>1, SMT DEF IInv, HeadInv
<1>12. DataInv'
  <2>1. tail \in Nat /\ Len(lh) \in Nat /\ tail <= Len(lh)   BY SMT DEF IInv, TypeOK, HeadInv
  <2>2. \A k \in 1 .. tail : k \in 1 .. Len(lh)   BY <2>1, SMT
  <2> QED  BY <1>0, <1>1, <1>7, <2>2 DEF IInv, DataInv
<1>13. PinInv'
  <2>1. Pinned' = Pinned   BY <1>0, <1>1 DEF Pinned
  <2> QED  BY <1>0, <1>1, <2>1 DEF IInv, PinInv
<1>14. Recovered' = Recovered   BY <1>0, SMT DEF Recovered
<1>15. Busy' = Busy /\ Uncommitted' = Uncommitted
  BY <1>0, <1>1, <1>2 DEF Busy, Uncommitted
<1>16. Recovered[b] = home[b] /\ b \notin Uncommitted
  <2>1. CASE b \in Logged
    <3>1. PICK k \in 1 .. tail : k \in 1 .. Len(lh) /\ lh[k] = b   BY <1>3, <2>1
    <3>2. Installing /\ dhead = lh   BY <1>0, <1>3, <2>1 DEF IInv, HeadInv
    <3>3. Recovered[b] = dlog[k]   BY <3>1, <3>2, RecoveredValue DEF IInv
    <3>4. home[b] = dlog[k]   BY <3>1, <3>2 DEF IInv, DataInv
    <3>5. dhead # <<>>   BY <3>1, <3>2, SMT
    <3> QED  BY <3>3, <3>4, <3>5 DEF Uncommitted
  <2>2. CASE b \notin Logged
    <3>1. \A k \in 1 .. Len(lh) : lh[k] # b   BY <2>2, <1>6
    <3>2. dhead = lh \/ dhead = <<>>   BY <1>0 DEF IInv, HeadInv
    <3>3. Recovered[b] = home[b]   BY <3>1, <3>2, RecoveredValue DEF IInv
    <3> QED  BY <2>2, <3>3 DEF Uncommitted
  <2> QED  BY <2>1, <2>2
<1>17. View' = [View EXCEPT ![b] = Recovered[b]]
  <2>1. View = [c \in Blocks |-> Contents(c)] /\ View' = [c \in Blocks |-> Contents(c)']
    BY <1>0, <1>1 DEF View
  <2> QED  BY <1>5, <1>16, <2>1
<1>18. b \notin Busy   BY <1>0 DEF Busy
<1> QED
  BY <1>2, <1>8, <1>9, <1>10, <1>11, <1>12, <1>13, <1>14, <1>15, <1>16, <1>17, <1>18
     DEF IInv, Disk!Forget

(* write_head() commits: from here on a crash finds the new contents of    *)
(* every logged block, and the others where they were.                     *)
LEMMA WriteHeadStep ==
  ASSUME IInv, NEW t \in Threads, WriteHead(t)
  PROVE  IInv' /\ Disk!Commit
<1>1. /\ pc[t] = "wlog" /\ tail = Len(lh)
      /\ dhead' = lh /\ tail' = 0 /\ pc' = [pc EXCEPT ![t] = "inst"]
      /\ UNCHANGED <<home, dlog, buf, pin, owner, lh, outstanding, committing, wrote, sys>>
  BY DEF WriteHead, bufVars
<1>2. /\ Running /\ committing /\ Active = {} /\ (\A c \in Blocks : owner[c] = NoThread)
      /\ \A u \in Threads : Commits(u) => u = t
  BY <1>1, CommitterFacts DEF Commits
<1>3. WritingLog /\ ~Installing   BY <1>1, <1>2 DEF WritingLog, Installing, Commits
<1>4. /\ Running' /\ Active' = Active /\ Logged' = Logged
      /\ \A u \in Threads : Commits(u)' <=> Commits(u)
  BY <1>1, <1>2 DEF Running, Active, Logged, Commits, IInv, TypeOK
<1>5. Installing' /\ ~WritingLog'
  BY <1>1, <1>2 DEF WritingLog, Installing, Commits, IInv, TypeOK
<1>6. \A c : Contents(c)' = Contents(c)   BY <1>1 DEF Contents
<1>7. TypeOK'
  <2>1. pc' \in [Threads -> Labels]   BY <1>1 DEF IInv, TypeOK, Labels
  <2> QED  BY <1>1, <2>1 DEF IInv, TypeOK
<1>8. ThreadInv'   BY <1>1, <1>2, <1>4 DEF IInv, ThreadInv, NoProtocolPanic
<1>9. OwnerInv'    BY <1>1, <1>2 DEF OwnerInv
<1>10. HeadInv'
  <2>1. sys' # "boot1" /\ sys' # "boot2"   BY <1>1, <1>2 DEF Running, Panics
  <2> QED  BY <1>1, <1>4, <1>5, <2>1, SMTT(30) DEF IInv, TypeOK, HeadInv
<1>11. \A k \in 1 .. Len(lh) : dlog[k] = Contents(lh[k])
  BY <1>1, <1>3 DEF IInv, DataInv
<1>12. dhead = <<>> /\ Recovered = home
  BY <1>2, <1>3, RecoveredValue DEF IInv, HeadInv
<1>13. DataInv'
  <2>1. (\A k \in 1 .. Len(lh) : dlog[k] = Contents(lh[k]))'
    BY <1>1, <1>11 DEF Contents
  <2> QED  BY <1>1, <1>4, <1>5, <1>6, <2>1, SMT DEF DataInv
<1>14. PinInv'
  <2>1. Pinned' = {lh[k] : k \in 1 .. Len(lh)}
    <3>1. {i \in 1 .. Len(lh) : i > 0} = 1 .. Len(lh)   BY SMT DEF IInv, TypeOK
    <3> QED  BY <1>1, <1>5, <3>1 DEF Pinned
  <2>2. Pinned = {lh[k] : k \in 1 .. Len(lh)}   BY <1>3 DEF Pinned
  <2> QED  BY <1>1, <1>2, <1>4, <2>1, <2>2 DEF IInv, PinInv
<1>15. View' = View   BY <1>2, <1>4, <1>6 DEF View
<1>16. Recovered' = [b \in Blocks |-> IF b \in Logged THEN View[b] ELSE Recovered[b]]
  <2>1. /\ \A k \in 1 .. Len(lh) : Recovered'[lh[k]] = dlog[k]
        /\ \A b \in Blocks : (\A k \in 1 .. Len(lh) : lh[k] # b) => Recovered'[b] = home[b]
    <3>1. (/\ \A k \in 1 .. Len(dhead) : Recovered[dhead[k]] = dlog[k]
           /\ \A b \in Blocks : (\A k \in 1 .. Len(dhead) : dhead[k] # b)
                                  => Recovered[b] = home[b])'
      BY <1>7, <1>10, RecoveredValue, PTL
    <3> QED  BY <1>1, <3>1
  <2>2. Logged = {lh[k] : k \in 1 .. Len(lh)}   BY SMTT(30) DEF Logged, IInv, TypeOK
  <2>3. \A b \in Blocks : Recovered'[b] = IF b \in Logged THEN Contents(b) ELSE home[b]
    <3>1. ASSUME NEW b \in Blocks, b \in Logged
          PROVE  Recovered'[b] = Contents(b)
      <4>1. PICK k \in 1 .. Len(lh) : b = lh[k]   BY <3>1, <2>2
      <4> QED  BY <4>1, <1>11, <2>1
    <3>2. ASSUME NEW b \in Blocks, b \notin Logged
          PROVE  Recovered'[b] = home[b]
      BY <3>2, <2>1, <2>2
    <3> QED  BY <3>1, <3>2
  <2>4. Recovered' = [b \in Blocks |-> Recovered'[b]]   BY SMT DEF Recovered
  <2>5. \A b \in Blocks : View[b] = Contents(b)   BY <1>2 DEF View
  <2> QED  BY <1>12, <2>3, <2>4, <2>5
<1>17. Uncommitted = Logged   BY <1>2, <1>12 DEF Uncommitted
<1>18. Uncommitted' = {}
  <2>1. lh = <<>> => Logged = {}   BY SMT DEF Logged
  <2> QED  BY <1>1, <1>4, <2>1 DEF Uncommitted
<1>19. Busy' = Busy   BY <1>1 DEF Busy
<1> QED
  BY <1>2, <1>4, <1>7, <1>8, <1>9, <1>10, <1>13, <1>14, <1>15, <1>16, <1>17, <1>18, <1>19
     DEF IInv, Disk!Commit

(* install_trans() writes home what a crash would find there already. *)
LEMMA InstallStep ==
  ASSUME IInv, NEW t \in Threads, Install(t)
  PROVE  IInv' /\ Unseen
<1>1. /\ pc[t] = "inst" /\ tail < Len(lh)
      /\ buf' = [buf EXCEPT ![lh[tail + 1]] = dlog[tail + 1]]
      /\ home' = [home EXCEPT ![lh[tail + 1]] = dlog[tail + 1]]
      /\ pin' = [pin EXCEPT ![lh[tail + 1]] = @ - 1]
      /\ tail' = tail + 1
      /\ UNCHANGED <<dlog, dhead, owner, lh, outstanding, committing, pc, wrote, sys>>
  BY DEF Install, threadVars
<1>2. /\ Running /\ (\A c \in Blocks : owner[c] = NoThread)
      /\ \A u \in Threads : Commits(u) => u = t
  BY <1>1, CommitterFacts DEF Commits
<1>3. ~WritingLog /\ Installing   BY <1>1, <1>2 DEF WritingLog, Installing, Commits
<1>4. Running' /\ ~WritingLog' /\ Installing' /\ Active' = Active /\ Logged' = Logged
      /\ \A u \in Threads : Commits(u)' <=> Commits(u)
  BY <1>1, <1>2, <1>3 DEF Running, WritingLog, Installing, Active, Logged, Commits
<1>5. /\ tail \in Nat /\ Len(lh) \in Nat /\ lh \in Seq(Blocks) /\ dhead = lh
      /\ LOGSIZE \in Nat /\ Len(lh) <= LOGSIZE
      /\ \A j, k \in 1 .. Len(lh) : lh[j] = lh[k] => j = k
  BY <1>2, <1>3, LogAssumption, SMT DEF IInv, TypeOK, HeadInv
<1>6. /\ tail + 1 \in 1 .. Len(lh) /\ tail + 1 \in 1 .. LOGSIZE
      /\ \A k \in 1 .. Len(lh) : lh[k] \in Blocks
      /\ \A k \in 1 .. tail : k \in 1 .. Len(lh) /\ lh[k] # lh[tail + 1]
  BY <1>1, <1>5, SMT
<1>7. PICK b \in Blocks : b = lh[tail + 1]   BY <1>6
<1>8. PICK v \in Values : v = dlog[tail + 1]   BY <1>6 DEF IInv, TypeOK
<1>9. /\ buf' = [buf EXCEPT ![b] = v] /\ home' = [home EXCEPT ![b] = v]
      /\ pin' = [pin EXCEPT ![b] = @ - 1]
  BY <1>1, <1>7, <1>8
<1>10. Contents(b) = v /\ b \in Logged
  <2>1. DOMAIN lh = 1 .. Len(lh)   BY <1>5, SMT
  <2>2. b \in Logged   BY <1>6, <1>7, <2>1 DEF Logged
  <2> QED  BY <1>3, <1>6, <1>7, <1>8, <2>2 DEF IInv, DataInv
<1>11. \A c \in Blocks : Contents(c)' = Contents(c)
  BY <1>9, <1>10, LogAssumption DEF Contents, IInv, TypeOK
<1>12. pin[b] = 1 /\ b \in Pinned
  <2>1. b \in Pinned   BY <1>3, <1>5, <1>6, <1>7, SMT DEF Pinned
  <2> QED  BY <1>2, <2>1 DEF IInv, PinInv
<1>13. TypeOK'
  <2>1. /\ buf' \in [Blocks -> Values \union {Absent}]
        /\ home' \in [Blocks -> Values] /\ pin' \in [Blocks -> Nat]
    BY <1>9, <1>12, SMT DEF IInv, TypeOK
  <2> QED  BY <1>1, <2>1, SMT DEF IInv, TypeOK
<1>14. ThreadInv'   BY <1>1, <1>2, <1>4 DEF IInv, ThreadInv, NoProtocolPanic
<1>15. OwnerInv'    BY <1>1, <1>2 DEF OwnerInv
<1>16. sys' # "boot1" /\ sys' # "boot2"   BY <1>1, <1>2 DEF Running, Panics
<1>17. HeadInv'     BY <1>1, <1>4, <1>5, <1>6, <1>16, SMT DEF IInv, HeadInv
<1>18. DataInv'
  <2>1. (\A k \in 1 .. Len(lh) : dlog[k] = Contents(lh[k]))'
    <3>1. \A k \in 1 .. Len(lh) : dlog[k] = Contents(lh[k])   BY <1>3 DEF IInv, DataInv
    <3> QED  BY <1>1, <1>6, <1>11, <3>1 DEF Contents
  <2>2. \A k \in 1 .. tail + 1 : home'[lh[k]] = dlog[k]
    <3> TAKE k \in 1 .. tail + 1
    <3>1. CASE k = tail + 1   BY <3>1, <1>7, <1>8, <1>9 DEF IInv, TypeOK
    <3>2. CASE k \in 1 .. tail
      <4>1. home[lh[k]] = dlog[k] /\ lh[k] # b /\ lh[k] \in Blocks
        BY <3>2, <1>3, <1>6, <1>7 DEF IInv, DataInv
      <4> QED  BY <4>1, <1>9 DEF IInv, TypeOK
    <3> QED  BY <3>1, <3>2, <1>5, SMT
  <2> QED  BY <1>1, <1>4, <1>16, <2>1, <2>2 DEF DataInv
<1>19. PinInv'
  <2>1. Pinned' = Pinned \ {b}
    <3>1. Pinned = {lh[k] : k \in {i \in 1 .. Len(lh) : i > tail}}   BY <1>3 DEF Pinned
    <3>2. Pinned' = {lh[k] : k \in {i \in 1 .. Len(lh) : i > tail + 1}}   BY <1>1, <1>4 DEF Pinned
    <3>3. \A k \in 1 .. Len(lh) : k > tail <=> k > tail + 1 \/ k = tail + 1   BY <1>5, SMT
    <3>4. \A k \in 1 .. Len(lh) : k > tail + 1 => lh[k] # b   BY <1>5, <1>6, <1>7, SMT
    <3> QED  BY <1>6, <1>7, <3>1, <3>2, <3>3, <3>4
  <2> QED  BY <1>2, <1>4, <1>9, <1>12, <2>1, SMT DEF IInv, TypeOK, PinInv
<1>20. View' = View   BY <1>2, <1>4, <1>11 DEF View
<1>21. Recovered' = Recovered
  <2>1. {k \in DOMAIN dhead : dhead[k] = b} # {}   BY <1>5, <1>6, <1>7, SMT
  <2>2. \A c \in Blocks : c # b => home'[c] = home[c]   BY <1>9 DEF IInv, TypeOK
  <2> QED  BY <1>1, <2>1, <2>2, SMT DEF Recovered
<1>22. Busy' = Busy /\ Uncommitted' = Uncommitted   BY <1>1, <1>2, <1>4 DEF Busy, Uncommitted
<1> QED
  BY <1>4, <1>13, <1>14, <1>15, <1>17, <1>18, <1>19, <1>20, <1>21, <1>22 DEF IInv, Unseen

(* The transaction is erased when every block of it is at home. *)
LEMMA EraseStep ==
  ASSUME IInv, NEW t \in Threads, Erase(t)
  PROVE  IInv' /\ Unseen
<1>1. /\ pc[t] = "inst" /\ tail = Len(lh)
      /\ lh' = <<>> /\ dhead' = <<>> /\ tail' = 0 /\ pc' = [pc EXCEPT ![t] = "done"]
      /\ UNCHANGED <<home, dlog, buf, pin, owner, outstanding, committing, wrote, sys>>
  BY DEF Erase, bufVars
<1>2. /\ Running /\ committing /\ Active = {} /\ (\A c \in Blocks : owner[c] = NoThread)
      /\ \A u \in Threads : Commits(u) => u = t
  BY <1>1, CommitterFacts DEF Commits
<1>3. ~WritingLog /\ Installing   BY <1>1, <1>2 DEF WritingLog, Installing, Commits
<1>4. /\ Running' /\ Active' = Active
      /\ \A u \in Threads : Commits(u)' <=> Commits(u)
  BY <1>1, <1>2 DEF Running, Active, Commits, IInv, TypeOK
<1>5. ~Installing' /\ ~WritingLog'
  BY <1>1, <1>2 DEF WritingLog, Installing, Commits, IInv, TypeOK
<1>6. \A c : Contents(c)' = Contents(c)   BY <1>1 DEF Contents
<1>7. TypeOK'
  <2>1. pc' \in [Threads -> Labels]   BY <1>1 DEF IInv, TypeOK, Labels
  <2> QED  BY <1>1, <2>1, SMT DEF IInv, TypeOK
<1>8. ThreadInv'   BY <1>1, <1>2, <1>4 DEF IInv, ThreadInv, NoProtocolPanic
<1>9. OwnerInv'    BY <1>1, <1>2 DEF OwnerInv
<1>10. sys' # "boot1" /\ sys' # "boot2"   BY <1>1, <1>2 DEF Running, Panics
<1>11. HeadInv'
  <2>1. Len(<<>>) = 0 /\ LOGSIZE \in Nat   BY LogAssumption
  <2> QED  BY <1>1, <1>4, <1>5, <1>10, <2>1, SMT DEF HeadInv
<1>12. dhead = lh   BY <1>2, <1>3 DEF IInv, HeadInv
<1>13. DataInv'    BY <1>1, <1>4, <1>5, <1>10 DEF DataInv
<1>14. PinInv'
  <2>1. Pinned = {}
    <3>1. \A k \in 1 .. Len(lh) : ~(k > Len(lh))   BY SMT DEF IInv, TypeOK
    <3> QED  BY <1>1, <1>3, <3>1 DEF Pinned
  <2>2. Pinned' = {}   BY <1>1, SMT DEF Pinned
  <2> QED  BY <1>1, <1>2, <1>4, <2>1, <2>2 DEF IInv, PinInv
<1>15. View' = View   BY <1>2, <1>4, <1>6 DEF View
<1>16. Recovered' = Recovered
  <2>1. (dhead = <<>> => Recovered = home)'   BY <1>7, <1>11, RecoveredValue, PTL
  <2>2. Recovered' = home   BY <1>1, <2>1
  <2>3. \A c \in Blocks : Recovered[c] = home[c]
    <3> TAKE c \in Blocks
    <3>1. ASSUME NEW k \in 1 .. Len(lh), c = lh[k]
          PROVE  Recovered[c] = home[c]
      BY <3>1, <1>1, <1>3, <1>12, RecoveredValue DEF IInv, DataInv
    <3>2. ASSUME \A k \in 1 .. Len(lh) : lh[k] # c
          PROVE  Recovered[c] = home[c]
      BY <3>2, <1>12, RecoveredValue DEF IInv
    <3> QED  BY <3>1, <3>2
  <2>4. Recovered = [c \in Blocks |-> Recovered[c]]   BY SMT DEF Recovered
  <2>5. home = [c \in Blocks |-> home[c]]   BY DEF IInv, TypeOK
  <2> QED  BY <2>2, <2>3, <2>4, <2>5
<1>17. Uncommitted = {} /\ Uncommitted' = {}
  <2>1. (lh = <<>> => Logged = {}) /\ Logged' = {}   BY <1>1, SMT DEF Logged
  <2> QED  BY <1>12, <2>1 DEF Uncommitted
<1>18. Busy' = Busy   BY <1>1 DEF Busy
<1> QED
  BY <1>4, <1>7, <1>8, <1>9, <1>11, <1>13, <1>14, <1>15, <1>16, <1>17, <1>18 DEF IInv, Unseen

(* end_op() is done with the commit and wakes the operations that wait. *)
LEMMA CommitDoneStep ==
  ASSUME IInv, NEW t \in Threads, CommitDone(t)
  PROVE  IInv' /\ Unseen
<1>1. /\ Up /\ pc[t] = "done" /\ committing' = FALSE
      /\ pc' = [u \in Threads |-> IF u = t THEN "idle"
                                  ELSE IF pc[u] = "asleep" THEN "begin" ELSE pc[u]]
      /\ UNCHANGED <<home, dlog, dhead, buf, pin, owner, lh, outstanding, tail, wrote, sys>>
  BY DEF CommitDone, GotoAndWakeup, diskVars, bufVars
<1>2. /\ Active = {} /\ (\A b \in Blocks : owner[b] = NoThread)
      /\ \A u \in Threads : Commits(u) => u = t
  BY <1>1, CommitterFacts DEF Commits
<1>3. Running /\ Running' /\ ~Installing /\ ~WritingLog
  BY <1>1, <1>2 DEF Running, Up, Installing, WritingLog, Commits
<1>4. Active' = Active   BY <1>1, <1>2 DEF Active
<1>5. \A u \in Threads : ~Commits(u)'   BY <1>1, <1>2 DEF Commits
<1>6. ~Installing' /\ ~WritingLog'   BY <1>5 DEF Installing, WritingLog, Commits
<1>7. Logged' = Logged /\ (\A c : Contents(c)' = Contents(c))
  BY <1>1 DEF Logged, Contents
<1>8. TypeOK'
  <2>1. pc' \in [Threads -> Labels]   BY <1>1 DEF IInv, TypeOK, Labels
  <2> QED  BY <1>1, <2>1 DEF IInv, TypeOK
<1>9. ThreadInv'   BY <1>1, <1>3, <1>4, <1>5 DEF IInv, ThreadInv, NoProtocolPanic
<1>10. OwnerInv'   BY <1>1, <1>2 DEF OwnerInv
<1>11. HeadInv'    BY <1>1, <1>3, <1>6, SMT DEF IInv, HeadInv
<1>12. DataInv'    BY <1>1, <1>3, <1>6, <1>7 DEF IInv, DataInv, Up
<1>13. Pinned' = Pinned   BY <1>1, <1>3, <1>6 DEF Pinned
<1>14. PinInv'     BY <1>1, <1>3, <1>13 DEF IInv, PinInv
<1>15. View' = View /\ Recovered' = Recovered   BY <1>1, <1>3, <1>7, SMT DEF View, Recovered
<1>16. Busy' = Busy /\ Uncommitted' = Uncommitted   BY <1>1, <1>3, <1>7 DEF Busy, Uncommitted
<1> QED  BY <1>4, <1>8, <1>9, <1>10, <1>11, <1>12, <1>14, <1>15, <1>16 DEF IInv, Unseen

-----------------------------------------------------------------------------
(* Crashes and recovery *)

(* Before recovery has run nobody is inside the log. *)
LEMMA BootFacts ==
  ASSUME IInv, ~Running
  PROVE  /\ Active = {} /\ ~committing /\ ~Installing /\ ~WritingLog
         /\ \A u \in Threads : pc[u] = "idle" /\ ~Commits(u)
         /\ \A b \in Blocks : owner[b] = NoThread /\ pin[b] = 0 /\ Contents(b) = home[b]
<1>1. \A u \in Threads : pc[u] = "idle"   BY DEF IInv, ThreadInv
<1>2. Active = {} /\ ~Installing /\ ~WritingLog /\ \A u \in Threads : ~Commits(u)
  BY <1>1 DEF Active, Installing, WritingLog, Commits
<1>3. ~committing   BY <1>2 DEF IInv, ThreadInv
<1>4. \A b \in Blocks : owner[b] = NoThread   BY <1>1, SMT DEF IInv, TypeOK, OwnerInv
<1>5. \A b \in Blocks : pin[b] = 0 /\ Contents(b) = home[b]   BY DEF IInv, PinInv, DataInv
<1> QED  BY <1>1, <1>2, <1>3, <1>4, <1>5

(* A crash leaves what is on disk. *)
LEMMA CrashStep ==
  ASSUME IInv, Crash
  PROVE  IInv' /\ Disk!Crash
<1> USE LogAssumption
<1>1. /\ buf'   = [b \in Blocks |-> Absent]
      /\ pin'   = [b \in Blocks |-> 0]
      /\ owner' = [b \in Blocks |-> NoThread]
      /\ lh' = <<>> /\ outstanding' = 0 /\ committing' = FALSE /\ tail' = 0
      /\ pc'    = [t \in Threads |-> "idle"]
      /\ wrote' = [t \in Threads |-> {}]
      /\ UNCHANGED <<home, dlog, dhead>>
  BY DEF Crash, diskVars
<1>2. sys' = "boot1" /\ ~Running'   BY DEF Crash, Running, Panics
<1>3. /\ Active' = {} /\ ~Installing' /\ ~WritingLog'
      /\ \A u \in Threads : ~Commits(u)'
  BY <1>1 DEF Active, Installing, WritingLog, Commits
<1>4. TypeOK'
  <2>1. pc' \in [Threads -> Labels]   BY <1>1 DEF Labels
  <2>2. lh' \in Seq(Blocks)   BY <1>1, SMT
  <2>3. buf' \in [Blocks -> Values \union {Absent}]   BY <1>1
  <2> QED  BY <1>1, <1>2, <2>1, <2>2, <2>3 DEF IInv, TypeOK
<1>5. ThreadInv'
  <2>1. NoProtocolPanic'   BY <1>2 DEF NoProtocolPanic
  <2>2. IsFiniteSet(Active') /\ Cardinality(Active') = 0   BY <1>3, FS_EmptySet
  <2> QED  BY <1>1, <1>3, <2>1, <2>2 DEF ThreadInv
<1>6. OwnerInv'   BY <1>1 DEF OwnerInv
<1>7. HeadInv'
  <2>1. Len(<<>>) = 0   OBVIOUS
  <2> QED  BY <1>1, <1>2, <2>1, SMT DEF IInv, HeadInv
<1>8. DataInv'
  <2>1. \A b \in Blocks : Contents(b)' = home'[b]   BY <1>1 DEF Contents
  <2> QED  BY <1>2, <1>3, <2>1 DEF DataInv
<1>9. PinInv'     BY <1>1, <1>2 DEF PinInv
<1>10. Recovered' = Recovered   BY <1>1, SMT DEF Recovered
<1>11. View' = Recovered   BY <1>2, <1>10 DEF View
<1>12. Busy' = {} /\ Uncommitted' = {}   BY <1>1, <1>2 DEF Busy, Uncommitted
<1> QED
  BY <1>3, <1>4, <1>5, <1>6, <1>7, <1>8, <1>9, <1>10, <1>11, <1>12 DEF IInv, Disk!Crash

(* initlog() reads the header. *)
LEMMA ReadHeadStep ==
  ASSUME IInv, ReadHead
  PROVE  IInv' /\ Unseen
<1>1. /\ sys = "boot1" /\ lh' = dhead
      /\ UNCHANGED <<home, dlog, dhead, buf, pin, owner, outstanding, committing, tail, pc, wrote>>
  BY DEF ReadHead, diskVars, bufVars, threadVars
<1>2. sys' = "boot2" /\ ~Running /\ ~Running'   BY DEF ReadHead, Running, Panics
<1>3. ~Installing /\ ~WritingLog /\ \A b \in Blocks : owner[b] = NoThread
  BY <1>2, BootFacts
<1>4. /\ Active' = Active /\ ~Installing' /\ ~WritingLog'
      /\ (\A u \in Threads : Commits(u)' <=> Commits(u))
      /\ \A b : Contents(b)' = Contents(b)
  BY <1>1, <1>3 DEF Active, Installing, WritingLog, Commits, Contents
<1>5. TypeOK'     BY <1>1, <1>2 DEF IInv, TypeOK
<1>6. ThreadInv'
  <2>1. NoProtocolPanic'   BY <1>2 DEF NoProtocolPanic
  <2> QED  BY <1>1, <1>2, <1>4, <2>1 DEF IInv, ThreadInv
<1>7. OwnerInv'   BY <1>1, <1>3 DEF OwnerInv
<1>8. tail = 0    BY <1>1 DEF IInv, HeadInv
<1>9. HeadInv'    BY <1>1, <1>2, <1>8, SMTT(30) DEF IInv, TypeOK, HeadInv
<1>10. DataInv'   BY <1>1, <1>2, <1>4, <1>8, SMT DEF IInv, DataInv
<1>11. PinInv'    BY <1>1, <1>2 DEF IInv, PinInv
<1>12. View' = View /\ Recovered' = Recovered   BY <1>1, <1>2, SMT DEF View, Recovered
<1>13. Busy' = Busy /\ Uncommitted' = Uncommitted   BY <1>1, <1>2 DEF Busy, Uncommitted
<1> QED  BY <1>4, <1>5, <1>6, <1>7, <1>9, <1>10, <1>11, <1>12, <1>13 DEF IInv, Unseen

(* Recovery writes home what a crash would find there already. *)
LEMMA RecoverInstallStep ==
  ASSUME IInv, RecoverInstall
  PROVE  IInv' /\ Unseen
<1>1. /\ sys = "boot2" /\ tail < Len(lh)
      /\ buf' = [buf EXCEPT ![lh[tail + 1]] = dlog[tail + 1]]
      /\ home' = [home EXCEPT ![lh[tail + 1]] = dlog[tail + 1]]
      /\ tail' = tail + 1
      /\ UNCHANGED <<dlog, dhead, pin, owner, lh, outstanding, committing, pc, wrote, sys>>
  BY DEF RecoverInstall, threadVars
<1>2. ~Running /\ ~Running'   BY <1>1 DEF Running, Panics
<1>3. ~Installing /\ ~WritingLog /\ (\A b \in Blocks : owner[b] = NoThread)
      /\ \A b \in Blocks : Contents(b) = home[b]
  BY <1>2, BootFacts
<1>4. /\ Active' = Active /\ ~Installing' /\ ~WritingLog'
      /\ \A u \in Threads : Commits(u)' <=> Commits(u)
  BY <1>1, <1>3 DEF Active, Installing, WritingLog, Commits
<1>5. /\ tail \in Nat /\ Len(lh) \in Nat /\ lh \in Seq(Blocks) /\ dhead = lh
      /\ LOGSIZE \in Nat /\ Len(lh) <= LOGSIZE
      /\ \A j, k \in 1 .. Len(lh) : lh[j] = lh[k] => j = k
  BY <1>1, LogAssumption, SMT DEF IInv, TypeOK, HeadInv
<1>6. /\ tail + 1 \in 1 .. Len(lh) /\ tail + 1 \in 1 .. LOGSIZE
      /\ \A k \in 1 .. Len(lh) : lh[k] \in Blocks
      /\ \A k \in 1 .. tail : k \in 1 .. Len(lh) /\ lh[k] # lh[tail + 1]
  BY <1>1, <1>5, SMT
<1>7. PICK b \in Blocks : b = lh[tail + 1]   BY <1>6
<1>8. PICK v \in Values : v = dlog[tail + 1]   BY <1>6 DEF IInv, TypeOK
<1>9. buf' = [buf EXCEPT ![b] = v] /\ home' = [home EXCEPT ![b] = v]
  BY <1>1, <1>7, <1>8
<1>10. TypeOK'
  <2>1. buf' \in [Blocks -> Values \union {Absent}] /\ home' \in [Blocks -> Values]
    BY <1>9 DEF IInv, TypeOK
  <2> QED  BY <1>1, <2>1, SMT DEF IInv, TypeOK
<1>11. ThreadInv'   BY <1>1, <1>2, <1>4 DEF IInv, ThreadInv, NoProtocolPanic
<1>12. OwnerInv'    BY <1>1, <1>3 DEF OwnerInv
<1>13. HeadInv'     BY <1>1, <1>2, <1>5, <1>6, SMT DEF IInv, HeadInv
<1>14. DataInv'
  <2>1. \A c \in Blocks : Contents(c)' = home'[c]
    BY <1>3, <1>9, LogAssumption DEF Contents, IInv, TypeOK
  <2>2. \A k \in 1 .. tail + 1 : home'[lh[k]] = dlog[k]
    <3> TAKE k \in 1 .. tail + 1
    <3>1. CASE k = tail + 1   BY <3>1, <1>7, <1>8, <1>9 DEF IInv, TypeOK
    <3>2. CASE k \in 1 .. tail
      <4>1. home[lh[k]] = dlog[k] /\ lh[k] # b /\ lh[k] \in Blocks
        BY <3>2, <1>1, <1>6, <1>7 DEF IInv, DataInv
      <4> QED  BY <4>1, <1>9 DEF IInv, TypeOK
    <3> QED  BY <3>1, <3>2, <1>5, SMT
  <2> QED  BY <1>1, <1>2, <1>4, <2>1, <2>2 DEF DataInv
<1>15. PinInv'      BY <1>1, <1>2 DEF IInv, PinInv
<1>16. Recovered' = Recovered
  <2>1. {k \in DOMAIN dhead : dhead[k] = b} # {}   BY <1>5, <1>6, <1>7, SMT
  <2>2. \A c \in Blocks : c # b => home'[c] = home[c]   BY <1>9 DEF IInv, TypeOK
  <2> QED  BY <1>1, <2>1, <2>2, SMT DEF Recovered
<1>17. View' = View   BY <1>2, <1>16 DEF View
<1>18. Busy' = Busy /\ Uncommitted' = Uncommitted   BY <1>1, <1>2 DEF Busy, Uncommitted
<1> QED
  BY <1>4, <1>10, <1>11, <1>12, <1>13, <1>14, <1>15, <1>16, <1>17, <1>18 DEF IInv, Unseen

(* Recovery ends when every block of the header is at home. *)
LEMMA RecoverEraseStep ==
  ASSUME IInv, RecoverErase
  PROVE  IInv' /\ Unseen
<1>1. /\ sys = "boot2" /\ tail = Len(lh)
      /\ lh' = <<>> /\ dhead' = <<>> /\ tail' = 0 /\ sys' = "up"
      /\ UNCHANGED <<home, dlog, buf, pin, owner, outstanding, committing, pc, wrote>>
  BY DEF RecoverErase, bufVars, threadVars
<1>2. ~Running /\ Running'   BY <1>1 DEF Running, Panics
<1>3. /\ Active = {} /\ ~Installing /\ ~WritingLog
      /\ \A b \in Blocks : owner[b] = NoThread /\ pin[b] = 0 /\ Contents(b) = home[b]
  BY <1>2, BootFacts
<1>4. /\ Active' = Active /\ ~Installing' /\ ~WritingLog'
      /\ (\A u \in Threads : Commits(u)' <=> Commits(u))
      /\ \A b : Contents(b)' = Contents(b)
  BY <1>1, <1>3 DEF Active, Installing, WritingLog, Commits, Contents
<1>5. TypeOK'     BY <1>1, SMT DEF IInv, TypeOK
<1>6. ThreadInv'
  <2>1. NoProtocolPanic'   BY <1>1 DEF NoProtocolPanic
  <2> QED  BY <1>1, <1>2, <1>4, <2>1 DEF IInv, ThreadInv
<1>7. OwnerInv'   BY <1>1, <1>3 DEF OwnerInv
<1>8. HeadInv'
  <2>1. Len(<<>>) = 0 /\ LOGSIZE \in Nat   BY LogAssumption
  <2> QED  BY <1>1, <1>4, <2>1, SMT DEF HeadInv
<1>9. DataInv'    BY <1>1, <1>2, <1>3, <1>4 DEF DataInv
<1>10. PinInv'
  <2>1. Pinned' = {}   BY <1>1, SMT DEF Pinned
  <2> QED  BY <1>1, <1>3, <2>1 DEF PinInv
<1>11. Recovered' = home
  <2>1. (dhead = <<>> => Recovered = home)'   BY <1>5, <1>8, RecoveredValue, PTL
  <2> QED  BY <1>1, <2>1
<1>12. Recovered = home
  <2>1. \A c \in Blocks : Recovered[c] = home[c]
    <3> TAKE c \in Blocks
    <3>1. dhead = lh   BY <1>1 DEF IInv, HeadInv
    <3>2. ASSUME NEW k \in 1 .. Len(lh), c = lh[k]
          PROVE  Recovered[c] = home[c]
      BY <3>1, <3>2, <1>1, RecoveredValue DEF IInv, DataInv
    <3>3. ASSUME \A k \in 1 .. Len(lh) : lh[k] # c
          PROVE  Recovered[c] = home[c]
      BY <3>1, <3>3, RecoveredValue DEF IInv
    <3> QED  BY <3>2, <3>3
  <2>2. Recovered = [c \in Blocks |-> Recovered[c]]   BY SMT DEF Recovered
  <2>3. home = [c \in Blocks |-> home[c]]   BY DEF IInv, TypeOK
  <2> QED  BY <2>1, <2>2, <2>3
<1>13. View' = home
  <2>1. home = [c \in Blocks |-> home[c]]   BY DEF IInv, TypeOK
  <2> QED  BY <1>2, <1>3, <1>4, <2>1 DEF View
<1>14. View = Recovered   BY <1>2 DEF View
<1>15. Busy' = Busy /\ Uncommitted' = Uncommitted
  <2>1. Logged' = {}   BY <1>1, SMT DEF Logged
  <2> QED  BY <1>1, <1>2, <2>1 DEF Busy, Uncommitted
<1> QED
  BY <1>4, <1>5, <1>6, <1>7, <1>8, <1>9, <1>10, <1>11, <1>12, <1>13, <1>14, <1>15
     DEF IInv, Unseen

-----------------------------------------------------------------------------
(* The theorems *)

(* Every step preserves the invariant, and is a step of AtomicDisk or      *)
(* changes none of what AtomicDisk speaks of.                              *)
LEMMA NextStep ==
  ASSUME IInv, [Next]_vars
  PROVE  IInv' /\ [Disk!Next]_(Disk!vars)
<1> SUFFICES ASSUME TRUE PROVE IInv' /\ (Disk!Next \/ Unseen)   BY DEF Unseen, Disk!vars
<1>1. ASSUME NEW t \in Threads, Call(t) \/ BeginSleep(t)
      PROVE  IInv' /\ Unseen
  <2>1. Running   BY <1>1 DEF Call, BeginSleep, Up, Running
  <2>2. PICK l \in {"begin", "asleep"} : pc' = [pc EXCEPT ![t] = l]
    BY <1>1 DEF Call, BeginSleep
  <2>3. /\ pc[t] \in {"idle", "begin", "asleep"}
        /\ UNCHANGED <<diskVars, bufVars, logVars, wrote, sys>>
    BY <1>1 DEF Call, BeginSleep
  <2>4. pc' \in [Threads -> Labels]   BY <2>2 DEF IInv, TypeOK, Labels
  <2>5. \A u \in Threads : \/ pc'[u] = pc[u]
                           \/ pc[u] \in {"idle", "begin", "asleep"}
                              /\ pc'[u] \in {"idle", "begin", "asleep"}
    BY <2>2, <2>3 DEF IInv, TypeOK
  <2> QED  BY <2>1, <2>3, <2>4, <2>5, PcStep
<1>2. ASSUME NEW t \in Threads, Begin(t)
      PROVE  IInv' /\ Disk!Next
  BY <1>2, BeginStep DEF Disk!Next
<1>3. ASSUME NEW t \in Threads, NEW b \in Blocks,
             LogWritePanic(t, b) \/ LogWrite(t, b) \/ GiveUp(t, b)
      PROVE  IInv' /\ (Disk!Next \/ Unseen)
  BY <1>3, LogWritePanicStep, LogWriteStep, GiveUpStep DEF Disk!Next
<1>4. ASSUME NEW t \in Threads, End(t)
      PROVE  IInv' /\ Disk!Next
  BY <1>4, EndStep DEF Disk!Next
<1>5. ASSUME NEW t \in Threads, WriteHead(t)
      PROVE  IInv' /\ Disk!Next
  BY <1>5, WriteHeadStep DEF Disk!Next
<1>6. ASSUME NEW t \in Threads, WriteLog(t) \/ Install(t) \/ Erase(t) \/ CommitDone(t)
      PROVE  IInv' /\ Unseen
  BY <1>6, WriteLogStep, InstallStep, EraseStep, CommitDoneStep
<1>7. ASSUME NEW t \in Threads, NEW b \in Blocks, NEW v \in Values, Modify(t, b, v)
      PROVE  IInv' /\ Disk!Next
  BY <1>7, ModifyStep DEF Disk!Next
<1>8. ASSUME NEW b \in Blocks, Evict(b)
      PROVE  IInv' /\ Disk!Next
  BY <1>8, EvictStep DEF Disk!Next
<1>9. ASSUME Recover
      PROVE  IInv' /\ Unseen
  BY <1>9, ReadHeadStep, RecoverInstallStep, RecoverEraseStep DEF Recover
<1>10. ASSUME Crash
       PROVE  IInv' /\ Disk!Next
  BY <1>10, CrashStep DEF Disk!Next
<1>11. ASSUME UNCHANGED vars
       PROVE  IInv' /\ Unseen
  <2> USE <1>11 DEF vars, diskVars, bufVars, logVars, threadVars
  <2>1. TypeOK' /\ OwnerInv'   BY DEF IInv, TypeOK, OwnerInv
  <2>2. ThreadInv'   BY DEF IInv, ThreadInv, Active, Commits, Running, NoProtocolPanic
  <2>3. HeadInv'     BY SMTT(30) DEF IInv, HeadInv, Running, Installing, WritingLog
  <2>4. DataInv'     BY SMT DEF IInv, DataInv, Running, Installing, WritingLog, Contents, Logged
  <2>5. PinInv'      BY SMT DEF IInv, PinInv, Running, Pinned, Installing
  <2>6. Unseen
    BY SMT DEF Unseen, View, Recovered, Busy, Uncommitted, Logged, Active, Running, Contents
  <2> QED  BY <2>1, <2>2, <2>3, <2>4, <2>5, <2>6 DEF IInv
<1>12. CASE Next
  BY <1>12, <1>1, <1>2, <1>3, <1>4, <1>5, <1>6, <1>7, <1>8, <1>9, <1>10 DEF Next, Thread
<1> QED  BY <1>11, <1>12

(* What is stated of Log follows from the inductive invariant. *)
LEMMA Inductive == Spec => []IInv
<1>1. IInv /\ [Next]_vars => IInv'   BY NextStep
<1> QED  BY InitIInv, <1>1, PTL DEF Spec

(* log_write() and install_trans() balance: a buffer is pinned exactly     *)
(* while its block waits to be installed, and once.                        *)
THEOREM PinsBalance == Spec => []PinBalance
<1>1. IInv => PinBalance
  <2> SUFFICES ASSUME IInv, NEW b \in Blocks, Running
               PROVE  pin[b] = IF \E k \in DOMAIN lh : lh[k] = b /\ (Installing => k > tail)
                                 THEN 1 ELSE 0
    BY DEF PinBalance, Installing
  <2>1. DOMAIN lh = 1 .. Len(lh)   BY SMT DEF IInv, TypeOK
  <2>2. b \in Pinned <=> \E k \in DOMAIN lh : lh[k] = b /\ (Installing => k > tail)
    BY <2>1 DEF Pinned
  <2> QED  BY <2>2 DEF IInv, PinInv
<1> QED  BY <1>1, Inductive, PTL

(* end_op() never finds a commit in progress, and log_write() is only      *)
(* called inside an operation.                                             *)
THEOREM ProtocolSafe == Spec => []NoProtocolPanic
<1>1. IInv => NoProtocolPanic   BY DEF IInv, ThreadInv
<1> QED  BY <1>1, Inductive, PTL

(* The log implements AtomicDisk: whenever the machine crashes, recovery   *)
(* finds the changes that were logged up to a moment when no operation was *)
(* in progress, and reads go back only on a change that was given up.      *)
THEOREM LogIsAtomic == Spec => CrashAtomic
<1>1. Init => Disk!Init
  <2> SUFFICES ASSUME Init PROVE Disk!Init
    OBVIOUS
  <2>1. IInv /\ ~Running   BY InitIInv DEF Init, Running, Panics
  <2>2. View = Recovered /\ Active = {}   BY <2>1, BootFacts DEF View
  <2>3. Recovered = home   BY <2>1, RecoveredValue DEF IInv, Init
  <2>4. Busy = {} /\ Uncommitted = {}   BY <2>1 DEF Init, Busy, Uncommitted
  <2> QED  BY <2>2, <2>3, <2>4 DEF Init, Disk!Init
<1>2. IInv /\ [Next]_vars => [Disk!Next]_(Disk!vars)   BY NextStep
<1> QED  BY <1>1, <1>2, Inductive, PTL DEF Spec, CrashAtomic, Disk!Spec
=============================================================================
