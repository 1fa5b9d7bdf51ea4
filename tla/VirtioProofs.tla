---------------------------- MODULE VirtioProofs ----------------------------
(***************************************************************************)
(* The disk driver and its device share the descriptors and the rings      *)
(* without losing or mixing up a request, for every number of processes    *)
(* and descriptors, and wherever the ring indices wrap around.             *)
(***************************************************************************)
EXTENDS VirtioDisk, ModuloLemmas

-----------------------------------------------------------------------------
(* The rings *)

LEMMA Sizes == /\ NUM \in Nat \ {0} /\ Word \in Nat \ {0} /\ Word >= NUM
               /\ \A a \in Nat : a % NUM \in Descs
<1>1. NUM \in Nat \ {0} /\ Word \in Nat \ {0}   BY VirtioAssumption
<1>2. Word >= NUM
  <2> SUFFICES ASSUME Word < NUM PROVE FALSE   BY <1>1
  <2>1. Word % NUM = Word   BY <1>1, Wrap
  <2> QED  BY <1>1, <2>1, VirtioAssumption
<1>3. \A a \in Nat : a % NUM \in Descs   BY <1>1, Division DEF Descs
<1> QED  BY <1>1, <1>2, <1>3

LEMMA DistanceIs ==
  ASSUME NEW from \in 0 .. Word - 1, NEW to \in 0 .. Word - 1
  PROVE  /\ Distance(from, to) = IF from <= to THEN to - from ELSE to + Word - from
         /\ Distance(from, to) \in Nat
         /\ \A k \in Nat : Slot(from, k) \in Descs
         /\ Slot(from, 0) = from % NUM
         /\ Slot(from, Distance(from, to)) = to % NUM
<1>1. Distance(from, to) = IF from <= to THEN to - from ELSE to + Word - from
  BY Sizes, WrapDistance, Zenon DEF Distance
<1>2. Distance(from, to) \in Nat   BY <1>1, Sizes
<1>3. \A k \in Nat : Slot(from, k) \in Descs   BY Sizes DEF Slot
<1>4. Slot(from, 0) = from % NUM   BY DEF Slot
<1>5. Slot(from, Distance(from, to)) = to % NUM
  <2>1. CASE from <= to   BY <1>1, <2>1 DEF Slot
  <2>2. CASE ~(from <= to)
    <3>1. Distance(from, to) = to + Word - from   BY <1>1, <2>2
    <3>2. from + (to + Word - from) = to + Word   BY Sizes
    <3>3. to \in Nat /\ Word % NUM = 0   BY Sizes, VirtioAssumption
    <3>4. (to + Word) % NUM = to % NUM   BY <3>3, Sizes, AddMultiple, Zenon
    <3> QED  BY <3>1, <3>2, <3>4 DEF Slot
  <2> QED  BY <2>1, <2>2
<1> QED  BY <1>1, <1>2, <1>3, <1>4, <1>5

(* Places of the ring fewer than NUM steps apart are different. *)
LEMMA SlotsApart ==
  ASSUME NEW from \in 0 .. Word - 1, NEW j \in 0 .. NUM - 1, NEW k \in 0 .. NUM - 1, j # k
  PROVE  Slot(from, j) # Slot(from, k)
<1>1. ASSUME NEW a \in 0 .. NUM - 1, NEW b \in 0 .. NUM - 1, a < b
      PROVE  Slot(from, b) # Slot(from, a)
  <2>1. from + a \in Nat /\ b - a \in 1 .. NUM - 1 /\ (from + a) + (b - a) = from + b
    BY <1>1, Sizes
  <2>2. ((from + a) + (b - a)) % NUM # (from + a) % NUM
    BY ONLY <2>1, Sizes, Apart, Zenon
  <2> QED  BY <2>1, <2>2 DEF Slot
<1>2. j < k \/ k < j   BY Sizes
<1> QED  BY <1>1, <1>2

(* The place after the end can be written: no entry is lost. *)
LEMMA RingWrite ==
  ASSUME NEW from \in 0 .. Word - 1, NEW to \in 0 .. Word - 1, NEW r \in [Descs -> Descs],
         RingOK(r, from, to), NEW s \in [Descs -> Descs],
         \A d \in Descs : d # to % NUM => s[d] = r[d]
  PROVE  RingOK(s, from, to) /\ Entries(s, from, to) = Entries(r, from, to)
<1> DEFINE n == Distance(from, to)
<1>1. n \in Nat /\ n < NUM /\ to % NUM = Slot(from, n)   BY DistanceIs DEF RingOK
<1>2. \A k \in 0 .. n - 1 : Slot(from, k) \in Descs /\ Slot(from, k) # to % NUM
  BY <1>1, DistanceIs, SlotsApart, Sizes
<1>3. \A k \in 0 .. n - 1 : s[Slot(from, k)] = r[Slot(from, k)]   BY <1>2
<1>4. RingOK(s, from, to)   BY <1>3 DEF RingOK
<1>5. Entries(s, from, to) = Entries(r, from, to)   BY <1>3 DEF Entries
<1> QED  BY <1>4, <1>5

(* The end moves past an entry that is not in the ring. *)
LEMMA RingPush ==
  ASSUME NEW from \in 0 .. Word - 1, NEW to \in 0 .. Word - 1, NEW r \in [Descs -> Descs],
         RingOK(r, from, to), Distance(from, to) + 1 < NUM,
         r[to % NUM] \notin Entries(r, from, to)
  PROVE  /\ (to + 1) % Word \in 0 .. Word - 1
         /\ RingOK(r, from, (to + 1) % Word)
         /\ Entries(r, from, (to + 1) % Word) = Entries(r, from, to) \union {r[to % NUM]}
<1> DEFINE n == Distance(from, to)
           end == (to + 1) % Word
<1>1. n \in Nat /\ n + 1 < NUM /\ to % NUM = Slot(from, n)   BY DistanceIs
<1>2. end = IF to + 1 < Word THEN to + 1 ELSE 0   BY Sizes, WrapNext, Zenon
<1>3. end \in 0 .. Word - 1   BY <1>2, Sizes
<1>4. Distance(from, end) = n + 1
  <2> HIDE DEF n, end
  <2>1. n = IF from <= to THEN to - from ELSE to + Word - from   BY DistanceIs DEF n
  <2>2. Distance(from, end) = IF from <= end THEN end - from ELSE end + Word - from
    BY <1>3, DistanceIs
  <2> QED  BY <1>1, <1>2, <2>1, <2>2, Sizes
<1> HIDE DEF end
<1>5. 0 .. (n + 1) - 1 = (0 .. n - 1) \union {n}   BY <1>1
<1>6. \A k \in 0 .. n - 1 : r[Slot(from, k)] # r[Slot(from, n)]   BY <1>1 DEF Entries
<1>7. RingOK(r, from, end)   BY <1>1, <1>4, <1>5, <1>6 DEF RingOK
<1>8. Entries(r, from, end) = Entries(r, from, to) \union {r[to % NUM]}
  BY <1>1, <1>4, <1>5 DEF Entries
<1> QED  BY <1>3, <1>7, <1>8 DEF end

(* The beginning moves past the first entry. *)
LEMMA RingPop ==
  ASSUME NEW from \in 0 .. Word - 1, NEW to \in 0 .. Word - 1, NEW r \in [Descs -> Descs],
         RingOK(r, from, to), from # to
  PROVE  /\ (from + 1) % Word \in 0 .. Word - 1
         /\ r[from % NUM] \in Entries(r, from, to)
         /\ RingOK(r, (from + 1) % Word, to)
         /\ Distance((from + 1) % Word, to) = Distance(from, to) - 1
         /\ Entries(r, (from + 1) % Word, to) = Entries(r, from, to) \ {r[from % NUM]}
<1> DEFINE n == Distance(from, to)
           next == (from + 1) % Word
<1>1. n \in Nat /\ n < NUM /\ from % NUM = Slot(from, 0)   BY DistanceIs DEF RingOK
<1>2. next = IF from + 1 < Word THEN from + 1 ELSE 0   BY Sizes, WrapNext, Zenon
<1>3. next \in 0 .. Word - 1   BY <1>2, Sizes
<1>4. Distance(next, to) = n - 1 /\ n >= 1
  <2> HIDE DEF n, next
  <2>1. n = IF from <= to THEN to - from ELSE to + Word - from   BY DistanceIs DEF n
  <2>2. Distance(next, to) = IF next <= to THEN to - next ELSE to + Word - next
    BY <1>3, DistanceIs
  <2> QED  BY <1>1, <1>2, <2>1, <2>2, Sizes
<1>5. ASSUME NEW k \in Nat PROVE Slot(next, k) = Slot(from, k + 1)
  <2>1. CASE from + 1 < Word
    BY <1>2, <2>1 DEF Slot
  <2>2. CASE ~(from + 1 < Word)
    <3>1. from + (k + 1) = k + Word /\ next = 0   BY <1>2, <2>2, Sizes
    <3>2. (k + Word) % NUM = k % NUM   BY Sizes, VirtioAssumption, AddMultiple, Zenon
    <3> QED  BY <3>1, <3>2 DEF Slot
  <2> QED  BY <2>1, <2>2
<1> HIDE DEF next
<1>6. 0 \in 0 .. n - 1 /\ \A k \in 0 .. n - 2 : k + 1 \in 0 .. n - 1 /\ k + 1 # 0 /\ k \in Nat
  BY <1>1, <1>4
<1>7. \A k \in 0 .. n - 1 : k # 0 => k - 1 \in 0 .. n - 2 /\ (k - 1) + 1 = k
  BY <1>1, <1>4
<1>8. (n - 1) - 1 = n - 2 /\ n - 1 < NUM   BY <1>1, Sizes
<1> HIDE DEF n
<1>9. \A j, k \in 0 .. n - 1 : r[Slot(from, j)] = r[Slot(from, k)] => j = k
  BY DEF RingOK, n
<1>10. r[from % NUM] \in Entries(r, from, to)   BY <1>1, <1>6 DEF Entries, n
<1>11. RingOK(r, next, to)
  <2>1. ASSUME NEW j \in 0 .. n - 2, NEW k \in 0 .. n - 2,
               r[Slot(next, j)] = r[Slot(next, k)]
        PROVE  j = k
    <3>1. r[Slot(from, j + 1)] = r[Slot(from, k + 1)]   BY <1>5, <1>6, <2>1
    <3>2. j + 1 = k + 1   BY <1>6, <1>9, <3>1
    <3> QED  BY <3>2
  <2>2. Distance(next, to) < NUM   BY <1>4, <1>8
  <2>3. 0 .. Distance(next, to) - 1 = 0 .. n - 2   BY <1>4, <1>8
  <2> QED  BY <2>1, <2>2, <2>3, Zenon DEF RingOK
<1>12. Entries(r, next, to) = Entries(r, from, to) \ {r[from % NUM]}
  <2>1. ASSUME NEW x \in Entries(r, next, to) PROVE x \in Entries(r, from, to) \ {r[from % NUM]}
    <3>1. PICK k \in 0 .. n - 2 : x = r[Slot(next, k)]   BY <1>4, <1>8 DEF Entries
    <3>2. x = r[Slot(from, k + 1)]   BY <1>5, <1>6, <3>1
    <3> QED  BY <1>1, <1>6, <1>9, <3>2 DEF Entries, n
  <2>2. ASSUME NEW x \in Entries(r, from, to), x # r[from % NUM] PROVE x \in Entries(r, next, to)
    <3>1. PICK k \in 0 .. n - 1 : x = r[Slot(from, k)]   BY DEF Entries, n
    <3>2. k # 0   BY <1>1, <2>2, <3>1
    <3>3. k - 1 \in 0 .. n - 2 /\ x = r[Slot(next, k - 1)]   BY <1>5, <1>6, <1>7, <3>1, <3>2
    <3> QED  BY <1>4, <1>8, <3>3 DEF Entries
  <2> QED  BY <2>1, <2>2
<1> QED  BY <1>3, <1>4, <1>10, <1>11, <1>12 DEF next, n

-----------------------------------------------------------------------------
(* From here on a leaf is pure logic unless it cites SMT. *)
USE Zenon

(* What the invariant says of a request *)

LEMMA RingsNext ==
  /\ Queued' = Entries(avail', devIdx', availIdx')
  /\ Answered' = Entries(used', used_idx', usedIdx')
  /\ RingOK(avail, devIdx, availIdx)' <=> RingOK(avail', devIdx', availIdx')
  /\ RingOK(used, used_idx, usedIdx)' <=> RingOK(used', used_idx', usedIdx')
  /\ Distance(devIdx, availIdx)' = Distance(devIdx', availIdx')
  BY DEF Queued, Answered

LEMMA OneHead ==
  ASSUME IInv, NEW d \in Descs, NEW e \in Descs, info[d].b # NoProc, info[e].b = info[d].b
  PROVE  d = e
<1>1. HeadOf(info[d].b, d) /\ HeadOf(info[d].b, e)   BY DEF IInv, HeadInv
<1>2. e \in {d, desc[d].next, desc[desc[d].next].next}   BY <1>1 DEF HeadOf
<1> QED  BY <1>1, <1>2 DEF HeadOf

LEMMA OwnerIsProc ==
  ASSUME IInv, NEW d \in Descs, info[d].b # NoProc
  PROVE  info[d].b \in Procs
  BY DEF IInv, TypeOK

(* A call is served when its head has a status. *)
LEMMA ServedIs ==
  ASSUME IInv
  PROVE  /\ \A d \in Descs : info[d].b # NoProc => (Served(info[d].b) <=> info[d].ok)
         /\ \A p \in Procs : ~Active(p) => ~Served(p)
<1>1. ASSUME NEW d \in Descs, info[d].b # NoProc PROVE Served(info[d].b) <=> info[d].ok
  <2> HeadOf(info[d].b, d)   BY <1>1 DEF IInv, HeadInv
  <2>1. d \in idx[info[d].b] /\ idx[info[d].b] \subseteq Descs
    BY <1>1 DEF HeadOf
  <2>2. \A e \in idx[info[d].b] : info[e].b = info[d].b => e = d   BY <1>1, <2>1, OneHead
  <2> QED  BY <2>1, <2>2 DEF Served
<1>2. \A p \in Procs : ~Active(p) => ~Served(p)   BY DEF IInv, CallInv, Served
<1> QED  BY <1>1, <1>2

LEMMA QueuedDescs ==
  ASSUME IInv
  PROVE  Queued \subseteq Descs /\ Answered \subseteq Descs
<1>1. {availIdx, devIdx, usedIdx, used_idx} \subseteq 0 .. Word - 1   BY DEF IInv, TypeOK
<1>2. /\ \A k \in 0 .. Distance(devIdx, availIdx) - 1 : Slot(devIdx, k) \in Descs
      /\ \A k \in 0 .. Distance(used_idx, usedIdx) - 1 : Slot(used_idx, k) \in Descs
  BY <1>1, DistanceIs, SMT
<1> QED  BY <1>2, SMT DEF Queued, Answered, Entries, IInv, TypeOK

(* The chains stay what they are. *)
LEMMA SameHeads ==
  ASSUME IInv, desc' = desc, ops' = ops, idx' = idx, \A d \in Descs : info'[d].b = info[d].b,
         \A q \in Procs : Active(q) => Active(q)' /\ write'[q] = write[q]
  PROVE  HeadInv'
<1> SUFFICES ASSUME NEW d \in Descs, info[d].b # NoProc
             PROVE  HeadOf(info[d].b, d)'
  BY DEF HeadInv
<1>1. HeadOf(info[d].b, d) /\ info[d].b \in Procs   BY OwnerIsProc DEF IInv, HeadInv
<1>2. info'[d].b = info[d].b   OBVIOUS
<1> QED  BY <1>1, <1>2 DEF HeadOf

-----------------------------------------------------------------------------
(* Steps that leave the descriptors and the rings alone *)

LEMMA CallStep ==
  ASSUME IInv, UNCHANGED driverVars, UNCHANGED <<idx, bdisk, used, usedIdx, devIdx, inflight, block>>,
         write' \in [Procs -> BOOLEAN], buf' \in [Procs -> Values],
         pc' \in [Procs -> {"idle", "alloc", "nodesc", "publish", "notify", "sleep", "awake"}],
         \A q \in Procs :
           /\ Active(q)' <=> Active(q)
           /\ Active(q) => write'[q] = write[q]
           /\ pc'[q] = "publish" <=> pc[q] = "publish"
           /\ pc'[q] \in {"publish", "notify"} => vlock' = q
           /\ pc[q] = "awake" => pc'[q] = "awake" \/ bdisk[q]
  PROVE  IInv'
<1>1. /\ free' = free /\ desc' = desc /\ ops' = ops /\ info' = info /\ avail' = avail
      /\ availIdx' = availIdx /\ used_idx' = used_idx /\ idx' = idx /\ bdisk' = bdisk
      /\ used' = used /\ usedIdx' = usedIdx /\ devIdx' = devIdx /\ inflight' = inflight
      /\ block' = block
  BY DEF driverVars
<1>2. TypeOK'   BY <1>1, SMT DEF IInv, TypeOK
<1>3. HeadInv'   BY <1>1, SameHeads
<1>4. CallInv'
  <2>1. \A q \in Procs : Active(q)' /\ ~bdisk'[q] => pc'[q] = "awake"
    BY <1>1, ZenonT(60) DEF IInv, CallInv
  <2> QED  BY <1>1, <2>1, SMT DEF IInv, CallInv, Active
<1>5. DescInv'   BY <1>1 DEF IInv, DescInv
<1>6. RequestInv'
  <2>1. /\ Queued' = Queued /\ Answered' = Answered
        /\ RingOK(avail, devIdx, availIdx)' /\ RingOK(used, used_idx, usedIdx)'
        /\ Distance(devIdx, availIdx)' = Distance(devIdx, availIdx)
    BY <1>1, RingsNext DEF Queued, Answered, IInv, RequestInv
  <2>2. \A h \in Queued \union inflight :
          info[h].b # NoProc => (pc'[info[h].b] = "publish" <=> pc[info[h].b] = "publish")
    BY QueuedDescs, OwnerIsProc DEF IInv, TypeOK
  <2> QED  BY <1>1, <2>1, <2>2, SMT DEF IInv, RequestInv
<1> QED  BY <1>2, <1>3, <1>4, <1>5, <1>6 DEF IInv

(* Then no request gets a status, and none is forgotten. *)
LEMMA SameServed ==
  ASSUME idx' = idx, info' = info
  PROVE  \A p \in Procs : Served(p)' <=> Served(p)
  BY DEF Served

LEMMA SameReq ==
  ASSUME \A p \in Procs : /\ pc'[p] = "idle" <=> pc[p] = "idle"
                          /\ Served(p)' <=> Served(p)
                          /\ write'[p] = write[p]
  PROVE  Req' = Req
  BY DEF Req

LEMMA CallReadStep ==
  ASSUME IInv, NEW p \in Procs, CallRead(p)
  PROVE  IInv' /\ Promise!Next
<1>1. /\ pc[p] = "idle" /\ pc' = [pc EXCEPT ![p] = "alloc"]
      /\ write' = [write EXCEPT ![p] = FALSE] /\ buf' = buf /\ block' = block /\ vlock' = vlock
      /\ UNCHANGED driverVars /\ UNCHANGED <<idx, bdisk, used, usedIdx, devIdx, inflight, block>>
  BY DEF CallRead, Goto, deviceVars
<1>2. IInv'
  <2>1. write' \in [Procs -> BOOLEAN] /\ buf' \in [Procs -> Values]
    BY <1>1 DEF IInv, TypeOK
  <2>2. pc' \in [Procs -> {"idle", "alloc", "nodesc", "publish", "notify", "sleep", "awake"}]
    BY <1>1 DEF IInv, TypeOK
  <2>3. \A q \in Procs :
          /\ Active(q)' <=> Active(q)
          /\ Active(q) => write'[q] = write[q]
          /\ pc'[q] = "publish" <=> pc[q] = "publish"
          /\ pc'[q] \in {"publish", "notify"} => vlock' = q
          /\ pc[q] = "awake" => pc'[q] = "awake" \/ bdisk[q]
    BY <1>1, ZenonT(60) DEF IInv, TypeOK, CallInv, Active
  <2> QED  BY <1>1, <2>1, <2>2, <2>3, CallStep
<1>3. \A q \in Procs : Served(q)' <=> Served(q)   BY <1>1, SameServed DEF driverVars
<1>4. ~Served(p)   BY <1>1, ServedIs DEF Active
<1>5. Req[p] = "none" /\ Req' = [Req EXCEPT ![p] = "read"]
  BY <1>1, <1>3, <1>4 DEF Req, IInv, TypeOK
<1>6. Promise!Read(p)   BY <1>1, <1>5 DEF Promise!Read
<1> QED  BY <1>2, <1>6 DEF Promise!Next

LEMMA CallWriteStep ==
  ASSUME IInv, NEW p \in Procs, NEW v \in Values, CallWrite(p, v)
  PROVE  IInv' /\ Promise!Next
<1>1. /\ pc[p] = "idle" /\ pc' = [pc EXCEPT ![p] = "alloc"]
      /\ write' = [write EXCEPT ![p] = TRUE] /\ buf' = [buf EXCEPT ![p] = v]
      /\ block' = block /\ vlock' = vlock
      /\ UNCHANGED driverVars /\ UNCHANGED <<idx, bdisk, used, usedIdx, devIdx, inflight, block>>
  BY DEF CallWrite, Goto, deviceVars
<1>2. IInv'
  <2>1. write' \in [Procs -> BOOLEAN] /\ buf' \in [Procs -> Values]
    BY <1>1 DEF IInv, TypeOK
  <2>2. pc' \in [Procs -> {"idle", "alloc", "nodesc", "publish", "notify", "sleep", "awake"}]
    BY <1>1 DEF IInv, TypeOK
  <2>3. \A q \in Procs :
          /\ Active(q)' <=> Active(q)
          /\ Active(q) => write'[q] = write[q]
          /\ pc'[q] = "publish" <=> pc[q] = "publish"
          /\ pc'[q] \in {"publish", "notify"} => vlock' = q
          /\ pc[q] = "awake" => pc'[q] = "awake" \/ bdisk[q]
    BY <1>1, ZenonT(60) DEF IInv, TypeOK, CallInv, Active
  <2> QED  BY <1>1, <2>1, <2>2, <2>3, CallStep
<1>3. \A q \in Procs : Served(q)' <=> Served(q)   BY <1>1, SameServed DEF driverVars
<1>4. ~Served(p)   BY <1>1, ServedIs DEF Active
<1>5. Req[p] = "none" /\ Req' = [Req EXCEPT ![p] = "write"]
  BY <1>1, <1>3, <1>4 DEF Req, IInv, TypeOK
<1>6. Promise!Write(p, v)   BY <1>1, <1>5 DEF Promise!Write
<1> QED  BY <1>2, <1>6 DEF Promise!Next

(* The other ones change nothing that a caller sees. *)
LEMMA QuietStep ==
  ASSUME IInv,
         \/ \E p \in Procs : AllocFail(p) \/ Notify(p) \/ SleepAgain(p) \/ Kill(p)
         \/ DeviceWait \/ IntrAck \/ IntrDone
  PROVE  IInv' /\ UNCHANGED <<block, buf, Req>>
<1>1. /\ UNCHANGED driverVars /\ UNCHANGED <<idx, bdisk, used, usedIdx, devIdx, inflight, block>>
      /\ write' = write /\ buf' = buf
  BY DEF AllocFail, Notify, SleepAgain, Kill, DeviceWait, IntrAck, IntrDone, deviceVars, callVars
<1>2. /\ pc' \in [Procs -> {"idle", "alloc", "nodesc", "publish", "notify", "sleep", "awake"}]
      /\ \A q \in Procs :
           /\ Active(q)' <=> Active(q)
           /\ pc'[q] = "idle" <=> pc[q] = "idle"
           /\ pc'[q] = "publish" <=> pc[q] = "publish"
           /\ pc'[q] \in {"publish", "notify"} => vlock' = q
           /\ pc[q] = "awake" => pc'[q] = "awake" \/ bdisk[q]
  <2> USE DEF IInv, TypeOK, CallInv, Active, Goto
  <2>1. ASSUME NEW p \in Procs, AllocFail(p) PROVE <1>2!:
    BY <2>1, SMT DEF AllocFail, GotoAndWakeup
  <2>2. ASSUME NEW p \in Procs, Notify(p) PROVE <1>2!:
    <3>1. pc[p] = "notify" /\ vlock = p /\ pc' = [pc EXCEPT ![p] = "sleep"]   BY <2>2 DEF Notify
    <3>2. \A q \in Procs : q # p => pc[q] \notin {"publish", "notify"}   BY <3>1
    <3> QED  BY <3>1, <3>2
  <2>3. ASSUME NEW p \in Procs, SleepAgain(p) PROVE <1>2!:
    BY <2>3 DEF SleepAgain
  <2>4. ASSUME NEW p \in Procs, Kill(p) PROVE <1>2!:
    BY <2>4, SMT DEF Kill
  <2>5. CASE DeviceWait   BY <2>5 DEF DeviceWait, callVars
  <2>6. CASE IntrAck      BY <2>6, VirtioAssumption DEF IntrAck, callVars
  <2>7. CASE IntrDone     BY <2>7, VirtioAssumption DEF IntrDone, callVars
  <2> QED  BY <2>1, <2>2, <2>3, <2>4, <2>5, <2>6, <2>7
<1>3. IInv'
  <2>1. write' \in [Procs -> BOOLEAN] /\ buf' \in [Procs -> Values]
    BY <1>1 DEF IInv, TypeOK
  <2>2. \A q \in Procs :
          /\ Active(q)' <=> Active(q)
          /\ Active(q) => write'[q] = write[q]
          /\ pc'[q] = "publish" <=> pc[q] = "publish"
          /\ pc'[q] \in {"publish", "notify"} => vlock' = q
          /\ pc[q] = "awake" => pc'[q] = "awake" \/ bdisk[q]
    BY <1>1, <1>2
  <2> QED  BY <1>1, <1>2, <2>1, <2>2, CallStep
<1>4. \A q \in Procs : Served(q)' <=> Served(q)   BY <1>1, SameServed DEF driverVars
<1>5. Req' = Req   BY <1>1, <1>2, <1>4, SameReq
<1> QED  BY <1>1, <1>3, <1>5

-----------------------------------------------------------------------------
(* A request is made *)

(* Two facts about finite sets, proved at the end: alloc3_desc() gets      *)
(* three different descriptors, and a ring that lacks two descriptors has  *)
(* room for another entry.                                                 *)
GetsThree ==
  LET d0 == First(FreeDescs)
      d1 == First(FreeDescs \ {d0})
      d2 == First(FreeDescs \ {d0, d1})
  IN  Alloc3 =>
        /\ d0 \in FreeDescs
        /\ d1 \in FreeDescs /\ d1 # d0
        /\ d2 \in FreeDescs /\ d2 # d0 /\ d2 # d1

HasRoom ==
  \A from, to \in 0 .. Word - 1, r \in [Descs -> Descs], x, y \in Descs :
    /\ RingOK(r, from, to) /\ x # y
    /\ x \notin Entries(r, from, to) /\ y \notin Entries(r, from, to)
    => Distance(from, to) + 1 < NUM

LEMMA FillStep ==
  ASSUME IInv, GetsThree, HasRoom, NEW p \in Procs, Fill(p)
  PROVE  IInv' /\ UNCHANGED <<block, buf, Req>>
<1>1. PICK d0 \in Descs, d1 \in Descs, d2 \in Descs :
        /\ d0 # d1 /\ d0 # d2 /\ d1 # d2 /\ free[d0] /\ free[d1] /\ free[d2]
        /\ free' = [free EXCEPT ![d0] = FALSE, ![d1] = FALSE, ![d2] = FALSE]
        /\ ops' = [ops EXCEPT ![d0] = [write |-> write[p], sector |-> p]]
        /\ desc' = [desc EXCEPT ![d0] = [next |-> d1, data |-> NoProc],
                                ![d1] = [next |-> d2, data |-> p],
                                ![d2] = [next |-> NUM, data |-> NoProc]]
        /\ info' = [info EXCEPT ![d0] = [b |-> p, ok |-> FALSE]]
        /\ avail' = [avail EXCEPT ![availIdx % NUM] = d0]
        /\ idx' = [idx EXCEPT ![p] = {d0, d1, d2}]
  <2> DEFINE e0 == First(FreeDescs)
             e1 == First(FreeDescs \ {e0})
             e2 == First(FreeDescs \ {e0, e1})
  <2>1. /\ e0 \in FreeDescs /\ e1 \in FreeDescs /\ e1 # e0
        /\ e2 \in FreeDescs /\ e2 # e0 /\ e2 # e1
    BY DEF Fill, GetsThree
  <2>2. /\ free' = [free EXCEPT ![e0] = FALSE, ![e1] = FALSE, ![e2] = FALSE]
        /\ ops' = [ops EXCEPT ![e0] = [write |-> write[p], sector |-> p]]
        /\ desc' = [desc EXCEPT ![e0] = [next |-> e1, data |-> NoProc],
                                ![e1] = [next |-> e2, data |-> p],
                                ![e2] = [next |-> NUM, data |-> NoProc]]
        /\ info' = [info EXCEPT ![e0] = [b |-> p, ok |-> FALSE]]
        /\ avail' = [avail EXCEPT ![availIdx % NUM] = e0]
        /\ idx' = [idx EXCEPT ![p] = {e0, e1, e2}]
    BY DEF Fill
  <2> HIDE DEF e0, e1, e2
  <2>3. e0 \in Descs /\ e1 \in Descs /\ e2 \in Descs /\ free[e0] /\ free[e1] /\ free[e2]
    BY <2>1 DEF FreeDescs
  <2> QED  BY <2>1, <2>2, <2>3
<1>2. /\ pc[p] = "alloc" /\ vlock = NoProc /\ vlock' = p /\ pc' = [pc EXCEPT ![p] = "publish"]
      /\ bdisk' = [bdisk EXCEPT ![p] = TRUE] /\ buf' = buf /\ block' = block /\ write' = write
      /\ availIdx' = availIdx /\ used_idx' = used_idx /\ used' = used /\ usedIdx' = usedIdx
      /\ devIdx' = devIdx /\ inflight' = inflight
  BY DEF Fill, Goto, deviceVars
<1>3. p # NoProc /\ NUM \in Nat   BY VirtioAssumption
(* The three belong to nobody, so they are no heads. *)
<1>4. /\ \A q \in Procs : d0 \notin idx[q] /\ d1 \notin idx[q] /\ d2 \notin idx[q]
      /\ info[d0].b = NoProc /\ info[d1].b = NoProc /\ info[d2].b = NoProc
  <2>1. \A q \in Procs : d0 \notin idx[q] /\ d1 \notin idx[q] /\ d2 \notin idx[q]
    BY <1>1 DEF IInv, DescInv
  <2>2. \A d \in Descs : info[d].b # NoProc => HeadOf(info[d].b, d) /\ info[d].b \in Procs
    BY OwnerIsProc DEF IInv, HeadInv
  <2>3. \A d \in Descs, q \in Procs : HeadOf(q, d) => d \in idx[q]   BY DEF HeadOf
  <2> QED  BY <2>1, <2>2, <2>3
<1>5. /\ \A d \in Descs \ {d0} : info'[d] = info[d] /\ ops'[d] = ops[d]
      /\ info'[d0].b = p /\ ~info'[d0].ok
      /\ \A d \in Descs \ {d0, d1, d2} : desc'[d] = desc[d] /\ free'[d] = free[d]
      /\ desc'[d0].next = d1 /\ desc'[d1].next = d2 /\ desc'[d1].data = p
      /\ ops'[d0] = [write |-> write[p], sector |-> p]
      /\ ~free'[d0] /\ ~free'[d1] /\ ~free'[d2]
  BY <1>1 DEF IInv, TypeOK
<1>6. /\ idx'[p] = {d0, d1, d2} /\ pc'[p] = "publish" /\ bdisk'[p]
      /\ \A q \in Procs \ {p} : idx'[q] = idx[q] /\ pc'[q] = pc[q] /\ bdisk'[q] = bdisk[q]
      /\ idx[p] = {} /\ ~bdisk[p]
  <2>1. ~Active(p)   BY <1>2 DEF Active
  <2>2. idx[p] = {} /\ ~bdisk[p]   BY <2>1 DEF IInv, CallInv
  <2>3. idx'[p] = {d0, d1, d2} /\ \A q \in Procs \ {p} : idx'[q] = idx[q]
    BY <1>1 DEF IInv, TypeOK
  <2>4. /\ pc'[p] = "publish" /\ bdisk'[p]
        /\ \A q \in Procs \ {p} : pc'[q] = pc[q] /\ bdisk'[q] = bdisk[q]
    BY <1>2 DEF IInv, TypeOK
  <2> QED  BY <2>2, <2>3, <2>4
<1>7. \A q \in Procs : pc[q] \notin {"publish", "notify"}
  BY <1>2, VirtioAssumption DEF IInv, CallInv
<1>8. TypeOK'
  <2>1. desc' \in [Descs -> [next : 0 .. NUM, data : Procs \union {NoProc}]]
    <3>1. NUM \in 0 .. NUM /\ d1 \in 0 .. NUM /\ d2 \in 0 .. NUM   BY <1>3, SMT DEF Descs
    <3> QED  BY <1>1, <3>1 DEF IInv, TypeOK
  <2>2. /\ free' \in [Descs -> BOOLEAN] /\ avail' \in [Descs -> Descs]
        /\ ops' \in [Descs -> [write : BOOLEAN, sector : Procs \union {NoProc}]]
        /\ info' \in [Descs -> [b : Procs \union {NoProc}, ok : BOOLEAN]]
        /\ idx' \in [Procs -> SUBSET Descs]
    BY <1>1 DEF IInv, TypeOK
  <2>3. /\ pc' \in [Procs -> {"idle", "alloc", "nodesc", "publish", "notify", "sleep", "awake"}]
        /\ bdisk' \in [Procs -> BOOLEAN]
    BY <1>2 DEF IInv, TypeOK
  <2> QED  BY <1>2, <2>1, <2>2, <2>3 DEF IInv, TypeOK

<1>9. ASSUME NEW d \in Descs, info[d].b # NoProc PROVE HeadOf(info[d].b, d)'
  <2> DEFINE q == info[d].b   e1 == desc[d].next   e2 == desc[e1].next
  <2>1. HeadOf(q, d) /\ q \in Procs   BY <1>9, OwnerIsProc DEF IInv, HeadInv
  <2>2. /\ Active(q) /\ idx[q] = {d, e1, e2} /\ e1 \in Descs \ {d} /\ e2 \in Descs \ {d, e1}
        /\ info[e1].b = NoProc /\ info[e2].b = NoProc
        /\ desc[e1].data = q /\ ops[d] = [write |-> write[q], sector |-> q]
    BY <2>1 DEF HeadOf
  <2>3. q # p   BY <1>2, <2>2 DEF Active
  <2>4. {d, e1, e2} \intersect {d0, d1, d2} = {}   BY <1>4, <2>1, <2>2
  <2>5. /\ info'[d] = info[d] /\ info'[e1] = info[e1] /\ info'[e2] = info[e2]
        /\ desc'[d] = desc[d] /\ desc'[e1] = desc[e1] /\ ops'[d] = ops[d]
    BY <1>5, <2>2, <2>4
  <2>6. idx'[q] = idx[q] /\ pc'[q] = pc[q]   BY <1>6, <2>1, <2>3
  <2>7. info'[d].b = q /\ desc'[d].next = e1 /\ desc'[e1].next = e2   BY <2>5
  <2> HIDE DEF q, e1, e2
  <2>8. HeadOf(q, d)'
    <3>1. q' = q   BY <2>7 DEF q
    <3> QED  BY <1>2, <2>2, <2>5, <2>6, <2>7, <3>1 DEF HeadOf, Active
  <2> QED  BY <2>8 DEF q
<1>10. HeadInv'
  <2>1. HeadOf(p, d0)'
    <3>1. info'[d1].b = NoProc /\ info'[d2].b = NoProc   BY <1>1, <1>4, <1>5
    <3>2. /\ info'[d0].b = p /\ idx'[p] = {d0, d1, d2} /\ pc'[p] = "publish"
          /\ desc'[d0].next = d1 /\ desc'[d1].next = d2 /\ desc'[d1].data = p
          /\ ops'[d0] = [write |-> write[p], sector |-> p] /\ write' = write
      BY <1>1, <1>2, <1>5, <1>6
    <3> QED  BY <1>1, <3>1, <3>2 DEF HeadOf, Active
  <2>2. \A d \in Descs \ {d0} : info'[d].b = info[d].b   BY <1>5
  <2> QED  BY <1>5, <1>9, <2>1, <2>2 DEF HeadInv
<1>11. CallInv'
  <2>1. \A q \in Procs \ {p} : Active(q)' <=> Active(q)   BY <1>6 DEF Active
  <2>2. \A q \in Procs \ {p} : Active(q) => \E d \in Descs : info'[d].b = q
    <3> TAKE q \in Procs \ {p}
    <3> SUFFICES ASSUME Active(q) PROVE \E d \in Descs : info'[d].b = q   OBVIOUS
    <3>1. PICK d \in Descs : info[d].b = q   BY DEF IInv, CallInv
    <3>2. d # d0   BY <1>4, <3>1, VirtioAssumption
    <3> QED  BY <1>5, <3>1, <3>2
  <2>3. Active(p)' /\ \E d \in Descs : info'[d].b = p   BY <1>5, <1>6 DEF Active
  <2> QED  BY <1>2, <1>6, <1>7, <2>1, <2>2, <2>3, SMT DEF IInv, CallInv
<1>12. DescInv'
  <2>1. \A d \in Descs : free'[d] <=> \A q \in Procs : d \notin idx'[q]
    BY <1>4, <1>5, <1>6, SMT DEF IInv, DescInv
  <2>2. \A q \in Procs \ {p} : idx'[p] \intersect idx'[q] = {}   BY <1>4, <1>6
  <2> QED  BY <1>6, <2>1, <2>2, SMT DEF IInv, DescInv
<1>13. RequestInv'
  <2>1. /\ availIdx \in 0 .. Word - 1 /\ devIdx \in 0 .. Word - 1 /\ avail \in [Descs -> Descs]
        /\ RingOK(avail, devIdx, availIdx) /\ RingOK(used, used_idx, usedIdx)
    BY DEF IInv, TypeOK, RequestInv
  <2>2. /\ RingOK(avail', devIdx, availIdx) /\ Entries(avail', devIdx, availIdx) = Queued
        /\ avail'[availIdx % NUM] = d0
    <3>1. availIdx % NUM \in Descs   BY <2>1, Sizes, SMT
    <3>2. /\ avail' \in [Descs -> Descs] /\ avail'[availIdx % NUM] = d0
          /\ \A d \in Descs : d # availIdx % NUM => avail'[d] = avail[d]
      BY <1>1, <2>1, <3>1
    <3> QED  BY ONLY <2>1, <3>2, RingWrite DEF Queued
  <2>3. Queued' = Queued /\ Answered' = Answered   BY <1>2, <2>2, RingsNext DEF Answered
  <2>4. \A h \in Queued \union inflight \union Answered : h \in Descs /\ info[h].b # NoProc
    BY QueuedDescs DEF IInv, RequestInv, TypeOK
  <2>5. d0 \notin Queued /\ d1 \notin Queued   BY <1>4, <2>4
  <2>6. Distance(devIdx, availIdx) + 1 < NUM
    BY <1>1, <2>1, <2>5 DEF Queued, HasRoom
  <2>7. \A h \in Queued \union inflight \union Answered :
          /\ info'[h] = info[h] /\ info[h].b \in Procs \ {p}
    <3>1. \A h \in Queued \union inflight \union Answered : h # d0 /\ bdisk[info[h].b]
      BY <1>4, <2>4 DEF IInv, RequestInv
    <3> QED  BY <1>5, <1>6, <2>4, <3>1, OwnerIsProc, ZenonT(60)
  <2>8. \A h \in Queued' \union inflight' :
          /\ info'[h].b # NoProc /\ ~info'[h].ok
          /\ bdisk'[info'[h].b] /\ pc'[info'[h].b] # "publish"
    <3>1. \A h \in Queued \union inflight :
            info[h].b # NoProc /\ ~info[h].ok /\ bdisk[info[h].b] /\ pc[info[h].b] # "publish"
      BY DEF IInv, RequestInv
    <3> QED  BY <1>2, <1>6, <2>3, <2>7, <3>1, SMT
  <2>9. \A h \in Answered' : info'[h].b # NoProc /\ info'[h].ok /\ bdisk'[info'[h].b]
    <3>1. \A h \in Answered : info[h].b # NoProc /\ info[h].ok /\ bdisk[info[h].b]
      BY DEF IInv, RequestInv
    <3> QED  BY <1>6, <2>3, <2>7, <3>1, SMT
  <2>10. \A h \in Descs : info'[h].b # NoProc /\ ~bdisk'[info'[h].b] => info'[h].ok
    <3> SUFFICES ASSUME NEW h \in Descs, info'[h].b # NoProc, ~bdisk'[info'[h].b]
                 PROVE  info'[h].ok
      OBVIOUS
    <3>1. h # d0   BY <1>5, <1>6
    <3>2. info'[h] = info[h] /\ info[h].b \in Procs   BY <1>5, <3>1, OwnerIsProc
    <3>3. info[h].b # p   BY <1>6, <3>2
    <3> QED  BY <1>6, <3>2, <3>3 DEF IInv, RequestInv
  <2>11. \A q \in Procs : pc'[q] = "publish" => q = p   BY <1>6, <1>7
  <2>12. /\ info'[avail'[availIdx' % NUM]].b = p /\ ~info'[avail'[availIdx' % NUM]].ok
         /\ Distance(devIdx', availIdx') + 1 < NUM
    BY <1>2, <1>5, <2>2, <2>6
  <2>13. /\ RingOK(avail', devIdx', availIdx') /\ RingOK(used', used_idx', usedIdx')
         /\ Queued' \intersect inflight' = {}
    BY <1>2, <2>1, <2>2, <2>3 DEF IInv, RequestInv
  <2> QED  BY <1>6, <2>8, <2>9, <2>10, <2>11, <2>12, <2>13, RingsNext DEF RequestInv
<1>14. Req' = Req
  <2>1. \A q \in Procs \ {p} : Served(q)' <=> Served(q)
    <3>1. \A q \in Procs \ {p} : \A d \in idx[q] : d \in Descs \ {d0}
      BY <1>4 DEF IInv, TypeOK
    <3> QED  BY <1>5, <1>6, <3>1, ZenonT(60) DEF Served
  <2>2. ~Served(p)' /\ ~Served(p)
    <3>1. \A d \in {d0, d1, d2} : ~(info'[d].b = p /\ info'[d].ok)   BY <1>3, <1>4, <1>5, SMT
    <3> QED  BY <1>6, <3>1 DEF Served
  <2> QED  BY <1>2, <1>6, <2>1, <2>2, SameReq
<1> QED  BY <1>2, <1>8, <1>10, <1>11, <1>12, <1>13, <1>14 DEF IInv

-----------------------------------------------------------------------------
(* The request goes to the device *)
LEMMA PublishStep ==
  ASSUME IInv, NEW p \in Procs, Publish(p)
  PROVE  IInv' /\ UNCHANGED <<block, buf, Req>>
<1>1. /\ pc[p] = "publish" /\ pc' = [pc EXCEPT ![p] = "notify"]
      /\ availIdx' = (availIdx + 1) % Word
      /\ free' = free /\ desc' = desc /\ ops' = ops /\ info' = info /\ avail' = avail
      /\ used_idx' = used_idx /\ used' = used /\ usedIdx' = usedIdx /\ devIdx' = devIdx
      /\ inflight' = inflight /\ bdisk' = bdisk /\ write' = write /\ idx' = idx
      /\ vlock' = vlock /\ buf' = buf /\ block' = block
  BY DEF Publish, Goto, deviceVars
<1>2. /\ pc'[p] = "notify" /\ \A q \in Procs \ {p} : pc'[q] = pc[q]
      /\ \A q \in Procs : Active(q)' <=> Active(q)
  BY <1>1 DEF IInv, TypeOK, Active
<1>3. vlock = p /\ \A q \in Procs \ {p} : pc[q] \notin {"publish", "notify"}
  BY <1>1 DEF IInv, CallInv
<1> DEFINE h == avail[availIdx % NUM]
<1>4. info[h].b = p /\ ~info[h].ok /\ bdisk[p] /\ Distance(devIdx, availIdx) + 1 < NUM
  BY <1>1 DEF IInv, RequestInv
<1>5. h \notin Queued /\ h \notin inflight
  BY <1>1, <1>4 DEF IInv, RequestInv
<1>6. /\ availIdx \in 0 .. Word - 1 /\ devIdx \in 0 .. Word - 1 /\ avail \in [Descs -> Descs]
      /\ RingOK(avail, devIdx, availIdx)
  BY DEF IInv, TypeOK, RequestInv
<1>7. /\ availIdx' \in 0 .. Word - 1 /\ RingOK(avail, devIdx, availIdx')
      /\ Entries(avail, devIdx, availIdx') = Queued \union {h}
  BY <1>1, <1>4, <1>5, <1>6, RingPush DEF Queued
<1> HIDE DEF h
<1>8. TypeOK'
  <2>1. pc' \in [Procs -> {"idle", "alloc", "nodesc", "publish", "notify", "sleep", "awake"}]
    BY <1>1 DEF IInv, TypeOK
  <2> QED  BY <1>1, <1>7, <2>1 DEF IInv, TypeOK
<1>9. HeadInv'   BY <1>1, <1>2, SameHeads
<1>10. CallInv'
  <2>1. \A q \in Procs : Active(q) => \E d \in Descs : info[d].b = q   BY DEF IInv, CallInv
  <2> QED  BY <1>1, <1>2, <1>3, <1>4, <2>1, SMT DEF IInv, CallInv
<1>11. DescInv'   BY <1>1 DEF IInv, DescInv
<1>12. RequestInv'
  <2>1. Queued' = Queued \union {h} /\ Answered' = Answered
    BY <1>1, <1>7, RingsNext DEF Answered
  <2>2. \A e \in Queued' \union inflight' :
          /\ info[e].b # NoProc /\ ~info[e].ok /\ bdisk[info[e].b] /\ pc'[info[e].b] # "publish"
    <3>1. \A e \in Queued \union inflight : info[e].b # NoProc => info[e].b \in Procs
      BY QueuedDescs, OwnerIsProc DEF IInv, TypeOK
    <3>2. \A e \in Queued \union inflight :
            /\ info[e].b # NoProc /\ ~info[e].ok /\ bdisk[info[e].b] /\ pc[info[e].b] # "publish"
      BY DEF IInv, RequestInv
    <3> QED  BY <1>1, <1>2, <1>4, <2>1, <3>1, <3>2, VirtioAssumption, SMT
  <2>3. \A q \in Procs : pc'[q] # "publish"   BY <1>2, <1>3
  <2>4. /\ RingOK(avail', devIdx', availIdx') /\ RingOK(used', used_idx', usedIdx')
        /\ Queued' \intersect inflight' = {}
    BY <1>1, <1>5, <1>7, <2>1 DEF IInv, RequestInv
  <2> QED  BY <1>1, <2>1, <2>2, <2>3, <2>4, RingsNext DEF IInv, RequestInv
<1>13. Req' = Req
  <2>1. \A q \in Procs : Served(q)' <=> Served(q)   BY <1>1, SameServed
  <2> QED  BY <1>1, <1>2, <2>1, SameReq
<1> QED  BY <1>1, <1>8, <1>9, <1>10, <1>11, <1>12, <1>13 DEF IInv

LEMMA DeviceTakeStep ==
  ASSUME IInv, DeviceTake
  PROVE  IInv' /\ UNCHANGED <<block, buf, Req>>
<1> DEFINE h == avail[devIdx % NUM]
<1>1. /\ devIdx # availIdx /\ devIdx' = (devIdx + 1) % Word /\ inflight' = inflight \union {h}
      /\ free' = free /\ desc' = desc /\ ops' = ops /\ info' = info /\ avail' = avail
      /\ availIdx' = availIdx /\ used_idx' = used_idx /\ used' = used /\ usedIdx' = usedIdx
      /\ bdisk' = bdisk /\ write' = write /\ idx' = idx /\ pc' = pc
      /\ vlock' = vlock /\ buf' = buf /\ block' = block
  BY DEF DeviceTake, driverVars, callVars
<1>2. /\ availIdx \in 0 .. Word - 1 /\ devIdx \in 0 .. Word - 1 /\ avail \in [Descs -> Descs]
      /\ RingOK(avail, devIdx, availIdx)
  BY DEF IInv, TypeOK, RequestInv
<1>3. /\ devIdx' \in 0 .. Word - 1 /\ h \in Queued
      /\ RingOK(avail, devIdx', availIdx)
      /\ Distance(devIdx', availIdx) = Distance(devIdx, availIdx) - 1
      /\ Entries(avail, devIdx', availIdx) = Queued \ {h}
  BY <1>1, <1>2, RingPop DEF Queued
<1> HIDE DEF h
<1>4. h \in Descs   BY <1>3, QueuedDescs
<1>5. TypeOK'     BY <1>1, <1>3, <1>4 DEF IInv, TypeOK
<1>6. HeadInv'    BY <1>1, SameHeads DEF Active
<1>7. CallInv'    BY <1>1 DEF IInv, CallInv, Active
<1>8. DescInv'    BY <1>1 DEF IInv, DescInv
<1>9. RequestInv'
  <2>1. Queued' = Queued \ {h} /\ Answered' = Answered
    BY <1>1, <1>3, RingsNext DEF Answered
  <2>2. Queued' \union inflight' \subseteq Queued \union inflight   BY <1>1, <1>3, <2>1
  <2>3. /\ RingOK(avail', devIdx', availIdx') /\ RingOK(used', used_idx', usedIdx')
        /\ Queued' \intersect inflight' = {}
    BY <1>1, <1>3, <2>1 DEF IInv, RequestInv
  <2>4. Distance(devIdx, availIdx) + 1 < NUM => Distance(devIdx', availIdx') + 1 < NUM
    BY <1>1, <1>2, <1>3, DistanceIs, Sizes, SMT
  <2> QED  BY <1>1, <2>1, <2>2, <2>3, <2>4, RingsNext DEF IInv, RequestInv
<1>10. Req' = Req
  <2>1. \A q \in Procs : Served(q)' <=> Served(q)   BY <1>1, SameServed
  <2> QED  BY <1>1, <2>1, SameReq
<1> QED  BY <1>1, <1>5, <1>6, <1>7, <1>8, <1>9, <1>10 DEF IInv

(* The device finishes a request: the data of its own caller moves. *)
LEMMA DeviceDoneStep ==
  ASSUME IInv, HasRoom, NEW h \in Descs, DeviceDone(h)
  PROVE  IInv' /\ Promise!Next
<1>1. /\ h \in inflight /\ info' = [info EXCEPT ![h].ok = TRUE] /\ inflight' = inflight \ {h}
      /\ used' = [used EXCEPT ![usedIdx % NUM] = h] /\ usedIdx' = (usedIdx + 1) % Word
      /\ free' = free /\ desc' = desc /\ ops' = ops /\ avail' = avail /\ availIdx' = availIdx
      /\ used_idx' = used_idx /\ devIdx' = devIdx /\ vlock' = vlock
      /\ bdisk' = bdisk /\ write' = write /\ idx' = idx /\ pc' = pc
  BY DEF DeviceDone, callVars
<1>2. info[h].b # NoProc /\ ~info[h].ok /\ bdisk[info[h].b] /\ h \notin Queued
  BY <1>1 DEF IInv, RequestInv
<1>3. PICK p \in Procs : p = info[h].b   BY <1>2, OwnerIsProc
<1>4. HeadOf(p, h)   BY <1>2, <1>3 DEF IInv, HeadInv
<1>5. /\ Active(p) /\ desc[desc[h].next].data = p /\ ops[h].write = write[p] /\ ops[h].sector = p
      /\ desc[h].next \in Descs \ {h} /\ info[desc[h].next].b = NoProc
  BY <1>4, SMT DEF HeadOf
<1>6. /\ info' \in [Descs -> [b : Procs \union {NoProc}, ok : BOOLEAN]]
      /\ \A d \in Descs : info'[d].b = info[d].b
      /\ \A d \in Descs \ {h} : info'[d].ok = info[d].ok
      /\ info'[h].ok
  <2>1. info \in [Descs -> [b : Procs \union {NoProc}, ok : BOOLEAN]]   BY DEF IInv, TypeOK
  <2>2. info' = [info EXCEPT ![h].ok = TRUE]   BY <1>1
  <2> QED  BY <2>1, <2>2
<1>7. IF write[p] THEN block' = [block EXCEPT ![p] = buf[p]] /\ buf' = buf
                  ELSE buf' = [buf EXCEPT ![p] = block[p]] /\ block' = block
  <2>1. LET q == desc[desc[h].next].data  t == ops[h].sector IN
        IF ops[h].write THEN block' = [block EXCEPT ![t] = buf[q]] /\ buf' = buf
                        ELSE buf' = [buf EXCEPT ![q] = block[t]] /\ block' = block
    BY DEF DeviceDone
  <2> QED  BY <1>5, <2>1
<1>8. /\ usedIdx \in 0 .. Word - 1 /\ used_idx \in 0 .. Word - 1 /\ used \in [Descs -> Descs]
      /\ RingOK(used, used_idx, usedIdx)
  BY DEF IInv, TypeOK, RequestInv
(* The used ring has room: neither h nor the next of its chain is in it. *)
<1>9. h \notin Answered /\ desc[h].next \notin Answered
  BY <1>2, <1>5 DEF IInv, RequestInv
<1>10. Distance(used_idx, usedIdx) + 1 < NUM
  BY <1>5, <1>8, <1>9 DEF Answered, HasRoom
<1>11. /\ used' \in [Descs -> Descs] /\ used'[usedIdx % NUM] = h
       /\ RingOK(used', used_idx, usedIdx) /\ Entries(used', used_idx, usedIdx) = Answered
  <2>1. usedIdx % NUM \in Descs   BY <1>8, Sizes, SMT
  <2>2. /\ used' \in [Descs -> Descs] /\ used'[usedIdx % NUM] = h
        /\ \A d \in Descs : d # usedIdx % NUM => used'[d] = used[d]
    BY <1>1, <1>8, <2>1
  <2>3. RingOK(used', used_idx, usedIdx) /\ Entries(used', used_idx, usedIdx) = Answered
    BY ONLY <1>8, <2>2, RingWrite DEF Answered
  <2> QED  BY <2>2, <2>3
<1>12. /\ usedIdx' \in 0 .. Word - 1 /\ RingOK(used', used_idx, usedIdx')
       /\ Entries(used', used_idx, usedIdx') = Answered \union {h}
  <2>1. usedIdx' = (usedIdx + 1) % Word   BY <1>1
  <2>2. used'[usedIdx % NUM] \notin Entries(used', used_idx, usedIdx)   BY <1>9, <1>11
  <2>3. /\ (usedIdx + 1) % Word \in 0 .. Word - 1 /\ RingOK(used', used_idx, (usedIdx + 1) % Word)
        /\ Entries(used', used_idx, (usedIdx + 1) % Word)
             = Entries(used', used_idx, usedIdx) \union {used'[usedIdx % NUM]}
    BY ONLY <1>8, <1>10, <1>11, <2>2, RingPush
  <2> QED  BY <1>11, <2>1, <2>3
<1>13. TypeOK'
  <2>1. block' \in [Procs -> Values] /\ buf' \in [Procs -> Values]
    <3>1. block \in [Procs -> Values] /\ buf \in [Procs -> Values]   BY DEF IInv, TypeOK
    <3>2. CASE write[p]    BY <1>7, <3>1, <3>2
    <3>3. CASE ~write[p]   BY <1>7, <3>1, <3>3
    <3> QED  BY <3>2, <3>3
  <2> QED  BY <1>1, <1>6, <1>11, <1>12, <2>1, SMT DEF IInv, TypeOK
<1>14. HeadInv'   BY <1>1, <1>6, SameHeads DEF Active
<1>15. CallInv'   BY <1>1, <1>6, SMT DEF IInv, CallInv, Active
<1>16. DescInv'   BY <1>1 DEF IInv, DescInv
<1>17. RequestInv'
  <2>1. Queued' = Queued /\ Answered' = Answered \union {h}
    BY <1>1, <1>12, RingsNext DEF Queued
  <2>2. Queued \subseteq Descs /\ Answered \subseteq Descs /\ inflight \subseteq Descs
    BY QueuedDescs DEF IInv, TypeOK
  <2>3. \A e \in Queued' \union inflight' :
          /\ info'[e].b # NoProc /\ ~info'[e].ok
          /\ bdisk'[info'[e].b] /\ pc'[info'[e].b] # "publish"
    <3>1. \A e \in Queued' \union inflight' : e \in Descs \ {h} /\ e \in Queued \union inflight
      BY <1>1, <1>2, <2>1, <2>2
    <3> QED  BY <1>1, <1>6, <3>1 DEF IInv, RequestInv
  <2>4. \A e \in Answered' : info'[e].b # NoProc /\ info'[e].ok /\ bdisk'[info'[e].b]
    <3>1. \A e \in Answered : info'[e].b # NoProc /\ info'[e].ok /\ bdisk'[info'[e].b]
      BY <1>1, <1>6, <1>9, <2>2 DEF IInv, RequestInv
    <3> QED  BY <1>1, <1>2, <1>6, <2>1, <3>1
  <2>5. \A e \in Descs : info'[e].b # NoProc /\ ~bdisk'[info'[e].b] => info'[e].ok
    BY <1>1, <1>6 DEF IInv, RequestInv
  <2>6. ASSUME NEW q \in Procs, pc'[q] = "publish"
        PROVE  /\ info'[avail'[availIdx' % NUM]].b = q /\ ~info'[avail'[availIdx' % NUM]].ok
               /\ bdisk'[q] /\ Distance(devIdx', availIdx') + 1 < NUM
    <3>1. availIdx % NUM \in Descs /\ avail[availIdx % NUM] \in Descs
      <4>1. availIdx \in 0 .. Word - 1 /\ avail \in [Descs -> Descs]   BY DEF IInv, TypeOK
      <4>2. availIdx % NUM \in Descs   BY <4>1, Sizes, SMT
      <4> QED  BY <4>1, <4>2
    <3>2. /\ info[avail[availIdx % NUM]].b = q /\ ~info[avail[availIdx % NUM]].ok
          /\ bdisk[q] /\ Distance(devIdx, availIdx) + 1 < NUM
      BY <1>1, <2>6 DEF IInv, RequestInv
    <3>3. avail[availIdx % NUM] # h   BY <1>1, <2>6, <3>2 DEF IInv, RequestInv
    <3> QED  BY <1>1, <1>6, <3>1, <3>2, <3>3
  <2>7. /\ RingOK(avail', devIdx', availIdx') /\ RingOK(used', used_idx', usedIdx')
        /\ Queued' \intersect inflight' = {}
    BY <1>1, <1>12, <2>1 DEF IInv, RequestInv
  <2> QED  BY <2>3, <2>4, <2>5, <2>6, <2>7, RingsNext DEF RequestInv
<1>18. IInv'   BY <1>13, <1>14, <1>15, <1>16, <1>17 DEF IInv
<1>19. Served(p)' /\ ~Served(p)
  <2>1. ~Served(p)   BY <1>2, <1>3, ServedIs
  <2>2. h \in idx'[p]   BY <1>1, <1>4 DEF HeadOf
  <2> QED  BY <1>3, <1>6, <2>1, <2>2 DEF Served
<1>20. \A q \in Procs \ {p} : Served(q)' <=> Served(q)
  <2>1. \A q \in Procs : idx[q] \subseteq Descs   BY DEF IInv, TypeOK
  <2> QED  BY <1>1, <1>3, <1>6, <2>1, SMT DEF Served
<1>21. /\ Req[p] = IF write[p] THEN "write" ELSE "read"
       /\ Req' = [Req EXCEPT ![p] = "done"]
  <2>1. pc[p] # "idle"   BY <1>5 DEF Active
  <2>2. Req[p] = IF write[p] THEN "write" ELSE "read"   BY <1>19, <2>1 DEF Req
  <2>3. Req' = [Req EXCEPT ![p] = "done"]   BY <1>1, <1>19, <1>20, <2>1 DEF Req
  <2> QED  BY <2>2, <2>3
<1>22. Promise!ServeRead(p) \/ Promise!ServeWrite(p)
  BY <1>7, <1>21 DEF Promise!ServeRead, Promise!ServeWrite
<1> QED  BY <1>18, <1>22 DEF Promise!Next

-----------------------------------------------------------------------------
(* The request comes back *)

LEMMA IntrEntryStep ==
  ASSUME IInv, IntrEntry
  PROVE  IInv' /\ UNCHANGED <<block, buf, Req>>
<1> DEFINE h == used[used_idx % NUM]
<1>1. /\ vlock = Handler /\ used_idx # usedIdx /\ used_idx' = (used_idx + 1) % Word
      /\ free' = free /\ desc' = desc /\ ops' = ops /\ info' = info /\ avail' = avail
      /\ availIdx' = availIdx /\ used' = used /\ usedIdx' = usedIdx /\ devIdx' = devIdx
      /\ inflight' = inflight /\ write' = write /\ idx' = idx
      /\ vlock' = vlock /\ buf' = buf /\ block' = block
  BY DEF IntrEntry, deviceVars
<1>2. /\ usedIdx \in 0 .. Word - 1 /\ used_idx \in 0 .. Word - 1 /\ used \in [Descs -> Descs]
      /\ RingOK(used, used_idx, usedIdx)
  BY DEF IInv, TypeOK, RequestInv
<1>3. /\ used_idx' \in 0 .. Word - 1 /\ h \in Answered
      /\ RingOK(used, used_idx', usedIdx) /\ Entries(used, used_idx', usedIdx) = Answered \ {h}
  BY <1>1, <1>2, RingPop DEF Answered
<1>4. h \in Descs /\ info[h].b # NoProc /\ info[h].ok /\ bdisk[info[h].b]
  BY <1>3, QueuedDescs DEF IInv, RequestInv
<1>5. PICK p \in Procs : p = info[h].b   BY <1>4, OwnerIsProc
<1>6. /\ bdisk' = [bdisk EXCEPT ![p] = FALSE]
      /\ pc' = [pc EXCEPT ![p] = IF @ = "sleep" THEN "awake" ELSE @]
  BY <1>5 DEF IntrEntry
<1> HIDE DEF h
<1>7. pc[p] \in {"sleep", "awake"} /\ \A q \in Procs : pc[q] \notin {"publish", "notify"}
  <2>1. \A q \in Procs : pc[q] \notin {"publish", "notify"}
    BY <1>1, VirtioAssumption DEF IInv, CallInv
  <2>2. Active(p)   BY <1>4, <1>5 DEF IInv, HeadInv, HeadOf
  <2> QED  BY <2>1, <2>2 DEF Active
<1>8. /\ pc'[p] = "awake" /\ ~bdisk'[p]
      /\ \A q \in Procs \ {p} : pc'[q] = pc[q] /\ bdisk'[q] = bdisk[q]
      /\ bdisk' \in [Procs -> BOOLEAN]
      /\ pc' \in [Procs -> {"idle", "alloc", "nodesc", "publish", "notify", "sleep", "awake"}]
  BY <1>6, <1>7 DEF IInv, TypeOK
<1>9. \A q \in Procs : Active(q)' <=> Active(q)   BY <1>7, <1>8 DEF Active
(* The other requests are those of other processes. *)
<1>10. \A d \in Descs \ {h} : info[d].b # p   BY <1>4, <1>5, OneHead, VirtioAssumption
<1>11. TypeOK'     BY <1>1, <1>3, <1>8, SMT DEF IInv, TypeOK
<1>12. HeadInv'    BY <1>1, <1>9, SameHeads
<1>13. CallInv'
  <2>1. \A q \in Procs : Active(q) => \E d \in Descs : info[d].b = q   BY DEF IInv, CallInv
  <2>2. \A q \in Procs : ~Active(q) => idx'[q] = {} /\ ~bdisk'[q]
    BY <1>1, <1>8 DEF IInv, CallInv
  <2>3. \A q \in Procs : Active(q) /\ ~bdisk'[q] => pc'[q] = "awake"
    BY <1>8 DEF IInv, CallInv
  <2>4. \A q \in Procs : pc'[q] \notin {"publish", "notify"}   BY <1>7, <1>8
  <2> QED  BY <1>1, <1>9, <2>1, <2>2, <2>3, <2>4 DEF CallInv
<1>14. DescInv'    BY <1>1 DEF IInv, DescInv
<1>15. RequestInv'
  <2>1. Queued' = Queued /\ Answered' = Answered \ {h}
    BY <1>1, <1>3, RingsNext DEF Queued
  <2>2. Queued \subseteq Descs /\ Answered \subseteq Descs /\ inflight \subseteq Descs
    BY QueuedDescs DEF IInv, TypeOK
  <2>3. \A e \in Queued \union inflight : e # h   BY <1>4 DEF IInv, RequestInv
  <2>4. \A d \in Descs \ {h} : info[d].b # NoProc =>
          pc'[info[d].b] = pc[info[d].b] /\ bdisk'[info[d].b] = bdisk[info[d].b]
    BY <1>8, <1>10, OwnerIsProc
  <2>5. \A e \in Queued' \union inflight' :
          /\ info'[e].b # NoProc /\ ~info'[e].ok
          /\ bdisk'[info'[e].b] /\ pc'[info'[e].b] # "publish"
    BY <1>1, <2>1, <2>2, <2>3, <2>4 DEF IInv, RequestInv
  <2>6. \A e \in Answered' : info'[e].b # NoProc /\ info'[e].ok /\ bdisk'[info'[e].b]
    BY <1>1, <2>1, <2>2, <2>4 DEF IInv, RequestInv
  <2>7. \A e \in Descs : info'[e].b # NoProc /\ ~bdisk'[info'[e].b] => info'[e].ok
    BY <1>1, <1>4, <2>4 DEF IInv, RequestInv
  <2>8. \A q \in Procs : pc'[q] # "publish"   BY <1>7, <1>8
  <2>9. /\ RingOK(avail', devIdx', availIdx') /\ RingOK(used', used_idx', usedIdx')
        /\ Queued' \intersect inflight' = {}
    BY <1>1, <1>3, <2>1 DEF IInv, RequestInv
  <2> QED  BY <2>5, <2>6, <2>7, <2>8, <2>9, RingsNext DEF RequestInv
<1>16. Req' = Req
  <2>1. \A q \in Procs : Served(q)' <=> Served(q)   BY <1>1, SameServed
  <2>2. \A q \in Procs : pc'[q] = "idle" <=> pc[q] = "idle"   BY <1>7, <1>8
  <2> QED  BY <1>1, <2>1, <2>2, SameReq
<1> QED  BY <1>1, <1>11, <1>12, <1>13, <1>14, <1>15, <1>16 DEF IInv

LEMMA FinishStep ==
  ASSUME IInv, NEW p \in Procs, Finish(p)
  PROVE  IInv' /\ Promise!Next
<1>1. /\ pc[p] = "awake" /\ vlock = NoProc /\ ~bdisk[p]
      /\ idx' = [idx EXCEPT ![p] = {}]
      /\ pc' = [q \in Procs |-> IF q = p THEN "idle"
                                ELSE IF pc[q] = "nodesc" THEN "alloc" ELSE pc[q]]
      /\ ops' = ops /\ avail' = avail /\ availIdx' = availIdx /\ used_idx' = used_idx
      /\ used' = used /\ usedIdx' = usedIdx /\ devIdx' = devIdx /\ inflight' = inflight
      /\ bdisk' = bdisk /\ write' = write /\ vlock' = vlock /\ buf' = buf /\ block' = block
  BY DEF Finish, GotoAndWakeup, deviceVars
<1>2. PICK h \in Descs : info[h].b = p   BY <1>1 DEF IInv, CallInv, Active
<1>3. HeadOf(p, h) /\ p # NoProc   BY <1>2, VirtioAssumption DEF IInv, HeadInv
<1>4. idx[p] = Chain(h) /\ h \in idx[p] /\ idx[p] \subseteq Descs
  BY <1>3 DEF HeadOf, Chain
<1>5. (CHOOSE d \in idx[p] : info[d].b = p) = h
  <2>1. \A d \in idx[p] : info[d].b = p => d = h   BY <1>2, <1>3, <1>4, OneHead
  <2> QED  BY <1>2, <1>4, <2>1
<1>6. /\ info' = [info EXCEPT ![h].b = NoProc]
      /\ free' = [d \in Descs |-> free[d] \/ d \in idx[p]]
      /\ desc' = [d \in Descs |-> IF d \in idx[p] THEN [next |-> NUM, data |-> NoProc]
                                                  ELSE desc[d]]
  BY <1>4, <1>5 DEF Finish
<1>7. /\ info' \in [Descs -> [b : Procs \union {NoProc}, ok : BOOLEAN]]
      /\ info'[h].b = NoProc /\ \A d \in Descs \ {h} : info'[d] = info[d]
  <2>1. info \in [Descs -> [b : Procs \union {NoProc}, ok : BOOLEAN]]   BY DEF IInv, TypeOK
  <2>2. info' = [info EXCEPT ![h].b = NoProc]   BY <1>6
  <2> QED  BY <2>1, <2>2
<1>8. /\ idx'[p] = {} /\ \A q \in Procs \ {p} : idx'[q] = idx[q]
      /\ pc'[p] = "idle"
      /\ \A q \in Procs \ {p} : /\ Active(q)' <=> Active(q)
                                /\ pc'[q] = "idle" <=> pc[q] = "idle"
                                /\ Active(q) => pc'[q] = pc[q]
  BY <1>1 DEF IInv, TypeOK, Active
<1>9. \A d \in Descs \ {h} : info[d].b # p   BY <1>2, <1>3, OneHead
<1>10. \A q \in Procs : pc[q] \notin {"publish", "notify"}
  BY <1>1, VirtioAssumption DEF IInv, CallInv
<1>11. TypeOK'
  <2>1. free' \in [Descs -> BOOLEAN] /\ idx' \in [Procs -> SUBSET Descs]
    BY <1>1, <1>6 DEF IInv, TypeOK
  <2>2. desc' \in [Descs -> [next : 0 .. NUM, data : Procs \union {NoProc}]]
    <3>1. NUM \in 0 .. NUM   BY VirtioAssumption, SMT
    <3> QED  BY <1>6, <3>1 DEF IInv, TypeOK
  <2>3. pc' \in [Procs -> {"idle", "alloc", "nodesc", "publish", "notify", "sleep", "awake"}]
    BY <1>1 DEF IInv, TypeOK
  <2> QED  BY <1>1, <1>7, <2>1, <2>2, <2>3 DEF IInv, TypeOK
<1>12. ASSUME NEW d \in Descs, info'[d].b # NoProc
       PROVE  d # h /\ info'[d].b = info[d].b /\ info[d].b \in Procs \ {p}
              /\ HeadOf(info[d].b, d)
  BY <1>7, <1>9, <1>12, OwnerIsProc DEF IInv, HeadInv
<1>13. HeadInv'
  <2> SUFFICES ASSUME NEW d \in Descs, info'[d].b # NoProc
               PROVE  HeadOf(info[d].b, d)'
    BY DEF HeadInv
  <2>1. PICK q \in Procs \ {p} : q = info[d].b /\ q = info'[d].b /\ HeadOf(q, d)   BY <1>12
  <2> DEFINE e1 == desc[d].next  e2 == desc[e1].next
  <2>2. /\ Active(q) /\ idx[q] = {d, e1, e2} /\ e1 \in Descs \ {d} /\ e2 \in Descs \ {d, e1}
        /\ info[e1].b = NoProc /\ info[e2].b = NoProc
        /\ desc[e1].data = q /\ ops[d] = [write |-> write[q], sector |-> q]
    BY <2>1 DEF HeadOf
  <2>3. d \notin idx[p] /\ e1 \notin idx[p] /\ e2 \notin idx[p]
    BY <2>2 DEF IInv, DescInv
  <2> HIDE DEF e1, e2
  <2>4. /\ desc'[d] = desc[d] /\ desc'[e1] = desc[e1]
        /\ info'[e1].b = info[e1].b /\ info'[e2].b = info[e2].b
    BY <1>4, <1>6, <1>7, <2>2, <2>3
  <2>5. desc'[d].next = e1 /\ desc'[e1].next = e2   BY <2>4 DEF e1, e2
  <2>6. HeadOf(q, d)'   BY <1>1, <1>8, <2>2, <2>4, <2>5 DEF HeadOf
  <2> QED  BY <2>1, <2>6 DEF HeadOf
<1>14. CallInv'
  <2>1. ASSUME NEW q \in Procs \ {p}, Active(q) PROVE \E d \in Descs : info'[d].b = q
    <3>1. PICK d \in Descs : info[d].b = q   BY <2>1 DEF IInv, CallInv
    <3>2. d # h   BY <1>2, <3>1
    <3> QED  BY <1>7, <3>1, <3>2
  <2>2. ~Active(p)'   BY <1>8 DEF Active
  <2>3. \A q \in Procs \ {p} : Active(q) /\ ~bdisk[q] => pc'[q] = "awake"
    BY <1>8, SMT DEF IInv, CallInv
  <2>4. \A q \in Procs : pc'[q] \notin {"publish", "notify"}   BY <1>8, <1>10 DEF Active
  <2> QED  BY <1>1, <1>8, <2>1, <2>2, <2>3, <2>4, ZenonT(60) DEF IInv, CallInv
<1>15. DescInv'
  <2>1. \A d \in Descs : free'[d] <=> free[d] \/ d \in idx[p]   BY <1>6
  <2>2. \A d \in Descs : free'[d] <=> \A q \in Procs : d \notin idx'[q]
    BY <1>8, <2>1, SMT DEF IInv, DescInv
  <2> QED  BY <1>8, <2>2 DEF IInv, DescInv
<1>16. RequestInv'
  <2>1. Queued' = Queued /\ Answered' = Answered   BY <1>1, RingsNext DEF Queued, Answered
  <2>2. \A e \in Queued \union inflight \union Answered :
          e \in Descs /\ info[e].b # NoProc /\ bdisk[info[e].b]
    BY QueuedDescs DEF IInv, RequestInv, TypeOK
  <2>3. \A e \in Queued \union inflight \union Answered : e # h   BY <1>1, <1>2, <2>2
  <2>4. \A e \in Queued \union inflight \union Answered :
          info'[e] = info[e] /\ info[e].b \in Procs \ {p}
    BY <1>1, <1>7, <2>2, <2>3, OwnerIsProc
  <2>5. \A q \in Procs : pc'[q] # "publish"   BY <1>8, <1>10 DEF Active
  <2>6. \A e \in Queued' \union inflight' :
          /\ info'[e].b # NoProc /\ ~info'[e].ok
          /\ bdisk'[info'[e].b] /\ pc'[info'[e].b] # "publish"
    BY <1>1, <2>1, <2>4, <2>5, SMT DEF IInv, RequestInv
  <2>7. \A e \in Answered' : info'[e].b # NoProc /\ info'[e].ok /\ bdisk'[info'[e].b]
    BY <1>1, <2>1, <2>4 DEF IInv, RequestInv
  <2>8. \A e \in Descs : info'[e].b # NoProc /\ ~bdisk'[info'[e].b] => info'[e].ok
    BY <1>1, <1>7, <1>12 DEF IInv, RequestInv
  <2>9. /\ RingOK(avail', devIdx', availIdx') /\ RingOK(used', used_idx', usedIdx')
        /\ Queued' \intersect inflight' = {}
    BY <1>1, <2>1 DEF IInv, RequestInv
  <2> QED  BY <2>5, <2>6, <2>7, <2>8, <2>9, RingsNext DEF RequestInv
<1>17. IInv'   BY <1>11, <1>13, <1>14, <1>15, <1>16 DEF IInv
<1>18. Served(p)
  <2>1. info[h].ok   BY <1>1, <1>2, <1>3 DEF IInv, RequestInv
  <2> QED  BY <1>2, <1>4, <2>1 DEF Served
<1>19. \A q \in Procs \ {p} : Served(q)' <=> Served(q)
  <2>1. \A q \in Procs \ {p} : \A d \in idx[q] : d \in Descs \ {h}
    BY <1>4, SMT DEF IInv, TypeOK, DescInv
  <2> QED  BY <1>7, <1>8, <2>1 DEF Served
<1>20. Req[p] = "done" /\ Req' = [Req EXCEPT ![p] = "none"]
  BY <1>1, <1>8, <1>18, <1>19 DEF Req
<1>21. Promise!Return(p)   BY <1>1, <1>20 DEF Promise!Return
<1> QED  BY <1>17, <1>21 DEF Promise!Next

-----------------------------------------------------------------------------
LEMMA InitIInv ==
  ASSUME Init
  PROVE  IInv
<1>1. TypeOK
  <2>1. NUM \in 0 .. NUM /\ 0 \in Descs   BY VirtioAssumption, SMT DEF Descs
  <2> QED  BY <2>1, VirtioAssumption DEF Init, TypeOK
<1>2. \A p \in Procs : ~Active(p) /\ idx[p] = {} /\ ~bdisk[p] /\ pc[p] = "idle"
  BY DEF Init, Active
<1>3. \A d \in Descs : info[d].b = NoProc /\ free[d]   BY DEF Init
<1>4. HeadInv /\ CallInv /\ DescInv   BY <1>2, <1>3 DEF HeadInv, CallInv, DescInv
<1>5. RequestInv
  <2>1. Distance(Start, Start) = 0   BY VirtioAssumption, DistanceIs, SMT
  <2>2. 0 .. 0 - 1 = {}   BY SMT
  <2>3. \A r : RingOK(r, Start, Start) /\ Entries(r, Start, Start) = {}
    BY <2>1, <2>2, VirtioAssumption, SMT DEF RingOK, Entries
  <2>4. /\ Queued = {} /\ Answered = {} /\ inflight = {}
        /\ RingOK(avail, devIdx, availIdx) /\ RingOK(used, used_idx, usedIdx)
    BY <2>3 DEF Init, Queued, Answered
  <2> QED  BY <1>2, <1>3, <2>4 DEF RequestInv
<1> QED  BY <1>1, <1>4, <1>5 DEF IInv

LEMMA NextStep ==
  ASSUME IInv, GetsThree, HasRoom, [Next]_vars
  PROVE  IInv' /\ [Promise!Next]_(Promise!vars)
<1>1. ASSUME NEW p \in Procs, CallRead(p) \/ Request(p) \/ Kill(p)
      PROVE  IInv' /\ [Promise!Next]_(Promise!vars)
  BY <1>1, CallReadStep, QuietStep, FillStep, PublishStep, FinishStep DEF Request, Promise!vars
<1>2. ASSUME NEW p \in Procs, NEW v \in Values, CallWrite(p, v)
      PROVE  IInv' /\ [Promise!Next]_(Promise!vars)
  BY <1>2, CallWriteStep
<1>3. CASE Device
  BY <1>3, DeviceTakeStep, QuietStep DEF Device, Promise!vars
<1>4. ASSUME NEW h \in Descs, DeviceDone(h)
      PROVE  IInv' /\ [Promise!Next]_(Promise!vars)
  BY <1>4, DeviceDoneStep
<1>5. CASE Interrupt
  BY <1>5, IntrEntryStep, QuietStep DEF Interrupt, Promise!vars
<1>6. CASE UNCHANGED vars
  <2>1. /\ UNCHANGED driverVars /\ UNCHANGED <<idx, bdisk, used, usedIdx, devIdx, inflight, block>>
        /\ pc' = pc /\ write' = write /\ buf' = buf /\ block' = block /\ vlock' = vlock
    BY <1>6 DEF vars, callVars, deviceVars
  <2>2. /\ write' \in [Procs -> BOOLEAN] /\ buf' \in [Procs -> Values]
        /\ pc' \in [Procs -> {"idle", "alloc", "nodesc", "publish", "notify", "sleep", "awake"}]
    BY <2>1 DEF IInv, TypeOK
  <2>3. \A q \in Procs :
          /\ Active(q)' <=> Active(q)
          /\ Active(q) => write'[q] = write[q]
          /\ pc'[q] = "publish" <=> pc[q] = "publish"
          /\ pc'[q] \in {"publish", "notify"} => vlock' = q
          /\ pc[q] = "awake" => pc'[q] = "awake" \/ bdisk[q]
    BY <2>1 DEF IInv, CallInv, Active
  <2>4. IInv'   BY <2>1, <2>2, <2>3, CallStep
  <2>5. \A q \in Procs : Served(q)' <=> Served(q)   BY <2>1, SameServed DEF driverVars
  <2>6. Req' = Req   BY <2>1, <2>5, SameReq
  <2> QED  BY <2>1, <2>4, <2>6 DEF Promise!vars
<1> QED  BY <1>1, <1>2, <1>3, <1>4, <1>5, <1>6 DEF Next

-----------------------------------------------------------------------------
(* Counting descriptors *)
LOCAL INSTANCE FiniteSetTheorems

(* A ring that lacks two descriptors has room for another entry. *)
LEMMA RingFits == HasRoom
<1> SUFFICES ASSUME NEW from \in 0 .. Word - 1, NEW to \in 0 .. Word - 1, NEW r \in [Descs -> Descs],
         RingOK(r, from, to), NEW x \in Descs, NEW y \in Descs, x # y,
         x \notin Entries(r, from, to), y \notin Entries(r, from, to)
             PROVE  Distance(from, to) + 1 < NUM
  BY DEF HasRoom
<1> DEFINE n == Distance(from, to)
           S == 0 .. n - 1
           T == (Descs \ {x}) \ {y}
           f == [k \in S |-> r[Slot(from, k)]]
<1>1. n \in Nat   BY DistanceIs
<1>2. \A k \in S : r[Slot(from, k)] \in T
  BY <1>1, DistanceIs, SMT DEF Entries
<1>3. \A j, k \in S : r[Slot(from, j)] = r[Slot(from, k)] => j = k   BY DEF RingOK
<1>4. IsFiniteSet(T) /\ Cardinality(T) = NUM - 2
  <2>1. IsFiniteSet(Descs) /\ Cardinality(Descs) = NUM   BY Sizes, FS_Interval, SMT DEF Descs
  <2>2. IsFiniteSet(Descs \ {x}) /\ Cardinality(Descs \ {x}) = NUM - 1
    BY <2>1, FS_RemoveElement
  <2>3. y \in Descs \ {x}   OBVIOUS
  <2>4. IsFiniteSet(T) /\ Cardinality(T) = (NUM - 1) - 1   BY <2>2, <2>3, FS_RemoveElement, ZenonT(60)
  <2> QED  BY <2>4, VirtioAssumption, SMT
<1> HIDE DEF T
<1>5. f \in Injection(S, T)   BY <1>2, <1>3 DEF Injection, IsInjective
<1>6. Cardinality(S) <= Cardinality(T)   BY ONLY <1>4, <1>5, FS_Injection
<1>7. Cardinality(S) = n   BY <1>1, FS_Interval, SMTT(30)
<1> QED  BY <1>1, <1>4, <1>6, <1>7, Sizes, SMT

LEMMA FirstIn ==
  ASSUME NEW S \in SUBSET Descs, S # {}
  PROVE  First(S) \in S
<1>1. S \subseteq Nat   BY SMT DEF Descs
<1>2. \E m \in S : \A e \in S : ~(<<e, m>> \in OpToRel(<, Nat))
  BY <1>1, NatLessThanWellFounded, WFMin
<1>3. PICK m \in S : \A e \in S : ~(e < m)   BY <1>1, <1>2 DEF OpToRel
<1>4. \A e \in S : m <= e   BY <1>1, <1>3, SMT
<1> QED  BY <1>4 DEF First

LEMMA ThreeFree == GetsThree
<1> DEFINE d0 == First(FreeDescs)
           d1 == First(FreeDescs \ {d0})
           d2 == First(FreeDescs \ {d0, d1})
<1> SUFFICES ASSUME Alloc3
             PROVE  /\ d0 \in FreeDescs
                    /\ d1 \in FreeDescs /\ d1 # d0
                    /\ d2 \in FreeDescs /\ d2 # d0 /\ d2 # d1
  BY Zenon DEF GetsThree
<1> FreeDescs \in SUBSET Descs   BY DEF FreeDescs
<1>1. d0 \in FreeDescs   BY FirstIn DEF Alloc3
<1> HIDE DEF d0
<1>2. FreeDescs \ {d0} # {}   BY SMT DEF Alloc3
<1>3. d1 \in FreeDescs \ {d0}   BY <1>2, FirstIn
<1> HIDE DEF d1
<1>4. FreeDescs \ {d0, d1} # {}   BY SMT DEF Alloc3
<1>5. d2 \in FreeDescs \ {d0, d1}   BY <1>4, FirstIn
<1> QED  BY <1>1, <1>3, <1>5 DEF d0, d1

-----------------------------------------------------------------------------
(* Every reachable state of the driver satisfies IInv. *)
THEOREM Inductive == Spec => []IInv
<1>1. Init => IInv                  BY InitIInv
<1>2. IInv /\ [Next]_vars => IInv'   BY NextStep, ThreeFree, RingFits
<1> QED  BY <1>1, <1>2, PTL DEF Spec

(* Descriptors are neither shared nor lost, and what virtio_disk_intr()    *)
(* finds in the used ring is a finished request of a process that waits    *)
(* for it: the panics of free_desc() and virtio_disk_intr() are out of     *)
(* reach, and disk.info[id].b is never 0 there.                            *)
THEOREM RequestsKept == Spec => []RequestsOwned
<1>1. IInv => RequestsOwned
  <2> SUFFICES ASSUME IInv PROVE RequestsOwned   OBVIOUS
  <2>1. used_idx \in 0 .. Word - 1 /\ usedIdx \in 0 .. Word - 1   BY DEF IInv, TypeOK
  <2>2. Distance(used_idx, usedIdx) \in Nat   BY <2>1, DistanceIs
  <2>3. \A k \in Unseen : used[(used_idx + k) % NUM] \in Answered
    BY <2>2, SMT DEF Unseen, Answered, Entries, Slot
  <2>4. \A h \in Answered : info[h].b # NoProc /\ info[h].ok /\ bdisk[info[h].b]
    BY DEF IInv, RequestInv
  <2> QED  BY <2>3, <2>4 DEF RequestsOwned, IInv, DescInv
<1> QED  BY <1>1, Inductive, PTL

(* The driver implements BlockDevice: between the call of virtio_disk_rw() *)
(* and its return the contents move once, between the caller's own buffer  *)
(* and its own block, in whatever order the device finishes requests.      *)
THEOREM DriverIsDevice == Spec => Implements
<1>1. Init => Promise!Init
  <2> SUFFICES ASSUME Init PROVE Promise!Init   OBVIOUS
  <2>1. block \in [Procs -> Values] /\ buf \in [Procs -> Values]
    BY VirtioAssumption DEF Init
  <2>2. Req = [p \in Procs |-> "none"]   BY DEF Init, Req
  <2> QED  BY <2>1, <2>2 DEF Promise!Init
<1>2. IInv /\ [Next]_vars => [Promise!Next]_(Promise!vars)   BY NextStep, ThreeFree, RingFits
<1> QED  BY <1>1, <1>2, Inductive, PTL DEF Spec, Implements, Promise!Spec
=============================================================================
