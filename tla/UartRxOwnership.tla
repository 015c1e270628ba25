-------------------------- MODULE UartRxOwnership --------------------------
(***************************************************************************)
(* The reference counters of UartRx are right, and the free list of the    *)
(* slab with them, for every number of blocks and every queue length.      *)
(***************************************************************************)
EXTENDS UartRxProof, FunctionTheorems

-----------------------------------------------------------------------------
(* References held by a queue of events.                                   *)

(* The references that a queue holds can be counted.                       *)
LEMMA RefsType ==
  ASSUME NEW q \in Seq(Event), NEW b
  PROVE  /\ IsFiniteSet({i \in 1 .. Len(q) : q[i].buf = b})
         /\ Refs(q, b) \in Nat
<1>1. Len(q) \in Nat
  BY LenProperties
<1>2. IsFiniteSet(1 .. Len(q))
  BY <1>1, FS_Interval
<1>3. IsFiniteSet({i \in 1 .. Len(q) : q[i].buf = b})
  BY <1>2, FS_Subset
<1>4. QED BY <1>3, FS_CardinalityType DEF Refs

(* k_msgq_put adds one reference to the block of the event.                *)
LEMMA RefsAppend ==
  ASSUME NEW q \in Seq(Event), NEW e \in Event, NEW b
  PROVE  Refs(Append(q, e), b) = Refs(q, b) + Bit(e.buf = b)
<1> DEFINE S == {i \in 1 .. Len(q) : q[i].buf = b}
           r == Append(q, e)
           T == {i \in 1 .. Len(r) : r[i].buf = b}
<1>1. Len(q) \in Nat /\ Len(r) = Len(q) + 1
  BY LenProperties, AppendProperties
<1>2. (\A i \in 1 .. Len(q) : r[i] = q[i]) /\ r[Len(q) + 1] = e
  BY AppendProperties
<1> HIDE DEF r
<1>3. 1 .. Len(r) = (1 .. Len(q)) \cup {Len(q) + 1}
  BY <1>1
<1>4. IsFiniteSet(S) /\ Len(q) + 1 \notin S
  <2>1. Len(q) + 1 \notin S
    BY <1>1
  <2>2. IsFiniteSet(S)
    BY RefsType
  <2>3. QED BY <2>1, <2>2
<1>5. Cardinality(S) \in Nat
  BY <1>4, FS_CardinalityType
<1>6. CASE e.buf = b
  <2>1. T = S \cup {Len(q) + 1}
    BY <1>2, <1>3, <1>6
  <2> HIDE DEF S, T
  <2>2. Cardinality(T) = Cardinality(S) + 1
    BY <2>1, <1>4, FS_AddElement
  <2>3. QED BY <2>2, <1>6 DEF Refs, Bit, S, T, r
<1>7. CASE e.buf # b
  <2>1. T = S
    BY <1>2, <1>3, <1>7
  <2> HIDE DEF S, T
  <2>2. Cardinality(T) = Cardinality(S) + 0
    BY <2>1, <1>5
  <2>3. QED BY <2>2, <1>7 DEF Refs, Bit, S, T, r
<1>8. QED BY <1>6, <1>7

(* k_msgq_get takes one off the block of the event it returns.             *)
LEMMA RefsTail ==
  ASSUME NEW q \in Seq(Event), q # <<>>, NEW b
  PROVE  Refs(q, b) = Bit(Head(q).buf = b) + Refs(Tail(q), b)
<1> DEFINE S == {i \in 1 .. Len(q) : q[i].buf = b}
           r == Tail(q)
           T == {i \in 1 .. Len(r) : r[i].buf = b}
           U == S \ {1}
           f == [i \in T |-> i + 1]
<1>1. /\ Len(q) \in Nat \ {0} /\ Len(r) = Len(q) - 1
      /\ \A i \in 1 .. Len(r) : r[i] = q[i + 1]
  BY EmptySeq, LenProperties, HeadTailProperties
<1>2. q[1] = Head(q)
  BY <1>1
<1> HIDE DEF r
<1>3. IsFiniteSet(S) /\ IsFiniteSet(U)
  BY RefsType, FS_RemoveElement, ZenonT(40)
<1>4. f \in Bijection(T, U)
  <2>1. f \in [T -> U]
    BY <1>1
  <2>2. \A i, j \in T : f[i] = f[j] => i = j
    BY <1>1
  <2>3. \A k \in U : \E i \in T : f[i] = k
    <3> TAKE k \in U
    <3>1. k - 1 \in T /\ f[k - 1] = k
      BY <1>1
    <3>2. QED BY <3>1
  <2> HIDE DEF f, T, U
  <2>4. QED
    BY <2>1, <2>2, <2>3, Fun_IsBij
<1>5. IsFiniteSet(T) /\ Cardinality(T) = Cardinality(U)
  <2> HIDE DEF f, T, U
  <2>1. ExistsBijection(T, U)
    BY <1>4 DEF ExistsBijection
  <2>2. ExistsBijection(U, T)
    BY <2>1, Fun_ExistsBijSymmetric
  <2>3. QED BY <1>3, <2>2, FS_Bijection
<1>6. 1 \in S <=> Head(q).buf = b
  BY <1>1, <1>2
<1> HIDE DEF S, T
<1>7. Cardinality(S) \in Nat /\ Cardinality(T) \in Nat
  BY <1>3, <1>5, FS_CardinalityType
<1>8. Cardinality(U) = IF 1 \in S THEN Cardinality(S) - 1 ELSE Cardinality(S)
  BY <1>3, FS_RemoveElement
<1>9. Cardinality(S) = Bit(Head(q).buf = b) + Cardinality(T)
  BY <1>5, <1>6, <1>7, <1>8 DEF Bit
<1>10. QED BY <1>9 DEF Refs, S, T, r

-----------------------------------------------------------------------------
(* The inductive invariant.  A block is on the free list when its counter  *)
(* is zero and the thread is not about to put it there; with the counters  *)
(* right that is SlabAccounted, and each step is then about counters only. *)
SlabFree ==
  \A b \in Blocks :
    b \in slab_free <=> /\ ref_counter[b] = 0
                       /\ ~ (pc = "free" /\ rx_event.buf = b)

OwnLocal ==
  /\ req => nxt = NULL
  /\ pc = "enable" => buf \notin leaked
  /\ pc = "free" => ref_counter[rx_event.buf] = 0

OwnInv == RecoveryInv /\ OwnLocal /\ RefCountAccounted /\ SlabFree

(* Those of rx_event_queue can.                                            *)
LEMMA QueueRefsType ==
  ASSUME TypeInv, NEW b
  PROVE  Refs(rx_event_queue, b) \in Nat
  BY RefsType DEF TypeInv, TypeOK, QueueTypeOK

(* Those of the driver, the queue and the work item together can.          *)
LEMMA LiveRefsType ==
  ASSUME TypeInv, NEW b
  PROVE  LiveRefs(b) \in Nat
  BY QueueRefsType DEF LiveRefs, Bit

(* Whoever holds a block sees a positive counter.                          *)
LEMMA HeldPositive ==
  ASSUME TypeInv, RefCountAccounted, NEW b \in Blocks,
         cur = b \/ nxt = b \/ InHand(b) \/ (pc = "enable" /\ buf = b)
  PROVE  ref_counter[b] > 0
<1>1. ref_counter[b] = LiveRefs(b) + Bit(b \in leaked)
  BY DEF RefCountAccounted
<1>2. LiveRefs(b) > 0
  BY QueueRefsType DEF LiveRefs, Bit
<1>3. QED BY <1>1, <1>2, LiveRefsType DEF Bit

(* Steps that move no reference: what OwnInv speaks of does not change.    *)
LEMMA NoReferenceMoved ==
  ASSUME TypeInv, OwnInv, [Next]_vars,
         UNCHANGED <<cur, nxt, rx_event_queue, slab_free, ref_counter, rx_event,
                     buf, leaked>>,
         req' => req,
         pc' = "free" <=> pc = "free",
         pc' = "enable" <=> pc = "enable",
         pc' \in {"handle", "unref"} <=> pc \in {"handle", "unref"}
  PROVE  OwnInv'
<1>1. RecoveryInv'
  BY RecoveryStep DEF OwnInv
<1>2. OwnLocal' /\ SlabFree'
  BY DEF OwnInv, OwnLocal, SlabFree
<1>3. \A b \in Blocks : LiveRefs(b)' = LiveRefs(b)
  BY DEF LiveRefs, InHand
<1>4. RefCountAccounted'
  BY <1>3 DEF OwnInv, RefCountAccounted
<1>5. QED BY <1>1, <1>2, <1>4 DEF OwnInv

(* Steps that pass no block on.                                            *)
LEMMA QuietStep ==
  ASSUME TypeInv, OwnInv, [Next]_vars,
         \/ Receive \/ RxLineError \/ RxDisabled \/ WorkTimeout \/ WorkStart
         \/ HandleEvent \/ Recovery \/ RecoveryDone \/ UNCHANGED vars
  PROVE  OwnInv'
<1> DEFINE Kept == UNCHANGED <<cur, nxt, rx_event_queue, slab_free, ref_counter,
                               rx_event, buf, leaked>>
<1>1. CASE Receive \/ RxLineError \/ RxDisabled \/ WorkTimeout \/ UNCHANGED vars
  <2>1. Kept /\ UNCHANGED pc
    BY <1>1 DEF Receive, RxLineError, RxDisabled, WorkTimeout, vars, driver,
                pool, thread
  <2>2. req' => req
    BY <1>1, Zenon DEF Receive, RxLineError, RxDisabled, WorkTimeout, vars, driver
  <2>3. QED BY <2>1, <2>2, NoReferenceMoved
<1>2. CASE WorkStart \/ HandleEvent \/ Recovery \/ RecoveryDone
  <2>1. Kept /\ UNCHANGED req
    BY <1>2 DEF WorkStart, HandleEvent, Recovery, RecoveryDone, driver, pool
  <2>2. \/ pc \in {"idle", "recovery", "cas"} /\ pc' \in {"get", "alloc", "idle"}
        \/ pc = "handle" /\ pc' = "unref"
    BY <1>2 DEF WorkStart, HandleEvent, Recovery, RecoveryDone
  <2>3. QED BY <2>1, <2>2, NoReferenceMoved
<1>3. QED BY <1>1, <1>2

(* Taking a block from the free list: its counter was zero, so nobody      *)
(* refers to it.                                                           *)
LEMMA FreeUnreferenced ==
  ASSUME TypeInv, OwnInv, NEW b \in slab_free
  PROVE  /\ b \in Blocks /\ LiveRefs(b) = 0 /\ b \notin leaked
         /\ ref_counter[b] = 0 /\ ~ (pc = "free" /\ rx_event.buf = b)
<1>1. b \in Blocks
  BY DEF TypeInv, TypeOK, PoolTypeOK
<1>2. ref_counter[b] = 0 /\ ~ (pc = "free" /\ rx_event.buf = b)
  BY <1>1 DEF OwnInv, SlabFree
<1>3. LiveRefs(b) = 0 /\ b \notin leaked
  BY <1>1, <1>2, LiveRefsType DEF OwnInv, RefCountAccounted, Bit
<1>4. QED BY <1>1, <1>2, <1>3

(* UART_RX_RDY refers to the block once more, or drops the event and keeps *)
(* the reference for good.                                                 *)
LEMMA RxRdyOwn ==
  ASSUME TypeInv, OwnInv, [Next]_vars, RxRdy
  PROVE  OwnInv'
<1> USE DEF TypeInv, TypeOK, DriverTypeOK, PoolTypeOK
<1>1. RecoveryInv'
  BY RecoveryStep DEF OwnInv
<1>2. UNCHANGED <<cur, nxt, req, slab_free, pc, rx_event, buf, leaked>>
  BY DEF RxRdy, thread
<1>3. CASE UNCHANGED <<ref_counter, rx_event_queue>>
  BY <1>2, <1>3, NoReferenceMoved
<1> DEFINE e == RxEvent
<1>4. CASE /\ ref_counter' = [ref_counter EXCEPT ![cur] = @ + 1]
           /\ rx_event_queue' = Append(rx_event_queue, e)
  <2>1. cur \in Blocks /\ e \in Event
    <3>1. cur \in Blocks /\ told < fill
      BY DEF RxRdy
    <3>2. QED BY ONLY ConstantsAssumption, <3>1, TypeInv
              DEF TypeInv, TypeOK, DriverTypeOK, RxEvent, Event
  <2>2. ref_counter[cur] > 0
    BY <2>1, HeldPositive DEF OwnInv
  <2>3. OwnLocal' /\ SlabFree'
    BY <1>2, <1>4, <2>1, <2>2, SMTT(20) DEF OwnInv, OwnLocal, SlabFree, ThreadLocal, Event
  <2> HIDE DEF e
  <2>4. ASSUME NEW b \in Blocks
        PROVE  LiveRefs(b)' = LiveRefs(b) + Bit(e.buf = b)
    <3>1. Refs(rx_event_queue', b) = Refs(rx_event_queue, b) + Bit(e.buf = b)
      BY <1>4, <2>1, RefsAppend DEF QueueTypeOK
    <3>2. QED BY <1>2, <3>1, QueueRefsType DEF LiveRefs, InHand, Bit
  <2>5. e.buf = cur
    BY DEF e, RxEvent
  <2>6. RefCountAccounted'
    BY <1>2, <1>4, <2>1, <2>4, <2>5, LiveRefsType DEF OwnInv, RefCountAccounted, Bit
  <2>7. QED BY <1>1, <2>3, <2>6 DEF OwnInv
<1>5. QED BY <1>3, <1>4 DEF RxRdy, Ref

(* LiveRefs by owner: the queue, the driver and the thread, which holds    *)
(* the event in hand or the block for uart_rx_enable.                      *)
DriverRefs(b) == Bit(cur = b) + Bit(nxt = b)
ThreadRefs(b) == Bit(InHand(b)) + Bit(pc = "enable" /\ buf = b)

(* The references by holder.                                               *)
LEMMA LiveRefsParts ==
  ASSUME NEW b, NEW n, Refs(rx_event_queue, b) = n, n \in Int
  PROVE  /\ LiveRefs(b) = n + DriverRefs(b) + ThreadRefs(b)
         /\ DriverRefs(b) \in Int /\ ThreadRefs(b) \in Int
<1> DEFINE h == Bit(InHand(b))
           t == Bit(pc = "enable" /\ buf = b)
           c == Bit(cur = b)
           x == Bit(nxt = b)
<1>1. h \in Int /\ t \in Int /\ c \in Int /\ x \in Int
  BY DEF Bit
<1>2. LiveRefs(b) = Refs(rx_event_queue, b) + c + x + h + t
  BY DEF LiveRefs
<1>3. DriverRefs(b) = c + x
  BY DEF DriverRefs
<1>4. ThreadRefs(b) = h + t
  BY DEF ThreadRefs
<1> HIDE DEF h, t, c, x
<1>5. QED BY <1>1, <1>2, <1>3, <1>4

(* The same one step later.                                                *)
LEMMA LiveRefsPartsNext ==
  ASSUME NEW b, NEW n, Refs(rx_event_queue', b) = n, n \in Int
  PROVE  /\ LiveRefs(b)' = n + DriverRefs(b)' + ThreadRefs(b)'
         /\ DriverRefs(b)' \in Int /\ ThreadRefs(b)' \in Int
<1> DEFINE h == Bit(InHand(b)')
           t == Bit(pc' = "enable" /\ buf' = b)
           c == Bit(cur' = b)
           x == Bit(nxt' = b)
<1>1. h \in Int /\ t \in Int /\ c \in Int /\ x \in Int
  BY DEF Bit
<1>2. LiveRefs(b)' = Refs(rx_event_queue', b) + c + x + h + t
  BY DEF LiveRefs
<1>3. DriverRefs(b)' = c + x
  BY DEF DriverRefs
<1>4. ThreadRefs(b)' = h + t
  BY DEF ThreadRefs
<1> HIDE DEF h, t, c, x
<1>5. QED BY <1>1, <1>2, <1>3, <1>4

(* What the driver holds is the only part that an interrupt other than     *)
(* UART_RX_RDY changes.                                                    *)
LEMMA LiveRefsByDriver ==
  ASSUME TypeInv, NEW b,
         UNCHANGED <<rx_event_queue, pc, rx_event, buf>>
  PROVE  LiveRefs(b)' = LiveRefs(b) + DriverRefs(b)' - DriverRefs(b)
<1> DEFINE q == Refs(rx_event_queue, b)
<1>1. q \in Int
  BY QueueRefsType
<1>2. ThreadRefs(b)' = ThreadRefs(b)
  BY DEF ThreadRefs, InHand
<1>3. /\ LiveRefs(b) = q + DriverRefs(b) + ThreadRefs(b)
      /\ LiveRefs(b)' = q + DriverRefs(b)' + ThreadRefs(b)'
      /\ DriverRefs(b) \in Int /\ DriverRefs(b)' \in Int /\ ThreadRefs(b) \in Int
  BY <1>1, LiveRefsParts, LiveRefsPartsNext
<1> HIDE DEF q
<1>4. QED BY <1>1, <1>2, <1>3

(* Allocating a block: its counter goes from zero to the one reference     *)
(* that its new owner holds.                                               *)
LEMMA AllocOwn ==
  ASSUME TypeInv, OwnInv, NEW b \in slab_free, Alloc(b),
         UNCHANGED <<rx_event, leaked>>,
         pc' = "free" <=> pc = "free",
         \A x \in Blocks : LiveRefs(x)' = LiveRefs(x) + Bit(x = b)
  PROVE  RefCountAccounted' /\ SlabFree'
<1> USE DEF TypeInv, TypeOK, PoolTypeOK
<1>1. b \in Blocks /\ LiveRefs(b) = 0 /\ b \notin leaked
  BY FreeUnreferenced
<1>2. ASSUME NEW x \in Blocks
      PROVE  ref_counter'[x] = LiveRefs(x)' + Bit(x \in leaked)'
  <2>1. ref_counter[x] = LiveRefs(x) + Bit(x \in leaked)
    BY DEF OwnInv, RefCountAccounted
  <2>2. Bit(x \in leaked)' = Bit(x \in leaked)
    OBVIOUS
  <2>3. ref_counter'[x] = IF x = b THEN 1 ELSE ref_counter[x]
    BY DEF Alloc
  <2>4. Bit(b \in leaked) = 0
    BY <1>1 DEF Bit
  <2>5. CASE x = b
    BY <1>1, <2>2, <2>3, <2>4, <2>5 DEF Bit
  <2>6. CASE x # b
    <3>1. LiveRefs(x)' = LiveRefs(x)
      BY <2>6, LiveRefsType DEF Bit
    <3>2. QED BY <2>1, <2>2, <2>3, <2>6, <3>1
  <2>7. QED BY <2>5, <2>6
<1>3. RefCountAccounted'
  BY <1>2 DEF RefCountAccounted
<1>4. SlabFree'
  BY <1>1 DEF OwnInv, SlabFree, Alloc
<1>5. QED BY <1>3, <1>4

(* UART_RX_BUF_REQUEST allocates the block it hands to the driver.         *)
LEMMA RxBufRequestOwn ==
  ASSUME TypeInv, OwnInv, [Next]_vars, RxBufRequest
  PROVE  OwnInv'
<1> USE ConstantsAssumption DEF TypeInv, TypeOK, PoolTypeOK
<1>1. RecoveryInv'
  BY RecoveryStep DEF OwnInv
<1>2. /\ ~ req' /\ nxt = NULL
      /\ UNCHANGED <<cur, rx_event_queue, pc, rx_event, buf, leaked>>
  <2>1. req /\ ~ req'
    BY Zenon DEF RxBufRequest
  <2>2. UNCHANGED <<cur, rx_event_queue, pc, rx_event, buf, leaked>>
    BY DEF RxBufRequest, thread
  <2>3. QED BY <2>1, <2>2, Zenon DEF OwnInv, OwnLocal
<1>3. CASE UNCHANGED <<nxt, slab_free, ref_counter>>
  BY <1>2, <1>3, NoReferenceMoved
<1>4. ASSUME NEW b \in slab_free, Alloc(b), nxt' = b
      PROVE  OwnInv'
  <2>1. b \in Blocks /\ LiveRefs(b) = 0 /\ b \notin leaked /\ b # NULL
    BY FreeUnreferenced
  <2>2. OwnLocal'
    BY <1>2, <1>4, FreeUnreferenced DEF OwnInv, OwnLocal, Alloc, ThreadLocal, Event
  <2>3. ASSUME NEW x \in Blocks
        PROVE  LiveRefs(x)' = LiveRefs(x) + Bit(x = b)
    <3>1. /\ DriverRefs(x) \in Int
          /\ DriverRefs(x)' = DriverRefs(x) + Bit(x = b)
      BY <1>2, <1>4 DEF DriverRefs, Bit
    <3>2. Bit(x = b) \in Int
      BY DEF Bit
    <3>3. QED BY <1>2, <3>1, <3>2, LiveRefsByDriver, LiveRefsType, SMTT(20)
  <2>4. RefCountAccounted' /\ SlabFree'
    BY <1>2, <1>4, <2>3, AllocOwn
  <2>5. QED BY <1>1, <2>2, <2>4 DEF OwnInv
<1>5. QED BY <1>3, <1>4 DEF RxBufRequest

(* Giving a block back from the interrupt, whichever of the driver's two.  *)
LEMMA UnrefOwn ==
  ASSUME TypeInv, OwnInv, [Next]_vars, NEW c \in Blocks, Unref(c),
         UNCHANGED <<rx_event_queue, pc, rx_event, buf, leaked>>,
         req' => nxt' = NULL,
         cur = c \/ nxt = c,
         \A b \in Blocks : DriverRefs(b)' = DriverRefs(b) - Bit(c = b)
  PROVE  OwnInv'
<1> USE DEF TypeInv, TypeOK, PoolTypeOK
<1>1. RecoveryInv'
  BY RecoveryStep DEF OwnInv
<1>2. ref_counter[c] > 0
  BY HeldPositive DEF OwnInv
<1>3. OwnLocal'
  BY <1>2 DEF OwnInv, OwnLocal, Unref, ThreadLocal, Event
<1>4. SlabFree'
  BY <1>2 DEF OwnInv, OwnLocal, SlabFree, Unref
<1>5. ASSUME NEW b \in Blocks
      PROVE  LiveRefs(b)' = LiveRefs(b) - Bit(c = b)
  <2>1. DriverRefs(b) \in Int /\ Bit(c = b) \in Int
    BY DEF DriverRefs, Bit
  <2>2. QED BY <2>1, LiveRefsByDriver, LiveRefsType
<1>6. RefCountAccounted'
  BY <1>5, LiveRefsType DEF OwnInv, RefCountAccounted, Unref, Bit
<1>7. QED BY <1>1, <1>3, <1>4, <1>6 DEF OwnInv

(* The driver goes on with its next block.                                 *)
LEMMA RxBlockEndOwn ==
  ASSUME TypeInv, OwnInv, [Next]_vars, RxBlockEnd
  PROVE  OwnInv'
<1>1. cur \in Blocks /\ Unref(cur) /\ cur' = nxt /\ nxt' = NULL
  BY DEF RxBlockEnd, TypeInv, DriverLocal
<1>2. UNCHANGED <<rx_event_queue, pc, rx_event, buf, leaked>>
  BY DEF RxBlockEnd, thread
<1>3. \A b \in Blocks : DriverRefs(b)' = DriverRefs(b) - Bit(cur = b)
  BY <1>1, ConstantsAssumption DEF DriverRefs, Bit
<1>4. QED BY <1>1, <1>2, <1>3, UnrefOwn

(* UART_RX_BUF_RELEASED gives up the reference of the driver.              *)
LEMMA RxReleasedOwn ==
  ASSUME TypeInv, OwnInv, [Next]_vars, RxReleased
  PROVE  OwnInv'
<1>1. UNCHANGED <<req, rx_event_queue, pc, rx_event, buf, leaked>>
  BY Zenon DEF RxReleased, thread
<1>2. CASE cur # NULL /\ Unref(cur) /\ cur' = NULL /\ nxt' = nxt
  <2>1. cur \in Blocks
    BY <1>2 DEF TypeInv, TypeOK, DriverTypeOK
  <2>2. \A b \in Blocks : DriverRefs(b)' = DriverRefs(b) - Bit(cur = b)
    BY <1>2, ConstantsAssumption DEF DriverRefs, Bit
  <2>3. req' => nxt' = NULL
    BY <1>1, <1>2, Zenon DEF OwnInv, OwnLocal
  <2>4. QED BY <1>1, <1>2, <2>1, <2>2, <2>3, UnrefOwn
<1>3. CASE cur = NULL /\ nxt # NULL /\ Unref(nxt) /\ nxt' = NULL /\ cur' = cur
  <2>1. nxt \in Blocks
    BY <1>3 DEF TypeInv, TypeOK, DriverTypeOK
  <2>2. \A b \in Blocks : DriverRefs(b)' = DriverRefs(b) - Bit(nxt = b)
    BY <1>3, ConstantsAssumption DEF DriverRefs, Bit
  <2>3. QED BY <1>1, <1>3, <2>1, <2>2, UnrefOwn
<1>4. QED BY <1>2, <1>3, Zenon DEF RxReleased

(* The work item takes over the reference of the event it gets.            *)
LEMMA GetEventOwn ==
  ASSUME TypeInv, OwnInv, [Next]_vars, GetEvent
  PROVE  OwnInv'
<1>1. RecoveryInv'
  BY RecoveryStep DEF OwnInv
<1>2. /\ pc = "get"
      /\ UNCHANGED <<cur, nxt, req, slab_free, ref_counter, buf, leaked>>
  BY DEF GetEvent, driver, pool
<1>3. CASE pc' = "recovery" /\ UNCHANGED <<rx_event, rx_event_queue>>
  BY <1>2, <1>3, NoReferenceMoved
<1>4. CASE /\ rx_event_queue # <<>> /\ rx_event' = Head(rx_event_queue)
           /\ rx_event_queue' = Tail(rx_event_queue) /\ pc' = "handle"
  <2>1. OwnLocal' /\ SlabFree'
    BY <1>2, <1>4 DEF OwnInv, OwnLocal, SlabFree
  <2>2. ASSUME NEW b \in Blocks
        PROVE  LiveRefs(b)' = LiveRefs(b)
    <3> DEFINE hd == Bit(Head(rx_event_queue).buf = b)
               q == Refs(rx_event_queue, b)
               q2 == Refs(rx_event_queue', b)
    <3>1. rx_event_queue \in Seq(Event)
      BY DEF TypeInv, TypeOK, QueueTypeOK
    <3>2. q = hd + q2
      BY <1>4, <3>1, RefsTail
    <3>3. ThreadRefs(b) = 0 /\ ThreadRefs(b)' = hd
      BY <1>2, <1>4 DEF ThreadRefs, InHand, Bit
    <3>4. DriverRefs(b)' = DriverRefs(b)
      BY <1>2 DEF DriverRefs
    <3>5. hd \in Int /\ q \in Int /\ q2 \in Int
      <4>1. rx_event_queue' \in Seq(Event)
        BY <1>4, <3>1, HeadTailProperties
      <4>2. Refs(rx_event_queue', b) \in Nat
        BY ONLY <4>1, RefsType
      <4>3. q \in Nat
        BY QueueRefsType
      <4>4. QED BY <4>2, <4>3 DEF Bit
    <3>6. /\ LiveRefs(b) = q + DriverRefs(b) + ThreadRefs(b)
          /\ LiveRefs(b)' = q2 + DriverRefs(b)' + ThreadRefs(b)'
          /\ DriverRefs(b) \in Int
      BY <3>5, LiveRefsParts, LiveRefsPartsNext
    <3> HIDE DEF hd, q, q2
    <3>7. QED BY <3>2, <3>3, <3>4, <3>5, <3>6
  <2>3. RefCountAccounted'
    BY <1>2, <2>2 DEF OwnInv, RefCountAccounted
  <2>4. QED BY <1>1, <2>1, <2>3 DEF OwnInv
<1>5. QED BY <1>3, <1>4 DEF GetEvent

(* It gives that reference up.                                             *)
LEMMA UnrefEventOwn ==
  ASSUME TypeInv, OwnInv, [Next]_vars, UnrefEvent
  PROVE  OwnInv'
<1> DEFINE c == rx_event.buf
<1>1. RecoveryInv'
  BY RecoveryStep DEF OwnInv
<1>2. /\ pc = "unref" /\ c \in Blocks
      /\ ref_counter' = [ref_counter EXCEPT ![c] = @ - 1]
      /\ pc' = IF ref_counter[c] = 1 THEN "free" ELSE "get"
      /\ UNCHANGED <<cur, nxt, req, slab_free, rx_event_queue, rx_event, buf,
                     leaked>>
  BY DEF UnrefEvent, driver, TypeInv, ThreadLocal, Event
<1>3. ref_counter[c] > 0 /\ ref_counter \in [Blocks -> Int]
  BY <1>2, HeldPositive DEF OwnInv, InHand, TypeInv, TypeOK, PoolTypeOK
<1>4. OwnLocal'
  BY <1>2, <1>3 DEF OwnInv, OwnLocal
<1>5. SlabFree'
  BY <1>2, <1>3 DEF OwnInv, SlabFree
<1>6. ASSUME NEW b \in Blocks
      PROVE  LiveRefs(b)' = LiveRefs(b) - Bit(c = b)
  <2>1. /\ ThreadRefs(b) = Bit(c = b) /\ ThreadRefs(b)' = 0
        /\ Bit(c = b) \in Int
    BY <1>2 DEF ThreadRefs, InHand, Bit
  <2>2. DriverRefs(b)' = DriverRefs(b)
    BY <1>2 DEF DriverRefs
  <2>3. Refs(rx_event_queue, b) \in Int
    BY QueueRefsType
  <2>4. /\ LiveRefs(b) = Refs(rx_event_queue, b) + DriverRefs(b) + ThreadRefs(b)
        /\ LiveRefs(b)' = Refs(rx_event_queue, b) + DriverRefs(b)'
                            + ThreadRefs(b)'
        /\ DriverRefs(b) \in Int
    BY <1>2, <2>3, LiveRefsParts, LiveRefsPartsNext
  <2> HIDE DEF c
  <2>5. QED BY <2>1, <2>2, <2>3, <2>4
<1>7. RefCountAccounted'
  BY <1>2, <1>3, <1>6, LiveRefsType DEF OwnInv, RefCountAccounted, Bit
<1>8. QED BY <1>1, <1>4, <1>5, <1>7 DEF OwnInv

(* The last reference gives the block back to the slab.                    *)
LEMMA FreeBlockOwn ==
  ASSUME TypeInv, OwnInv, [Next]_vars, FreeBlock
  PROVE  OwnInv'
<1>1. RecoveryInv'
  BY RecoveryStep DEF OwnInv
<1>2. /\ pc = "free" /\ pc' = "get" /\ slab_free' = slab_free \cup {rx_event.buf}
      /\ UNCHANGED <<cur, nxt, req, ref_counter, rx_event_queue, rx_event, buf,
                     leaked>>
  BY DEF FreeBlock, driver
<1>3. OwnLocal' /\ SlabFree'
  BY <1>2 DEF OwnInv, OwnLocal, SlabFree
<1>4. \A b \in Blocks : LiveRefs(b)' = LiveRefs(b)
  BY <1>2 DEF LiveRefs, InHand
<1>5. RefCountAccounted'
  BY <1>2, <1>4 DEF OwnInv, RefCountAccounted
<1>6. QED BY <1>1, <1>3, <1>5 DEF OwnInv

(* rx_enable allocates the first block.                                    *)
LEMMA EnableAllocOwn ==
  ASSUME TypeInv, OwnInv, [Next]_vars, EnableAlloc
  PROVE  OwnInv'
<1>1. RecoveryInv'
  BY RecoveryStep DEF OwnInv
<1>2. /\ pc = "alloc"
      /\ UNCHANGED <<cur, nxt, req, rx_event_queue, rx_event, leaked>>
  BY DEF EnableAlloc, driver
<1>3. CASE pc' = "idle" /\ UNCHANGED <<slab_free, ref_counter, buf>>
  BY <1>2, <1>3, NoReferenceMoved
<1>4. ASSUME NEW b \in slab_free, Alloc(b), buf' = b, pc' = "enable"
      PROVE  OwnInv'
  <2>1. OwnLocal'
    BY <1>2, <1>4, FreeUnreferenced DEF OwnInv, OwnLocal
  <2>2. ASSUME NEW x \in Blocks
        PROVE  LiveRefs(x)' = LiveRefs(x) + Bit(x = b)
    <3> DEFINE q == Refs(rx_event_queue, x)
    <3>1. q \in Int
      BY QueueRefsType
    <3>2. /\ ThreadRefs(x) = 0 /\ ThreadRefs(x)' = Bit(x = b)
          /\ Bit(x = b) \in Int
      BY <1>2, <1>4 DEF ThreadRefs, InHand, Bit
    <3>3. DriverRefs(x)' = DriverRefs(x)
      BY <1>2 DEF DriverRefs
    <3>4. /\ LiveRefs(x) = q + DriverRefs(x) + ThreadRefs(x)
          /\ LiveRefs(x)' = q + DriverRefs(x)' + ThreadRefs(x)'
          /\ DriverRefs(x) \in Int
      BY <1>2, <3>1, LiveRefsParts, LiveRefsPartsNext
    <3> HIDE DEF q
    <3>5. QED BY <3>1, <3>2, <3>3, <3>4
  <2>3. RefCountAccounted' /\ SlabFree'
    BY <1>2, <1>4, <2>2, AllocOwn
  <2>4. QED BY <1>1, <2>1, <2>3 DEF OwnInv
<1>5. QED BY <1>3, <1>4 DEF EnableAlloc

(* uart_rx_enable: the block goes to the driver, which held none, or is    *)
(* forgotten.                                                              *)
LEMMA EnableOwn ==
  ASSUME TypeInv, OwnInv, [Next]_vars, Enable
  PROVE  OwnInv'
<1>1. RecoveryInv'
  BY RecoveryStep DEF OwnInv
<1>2. /\ pc = "enable" /\ buf \in Blocks /\ buf' = NULL /\ pc' \in {"cas", "idle"}
      /\ UNCHANGED <<rx_event_queue, rx_event, slab_free, ref_counter>>
  BY DEF Enable, TypeInv, ThreadLocal, pool
<1>3. cur = NULL /\ nxt = NULL
  BY <1>2 DEF OwnInv, RecoveryInv
<1>4. SlabFree'
  BY <1>2 DEF OwnInv, SlabFree
<1>5. ASSUME NEW x \in Blocks
      PROVE  /\ LiveRefs(x)' = LiveRefs(x) - Bit(buf = x) + DriverRefs(x)'
             /\ DriverRefs(x)' \in Int /\ Bit(buf = x) \in Int
  <2> DEFINE q == Refs(rx_event_queue, x)
  <2>1. q \in Int
    BY QueueRefsType
  <2>2. /\ ThreadRefs(x) = Bit(buf = x) /\ ThreadRefs(x)' = 0
        /\ Bit(buf = x) \in Int
    BY <1>2 DEF ThreadRefs, InHand, Bit
  <2>3. DriverRefs(x) = 0
    BY <1>3, ConstantsAssumption DEF DriverRefs, Bit
  <2>4. /\ LiveRefs(x) = q + DriverRefs(x) + ThreadRefs(x)
        /\ LiveRefs(x)' = q + DriverRefs(x)' + ThreadRefs(x)'
        /\ DriverRefs(x)' \in Int
    BY <1>2, <2>1, LiveRefsParts, LiveRefsPartsNext
  <2> HIDE DEF q
  <2>5. QED BY <2>1, <2>2, <2>3, <2>4
<1>6. CASE cur' = buf /\ nxt' = NULL /\ UNCHANGED leaked
  <2>1. OwnLocal'
    BY <1>2, <1>6 DEF OwnLocal
  <2>2. ASSUME NEW x \in Blocks
        PROVE  LiveRefs(x)' = LiveRefs(x)
    <3>1. DriverRefs(x)' = Bit(buf = x)
      BY <1>6, ConstantsAssumption DEF DriverRefs, Bit
    <3>2. QED BY <1>5, <3>1, LiveRefsType
  <2>3. RefCountAccounted'
    BY <1>2, <1>6, <2>2 DEF OwnInv, RefCountAccounted
  <2>4. QED BY <1>1, <1>4, <2>1, <2>3 DEF OwnInv
<1>7. CASE leaked' = leaked \cup {buf} /\ UNCHANGED <<cur, nxt, req>>
  <2>1. OwnLocal'
    BY <1>2, <1>3, <1>7 DEF OwnLocal
  <2>2. buf \notin leaked
    BY <1>2 DEF OwnInv, OwnLocal
  <2>3. ASSUME NEW x \in Blocks
        PROVE  LiveRefs(x)' + Bit(x \in leaked)' = LiveRefs(x) + Bit(x \in leaked)
    <3>1. DriverRefs(x)' = 0
      BY <1>3, <1>7, ConstantsAssumption DEF DriverRefs, Bit
    <3>2. Bit(x \in leaked)' = Bit(x \in leaked) + Bit(buf = x)
      BY <1>7, <2>2 DEF Bit
    <3>3. Bit(x \in leaked) \in Int
      BY DEF Bit
    <3>4. QED BY <1>5, <3>1, <3>2, <3>3, LiveRefsType
  <2>4. RefCountAccounted'
    BY <1>2, <2>3 DEF OwnInv, RefCountAccounted
  <2>5. QED BY <1>1, <1>4, <2>1, <2>4 DEF OwnInv
<1>8. QED BY <1>6, <1>7, Zenon DEF Enable

(* Every step keeps the blocks accounted for ...                           *)
LEMMA NextOwnInv == TypeInv /\ OwnInv /\ [Next]_vars => OwnInv'
  BY QuietStep, RxRdyOwn, RxBufRequestOwn, RxBlockEndOwn, RxReleasedOwn,
     GetEventOwn, UnrefEventOwn, FreeBlockOwn, EnableAllocOwn, EnableOwn
  DEF Next, Callback, Thread

(* ... as they are before the UART is enabled, ...                         *)
LEMMA InitOwnInv == Init => OwnInv
<1> SUFFICES ASSUME Init PROVE OwnInv
  OBVIOUS
<1>1. RecoveryInv /\ OwnLocal
  BY ConstantsAssumption DEF Init, RecoveryInv, OwnLocal
<1>2. SlabFree
  BY DEF Init, SlabFree
<1>3. ASSUME NEW b \in Blocks
      PROVE  ref_counter[b] = LiveRefs(b) + Bit(b \in leaked)
  <2>1. Refs(rx_event_queue, b) = 0
    <3>1. {i \in 1 .. Len(<<>>) : (<<>>)[i].buf = b} = {}
      BY EmptySeq
    <3>2. rx_event_queue = <<>>
      BY DEF Init
    <3>3. QED BY <3>1, <3>2, FS_EmptySet DEF Refs
  <2>2. DriverRefs(b) = ref_counter[b]
    BY ConstantsAssumption DEF Init, DriverRefs, Bit
  <2>3. ThreadRefs(b) = 0 /\ Bit(b \in leaked) = 0
    BY DEF Init, ThreadRefs, InHand, Bit
  <2>4. LiveRefs(b) = 0 + DriverRefs(b) + ThreadRefs(b) /\ DriverRefs(b) \in Int
    BY <2>1, LiveRefsParts
  <2>5. QED BY <2>2, <2>3, <2>4
<1>4. RefCountAccounted
  BY <1>3 DEF RefCountAccounted
<1>5. QED BY <1>1, <1>2, <1>4 DEF OwnInv

(* ... so they always are.                                                 *)
LEMMA OwnSafe == Spec => [](TypeInv /\ OwnInv)
  BY InitTypeInv, InitOwnInv, NextTypeInv, NextOwnInv, PTL DEF Spec

(* Every reference counter counts the references there are to its block,   *)
(* the forgotten ones included, in every interleaving of rx_buf_ref and    *)
(* rx_buf_unref in the callback with rx_process.                           *)
THEOREM RefCountsAccounted == Spec => []RefCountAccounted
<1>1. OwnInv => RefCountAccounted
  BY DEF OwnInv
<1>2. QED BY <1>1, OwnSafe, PTL

(* A block is in the slab exactly when nobody refers to it: none is lost,  *)
(* and none is handed out while it is in use.                              *)
THEOREM SlabIsAccounted == Spec => []SlabAccounted
<1>1. TypeInv /\ OwnInv => SlabAccounted
  <2> SUFFICES ASSUME TypeInv, OwnInv, NEW b \in Blocks
               PROVE  ref_counter[b] = 0 <=> LiveRefs(b) = 0 /\ b \notin leaked
    BY DEF OwnInv, SlabFree, SlabAccounted
  <2>1. ref_counter[b] = LiveRefs(b) + Bit(b \in leaked)
    BY DEF OwnInv, RefCountAccounted
  <2>2. QED BY <2>1, LiveRefsType DEF Bit
<1>2. QED BY <1>1, OwnSafe, PTL
=============================================================================
