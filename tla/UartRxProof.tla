---------------------------- MODULE UartRxProof ----------------------------
(***************************************************************************)
(* Theorems about UartRx, for every number of blocks, every size of block  *)
(* and of queue, and however many bytes and errors there are.              *)
(***************************************************************************)
EXTENDS UartRx, FiniteSetTheorems, SequenceTheorems, TLAPS

-----------------------------------------------------------------------------
(* Types, with what the driver's and the thread's local state must satisfy *)
(* for the next step to keep them: a block to write to while reception is  *)
(* on, an event in hand while rx_process works on one.                     *)
DriverLocal ==
  /\ told <= fill
  /\ rx = "on" => cur \in Blocks

ThreadLocal ==
  /\ pc \in {"handle", "unref", "free"} => rx_event \in Event
  /\ pc = "enable" => buf \in Blocks

TypeInv == TypeOK /\ DriverLocal /\ ThreadLocal

(* Types, at the start ...                                                 *)
LEMMA InitTypeInv == Init => TypeInv
<1> SUFFICES ASSUME Init PROVE TypeInv
  OBVIOUS
<1> USE ConstantsAssumption DEF Init
<1>1. DriverTypeOK /\ DriverLocal
  <2>1. req \in BOOLEAN
    BY Zenon
  <2>2. fill \in 0 .. BufSize /\ told \in 0 .. BufSize /\ told <= fill
    OBVIOUS
  <2>3. /\ cur \in Blocks /\ nxt = NULL /\ rx = "on"
        /\ line \in Nat /\ lineErrors \in Nat
    OBVIOUS
  <2>4. QED BY <2>1, <2>2, <2>3, Zenon DEF DriverTypeOK, DriverLocal
<1>2. PoolTypeOK
  BY DEF PoolTypeOK
<1>3. QueueTypeOK /\ WakeupTypeOK
  <2>1. rx_event_queue \in Seq(Event) /\ Len(rx_event_queue) = 0
    BY EmptySeq
  <2>2. QueueTypeOK
    BY <2>1 DEF QueueTypeOK
  <2>3. WakeupTypeOK
    BY Zenon DEF WakeupTypeOK
  <2>4. QED BY <2>2, <2>3
<1>4. ThreadTypeOK /\ ThreadLocal
  BY DEF ThreadTypeOK, ThreadLocal
<1>5. QED
  BY <1>1, <1>2, <1>3, <1>4 DEF TypeInv, TypeOK

(* The driver's state changes in its own steps and in uart_rx_enable.      *)
LEMMA DriverTypeStep ==
  ASSUME TypeInv, [Next]_vars
  PROVE  DriverTypeOK' /\ DriverLocal'
<1> USE ConstantsAssumption DEF TypeInv, TypeOK, DriverTypeOK, DriverLocal
<1>1. CASE Receive
  BY <1>1 DEF Receive
<1>2. CASE RxRdy
  BY <1>2 DEF RxRdy
<1>3. CASE RxBufRequest
  BY <1>3 DEF RxBufRequest, Alloc, PoolTypeOK
<1>4. CASE RxBlockEnd
  BY <1>4 DEF RxBlockEnd
<1>5. CASE RxLineError
  <2>1. req' \in BOOLEAN
    BY <1>5, Zenon DEF RxLineError
  <2>2. rx' = "stopping" /\ lineErrors' \in Nat
    BY <1>5 DEF RxLineError
  <2>3. UNCHANGED <<cur, nxt, fill, told, line>>
    BY <1>5 DEF RxLineError
  <2>4. QED BY <2>1, <2>2, <2>3
<1>6. CASE RxReleased
  BY <1>6 DEF RxReleased
<1>7. CASE RxDisabled
  BY <1>7 DEF RxDisabled
<1>8. CASE Enable
  <2>1. CASE UNCHANGED <<rx, cur, nxt, fill, told, req>>
    BY <1>8, <2>1 DEF Enable
  <2>2. CASE /\ rx' = "on" /\ cur' = buf /\ nxt' = NULL
             /\ fill' = 0 /\ told' = 0 /\ req' = TRUE
    <3>1. req' \in BOOLEAN
      BY <2>2, Zenon
    <3>2. buf \in Blocks /\ UNCHANGED <<line, lineErrors>>
      BY <1>8 DEF Enable, ThreadLocal
    <3>3. QED BY <2>2, <3>1, <3>2
  <2>3. QED BY <1>8, <2>1, <2>2, Zenon DEF Enable
<1>9. CASE UNCHANGED driver
  BY <1>9 DEF driver
<1>10. QED
  BY <1>1, <1>2, <1>3, <1>4, <1>5, <1>6, <1>7, <1>8, <1>9
  DEF Next, Callback, Thread, WorkTimeout, WorkStart, GetEvent, HandleEvent,
      UnrefEvent, FreeBlock, Recovery, EnableAlloc, RecoveryDone, vars

(* The blocks change as bytes are stored, references taken and given back. *)
LEMMA PoolTypeStep ==
  ASSUME TypeInv, [Next]_vars
  PROVE  PoolTypeOK'
<1> USE ConstantsAssumption DEF TypeInv, TypeOK, PoolTypeOK, pool
<1>1. CASE Receive
  <2>1. /\ cur \in Blocks /\ fill + 1 \in 1 .. BufSize /\ line + 1 \in Nat
    BY <1>1 DEF Receive, DriverLocal, DriverTypeOK
  <2>2. mem' = [mem EXCEPT ![cur] = [mem[cur] EXCEPT ![fill + 1] = line + 1]]
    BY <1>1 DEF Receive
  <2>3. [mem[cur] EXCEPT ![fill + 1] = line + 1] \in [1 .. BufSize -> Nat]
    BY <2>1
  <2>4. mem' \in [Blocks -> [1 .. BufSize -> Nat]]
    BY <2>1, <2>2, <2>3
  <2>5. QED BY <1>1, <2>4 DEF Receive
<1>2. CASE RxRdy
  BY <1>2 DEF RxRdy, Ref
<1>3. CASE RxBufRequest \/ EnableAlloc
  BY <1>3 DEF RxBufRequest, EnableAlloc, Alloc
<1>4. CASE RxBlockEnd \/ RxReleased
  BY <1>4, SMTT(20) DEF RxBlockEnd, RxReleased, Unref, DriverLocal, DriverTypeOK
<1>5. CASE UnrefEvent
  <2>1. /\ ref_counter' = [ref_counter EXCEPT ![rx_event.buf] = @ - 1]
        /\ UNCHANGED <<mem, slab_free>>
    BY <1>5 DEF UnrefEvent
  <2>2. rx_event.buf \in Blocks
    BY <1>5 DEF UnrefEvent, ThreadLocal, Event
  <2>3. QED BY <2>1, <2>2
<1>6. CASE FreeBlock
  BY <1>6 DEF FreeBlock, ThreadLocal, Event
<1>7. CASE UNCHANGED pool
  BY <1>7
<1>8. QED
  BY <1>1, <1>2, <1>3, <1>4, <1>5, <1>6, <1>7
  DEF Next, Callback, Thread, RxLineError, RxDisabled, WorkTimeout, WorkStart,
      GetEvent, HandleEvent, Recovery, Enable, RecoveryDone, vars

(* The queue grows by what the interrupt announces, and only with room.    *)
LEMMA QueueTypeStep ==
  ASSUME TypeInv, [Next]_vars
  PROVE  QueueTypeOK'
<1> USE ConstantsAssumption DEF TypeInv, TypeOK, QueueTypeOK
<1>1. CASE RxRdy
  <2>1. CASE Len(rx_event_queue) = QueueLen /\ UNCHANGED rx_event_queue
    BY <2>1
  <2> DEFINE e == RxEvent
  <2>2. CASE Len(rx_event_queue) < QueueLen /\ rx_event_queue' = Append(rx_event_queue, e)
    <3>1. e \in Event
      BY <1>1 DEF RxRdy, RxEvent, Event, DriverTypeOK
    <3> HIDE DEF e
    <3>2. rx_event_queue' \in Seq(Event) /\ Len(rx_event_queue') = Len(rx_event_queue) + 1
      BY <2>2, <3>1, AppendProperties
    <3>3. QED BY <2>2, <3>2, LenProperties
  <2>3. QED BY <1>1, <2>1, <2>2 DEF RxRdy
<1>2. CASE GetEvent
  <2>1. CASE rx_event_queue # <<>> /\ rx_event_queue' = Tail(rx_event_queue)
    BY <2>1, HeadTailProperties, LenProperties
  <2>2. QED BY <1>2, <2>1 DEF GetEvent
<1>3. CASE UNCHANGED rx_event_queue
  BY <1>3
<1>4. QED
  BY <1>1, <1>2, <1>3
  DEF Next, Callback, Thread, Receive, RxBufRequest, RxBlockEnd, RxLineError,
      RxReleased, RxDisabled, WorkTimeout, WorkStart, HandleEvent, UnrefEvent,
      FreeBlock, Recovery, EnableAlloc, Enable, RecoveryDone, vars

(* ... of the work item after a step ...                                   *)
LEMMA WakeupTypeStep ==
  ASSUME TypeInv, [Next]_vars
  PROVE  WakeupTypeOK'
<1> USE DEF TypeInv, TypeOK, WakeupTypeOK, wakeup, Reschedule
<1>1. CASE RxRdy \/ RxDisabled \/ WorkStart \/ WorkTimeout
  BY <1>1 DEF RxRdy, RxDisabled, WorkStart, WorkTimeout, Submit
<1>2. CASE EnableAlloc
  BY <1>2 DEF EnableAlloc
<1>3. CASE Enable
  BY <1>3 DEF Enable
<1>4. CASE RecoveryDone
  BY <1>4 DEF RecoveryDone
<1>5. CASE UNCHANGED wakeup
  BY <1>5
<1>6. QED
  BY <1>1, <1>2, <1>3, <1>4, <1>5
  DEF Next, Callback, Thread, Receive, RxBufRequest, RxBlockEnd, RxLineError,
      RxReleased, GetEvent, HandleEvent, UnrefEvent, FreeBlock, Recovery, vars

(* The interrupt never touches the thread's state.                         *)
LEMMA ThreadTypeStep ==
  ASSUME TypeInv, [Next]_vars
  PROVE  ThreadTypeOK' /\ ThreadLocal'
<1> USE ConstantsAssumption DEF TypeInv, TypeOK, ThreadTypeOK, ThreadLocal, thread
<1>1. CASE WorkStart \/ FreeBlock \/ Recovery \/ RecoveryDone
  BY <1>1 DEF WorkStart, FreeBlock, Recovery, RecoveryDone
<1>2. CASE GetEvent
  <2>1. rx_event_queue # <<>> => Head(rx_event_queue) \in Event
    BY HeadTailProperties DEF QueueTypeOK
  <2>2. QED BY <1>2, <2>1 DEF GetEvent
<1>3. CASE HandleEvent
  <2>1. rx_event.buf \in Blocks /\ rx_event.off + rx_event.len \in 1 .. BufSize
    BY <1>3 DEF HandleEvent, Event
  <2>2. mem[rx_event.buf][rx_event.off + rx_event.len] \in Nat
    BY <2>1 DEF PoolTypeOK
  <2>3. QED BY <1>3, <2>2 DEF HandleEvent
<1>4. CASE UnrefEvent
  BY <1>4 DEF UnrefEvent
<1>5. CASE EnableAlloc
  BY <1>5 DEF EnableAlloc, Alloc, PoolTypeOK
<1>6. CASE Enable
  BY <1>6 DEF Enable
<1>7. CASE UNCHANGED thread
  BY <1>7
<1>8. QED
  BY <1>1, <1>2, <1>3, <1>4, <1>5, <1>6, <1>7
  DEF Next, Callback, Thread, Receive, RxRdy, RxBufRequest, RxBlockEnd,
      RxLineError, RxReleased, RxDisabled, WorkTimeout, vars

(* ... and of everything.                                                  *)
LEMMA NextTypeInv == TypeInv /\ [Next]_vars => TypeInv'
  BY DriverTypeStep, PoolTypeStep, QueueTypeStep, WakeupTypeStep, ThreadTypeStep
  DEF TypeInv, TypeOK

(* The type invariant of the receive path: every variable keeps its type,  *)
(* and the queue never grows over its length.                              *)
THEOREM TypeCorrect == Spec => []TypeOK
<1>1. Spec => []TypeInv
  BY InitTypeInv, NextTypeInv, PTL DEF Spec
<1>2. TypeInv => TypeOK
  BY DEF TypeInv
<1>3. QED BY <1>1, <1>2, PTL

-----------------------------------------------------------------------------
(* The wakeup of the work queue: each of the two invariants is inductive   *)
(* once the types are known.                                               *)

(* Reschedule leaves the item submitted or delayed.                        *)
LEMMA RescheduleArms ==
  ASSUME WakeupTypeOK, Reschedule, submitted' = submitted
  PROVE  submitted' \/ scheduled'
  BY Zenon DEF WakeupTypeOK, Reschedule

(* A recovery stays armed.                                                 *)
LEMMA RecoveryArmedStep ==
  ASSUME TypeInv, RecoveryArmed, [Next]_vars
  PROVE  RecoveryArmed'
<1> USE DEF RecoveryArmed
<1>1. CASE RxDisabled \/ WorkTimeout
  BY <1>1, Zenon DEF RxDisabled, WorkTimeout, Submit, thread
<1>2. CASE RxRdy
  <2>1. UNCHANGED <<recovery_state, scheduled, pc>>
    BY <1>2 DEF RxRdy, thread
  <2>2. submitted' \/ submitted' = submitted
    BY <1>2, Zenon DEF RxRdy, Submit
  <2>3. QED BY <2>1, <2>2, Zenon
<1>3. CASE WorkStart
  BY <1>3 DEF WorkStart
<1>4. CASE Receive \/ RxBufRequest \/ RxBlockEnd \/ RxLineError \/ RxReleased
  BY <1>4, Zenon DEF Receive, RxBufRequest, RxBlockEnd, RxLineError, RxReleased,
                     wakeup, thread
<1>5. CASE GetEvent \/ HandleEvent \/ UnrefEvent \/ FreeBlock
  <2>1. pc' # "idle"
    BY <1>5 DEF GetEvent, HandleEvent, UnrefEvent, FreeBlock
  <2>2. QED BY <2>1
<1>6. CASE Recovery
  <2>1. recovery_state' = recovery_state
    BY <1>6 DEF Recovery, wakeup
  <2>2. recovery_state = "RECOVERY_ONGOING" => pc' = "alloc"
    BY <1>6 DEF Recovery
  <2>3. QED BY <2>1, <2>2
<1>7. CASE EnableAlloc \/ Enable
  <2>1. pc' # "idle" \/ (Reschedule /\ submitted' = submitted)
    BY <1>7 DEF EnableAlloc, Enable
  <2>2. QED BY <2>1, RescheduleArms DEF TypeInv, TypeOK
<1>8. CASE RecoveryDone
  BY <1>8 DEF RecoveryDone
<1>9. CASE UNCHANGED vars
  BY <1>9, Zenon DEF vars, wakeup, thread
<1>10. QED
  BY <1>1, <1>2, <1>3, <1>4, <1>5, <1>6, <1>7, <1>8, <1>9 DEF Next, Callback, Thread

(* An event that is put has the work item look for it.                     *)
LEMMA NoStrandedStep ==
  ASSUME TypeInv, NoStrandedEvent, [Next]_vars
  PROVE  NoStrandedEvent'
<1> USE DEF NoStrandedEvent
<1>1. CASE RxRdy \/ WorkTimeout
  BY <1>1, Zenon DEF RxRdy, WorkTimeout, Submit, thread
<1>2. CASE WorkStart
  BY <1>2 DEF WorkStart
<1>3. CASE RxDisabled
  BY <1>3, Zenon DEF RxDisabled, Submit, thread
<1>4. CASE Receive \/ RxBufRequest \/ RxBlockEnd \/ RxLineError \/ RxReleased
  BY <1>4, Zenon DEF Receive, RxBufRequest, RxBlockEnd, RxLineError, RxReleased,
                     wakeup, thread
<1>5. CASE GetEvent
  <2>1. pc' = "handle" \/ rx_event_queue' = <<>>
    BY <1>5 DEF GetEvent
  <2>2. QED BY <2>1
<1>6. CASE HandleEvent \/ UnrefEvent \/ FreeBlock
  <2>1. pc' \in {"get", "unref", "free"}
    BY <1>6 DEF HandleEvent, UnrefEvent, FreeBlock
  <2>2. QED BY <2>1
<1>7. CASE Recovery \/ EnableAlloc \/ Enable \/ RecoveryDone
  <2>1. pc \notin {"get", "handle", "unref", "free"}
    BY <1>7 DEF Recovery, EnableAlloc, Enable, RecoveryDone
  <2>2. UNCHANGED <<rx_event_queue, submitted>>
    BY <1>7, Zenon DEF Recovery, EnableAlloc, Enable, RecoveryDone, wakeup
  <2>3. QED BY <2>1, <2>2
<1>8. CASE UNCHANGED vars
  BY <1>8, Zenon DEF vars, wakeup, thread
<1>9. QED
  BY <1>1, <1>2, <1>3, <1>4, <1>5, <1>6, <1>7, <1>8 DEF Next, Callback, Thread

(* A recovery that has begun is never abandoned: rx_process runs, or is    *)
(* submitted or delayed, until the state is idle again.                    *)
THEOREM RecoveryNeverAbandoned == Spec => []RecoveryArmed
<1>1. Init => RecoveryArmed
  BY DEF Init, RecoveryArmed
<1>2. TypeInv /\ RecoveryArmed /\ [Next]_vars => RecoveryArmed'
  BY RecoveryArmedStep
<1>3. QED BY <1>1, <1>2, InitTypeInv, NextTypeInv, PTL DEF Spec

(* No queued event waits for another interrupt to be looked at.            *)
THEOREM NoEventStranded == Spec => []NoStrandedEvent
<1>1. Init => NoStrandedEvent
  BY DEF Init, NoStrandedEvent
<1>2. TypeInv /\ NoStrandedEvent /\ [Next]_vars => NoStrandedEvent'
  BY NoStrandedStep
<1>3. QED BY <1>1, <1>2, InitTypeInv, NextTypeInv, PTL DEF Spec

-----------------------------------------------------------------------------
(* The recovery: it goes on only while reception is off, except between    *)
(* uart_rx_enable and the atomic_cas that ends it.                         *)
RecoveryInv ==
  /\ recovery_state = "RECOVERY_ONGOING" /\ pc # "cas" => rx = "off"
  /\ pc \in {"alloc", "enable", "cas"} => recovery_state = "RECOVERY_ONGOING"
  /\ rx = "off" => cur = NULL /\ nxt = NULL

(* The recovery follows the driver.                                        *)
LEMMA RecoveryStep ==
  ASSUME TypeInv, RecoveryInv, [Next]_vars
  PROVE  RecoveryInv'
<1> USE DEF RecoveryInv, TypeInv, TypeOK, WakeupTypeOK
<1>1. CASE Receive \/ RxRdy \/ RxBufRequest \/ RxBlockEnd \/ RxLineError
  <2>1. rx # "off" /\ rx' # "off"
    BY <1>1 DEF Receive, RxRdy, RxBufRequest, RxBlockEnd, RxLineError
  <2>2. UNCHANGED <<recovery_state, pc>>
    BY <1>1 DEF Receive, RxRdy, RxBufRequest, RxBlockEnd, RxLineError,
                wakeup, thread
  <2>3. QED BY <2>1, <2>2
<1>2. CASE RxReleased
  <2>1. rx = "stopping" /\ UNCHANGED <<rx, recovery_state, pc>>
    BY <1>2 DEF RxReleased, wakeup, thread
  <2>2. QED BY <2>1
<1>3. CASE RxDisabled
  <2>1. /\ rx' = "off" /\ cur' = NULL /\ nxt' = NULL
        /\ recovery_state' = "RECOVERY_ONGOING" /\ pc' = pc
    BY <1>3 DEF RxDisabled, thread
  <2>2. QED BY <2>1
<1>4. CASE WorkStart \/ WorkTimeout \/ GetEvent \/ HandleEvent \/ UnrefEvent
           \/ FreeBlock
  <2>1. pc' \notin {"alloc", "enable", "cas"} \/ pc' = pc
    BY <1>4 DEF WorkStart, WorkTimeout, GetEvent, HandleEvent, UnrefEvent,
                FreeBlock, thread
  <2>2. pc # "cas" \/ pc' = pc
    BY <1>4 DEF WorkStart, WorkTimeout, GetEvent, HandleEvent, UnrefEvent,
                FreeBlock, thread
  <2>3. UNCHANGED <<rx, cur, nxt, recovery_state>>
    BY <1>4 DEF WorkStart, WorkTimeout, GetEvent, HandleEvent, UnrefEvent,
                FreeBlock, driver, wakeup
  <2>4. QED BY <2>1, <2>2, <2>3
<1>5. CASE Recovery
  BY <1>5 DEF Recovery, driver, wakeup
<1>6. CASE EnableAlloc
  BY <1>6 DEF EnableAlloc, driver
<1>7. CASE Enable
  <2>1. pc = "enable" /\ recovery_state' = recovery_state
    BY <1>7 DEF Enable
  <2>2. \/ pc' = "cas" /\ rx' = "on"
        \/ pc' = "idle" /\ UNCHANGED <<rx, cur, nxt>>
    BY <1>7 DEF Enable
  <2>3. QED BY <2>1, <2>2
<1>8. CASE RecoveryDone
  BY <1>8 DEF RecoveryDone, driver
<1>9. CASE UNCHANGED vars
  BY <1>9 DEF vars, driver, wakeup, thread
<1>10. QED
  BY <1>1, <1>2, <1>3, <1>4, <1>5, <1>6, <1>7, <1>8, <1>9
  DEF Next, Callback, Thread

(* All of this always holds.                                               *)
LEMMA RecoverySafe == Spec => [](TypeInv /\ RecoveryInv)
<1>1. Init => RecoveryInv
  BY ConstantsAssumption DEF Init, RecoveryInv
<1>2. TypeInv /\ RecoveryInv /\ [Next]_vars => RecoveryInv'
  BY RecoveryStep
<1>3. QED BY <1>1, <1>2, InitTypeInv, NextTypeInv, PTL DEF Spec

(* The driver is off, without any block, whenever the recovery is on its   *)
(* way to uart_rx_enable.                                                  *)
THEOREM EnabledOnlyWhenOff == Spec => []EnableOnlyWhenOff
<1>1. RecoveryInv => EnableOnlyWhenOff
  BY DEF RecoveryInv, EnableOnlyWhenOff
<1>2. QED BY <1>1, RecoverySafe, PTL
=============================================================================
