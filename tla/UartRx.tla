------------------------------- MODULE UartRx -------------------------------
(***************************************************************************)
(* The UART receive path of src/uart_handler.c: a slab of reference        *)
(* counted blocks, the asynchronous UART driver that fills them by DMA,    *)
(* the interrupt callback that queues what was received, and the work item *)
(* rx_process that consumes the queue on the system work queue and brings  *)
(* reception back after the driver has disabled it.                        *)
(*                                                                         *)
(* An interrupt is one step (a thread cannot preempt it); the thread runs  *)
(* rx_process one atomic kernel call at a time, so that an interrupt can   *)
(* fall between any two of them.  The bytes on the line are numbered       *)
(* 1, 2, 3, ... and a block holds BufSize of them.                         *)
(***************************************************************************)
EXTENDS Integers, Sequences, FiniteSets

CONSTANTS
  Blocks,          \* the blocks of rx_slab (UART_SLAB_BLOCK_COUNT of them)
  NULL,            \* the null pointer
  BufSize,         \* bytes a block holds (512 in the code)
  QueueLen,        \* messages rx_event_queue holds (8 in the code)
  MaxBytes,        \* bound: bytes the peer sends
  MaxLineErrors,   \* bound: line errors that make the driver stop
  MaxEnableErrors  \* bound: calls of uart_rx_enable that fail

ASSUME ConstantsAssumption ==
  /\ NULL \notin Blocks
  /\ Blocks # {}
  /\ BufSize \in Nat \ {0}
  /\ QueueLen \in Nat \ {0}
  /\ MaxBytes \in Nat
  /\ MaxLineErrors \in Nat
  /\ MaxEnableErrors \in Nat

VARIABLES
  rx,              \* driver: receiving ("on"), giving buffers back, "off"
  cur,             \* driver: the block DMA writes to
  nxt,             \* driver: the block it goes on with (uart_rx_buf_rsp)
  fill,            \* driver: bytes DMA has written to cur
  told,            \* driver: bytes of cur announced with UART_RX_RDY
  req,             \* driver: a UART_RX_BUF_REQUEST is due
  line,            \* number of the last byte taken from the line
  lineErrors,      \* line errors so far
  mem,             \* contents of the blocks
  slab_free,       \* free list of rx_slab
  ref_counter,     \* rx_buf_t.ref_counter of every block
  rx_event_queue,  \* queued rx_event_t
  recovery_state,  \* RECOVERY_IDLE or RECOVERY_ONGOING
  submitted,       \* rx_process_work is in the system work queue
  scheduled,       \* its 20 ms delay is running
  pc,              \* where rx_process is
  rx_event,        \* local variable of rx_process
  buf,             \* local variable of rx_enable
  enableErrors,    \* failed calls of uart_rx_enable so far
  leaked,          \* history: blocks whose only reference was forgotten
  seen             \* history: number of the last byte rx_process consumed

driver == <<rx, cur, nxt, fill, told, req, line, lineErrors>>
pool   == <<mem, slab_free, ref_counter>>
wakeup == <<recovery_state, submitted, scheduled>>
thread == <<pc, rx_event, buf, enableErrors, leaked, seen>>
vars   == <<driver, pool, rx_event_queue, wakeup, thread>>

Event == {e \in [buf : Blocks, off : 0 .. BufSize, len : 1 .. BufSize] :
            e.off + e.len <= BufSize}

NoEvent == [buf |-> NULL, off |-> 0, len |-> 0]

-----------------------------------------------------------------------------
(* rx_buf_ref.                                                             *)
NoRef(b) == UNCHANGED ref_counter  \* mutant: no reference for the event

Ref(b) == ref_counter' = [ref_counter EXCEPT ![b] = @ + 1]

\* Mutant: atomic_dec taken to return the new value.
UnrefLate(b) ==
  /\ ref_counter' = [ref_counter EXCEPT ![b] = @ - 1]
  /\ slab_free' = IF ref_counter[b] = 0 THEN slab_free \cup {b} ELSE slab_free

(* rx_buf_unref, called from the interrupt: the last reference gives the   *)
(* block back to the slab in the same step.                                *)
Unref(b) ==
  /\ ref_counter' = [ref_counter EXCEPT ![b] = @ - 1]
  /\ slab_free' = IF ref_counter[b] = 1 THEN slab_free \cup {b} ELSE slab_free

\* Mutant: the counter is left as it is.
AllocUncounted(b) ==
  b \in slab_free /\ slab_free' = slab_free \ {b} /\ UNCHANGED ref_counter

(* rx_buf_alloc: the block comes with one reference.                       *)
Alloc(b) ==
  /\ b \in slab_free
  /\ slab_free' = slab_free \ {b}
  /\ ref_counter' = [ref_counter EXCEPT ![b] = 1]

(* k_work_submit: the item waits until the work queue takes it, also when  *)
(* it is submitted while it runs.                                          *)
SubmitIdle == submitted' = (submitted \/ pc = "idle")  \* mutant: not while it runs

Submit == submitted' = TRUE

(* k_work_schedule in rx_recovery: a no-op when the item is already due.   *)
NoReschedule == UNCHANGED scheduled  \* mutant: no second attempt

Reschedule == scheduled' = (scheduled \/ ~submitted)

(* uart_handler_init has run: one block went to uart_rx_enable, and the    *)
(* driver asks for the second.                                             *)
Init ==
  /\ rx = "on"
  /\ cur \in Blocks
  /\ nxt = NULL
  /\ fill = 0 /\ told = 0 /\ req = TRUE
  /\ line = 0 /\ lineErrors = 0
  /\ mem = [b \in Blocks |-> [i \in 1 .. BufSize |-> 0]]
  /\ slab_free = Blocks \ {cur}
  /\ ref_counter = [b \in Blocks |-> IF b = cur THEN 1 ELSE 0]
  /\ rx_event_queue = <<>>
  /\ recovery_state = "RECOVERY_IDLE"
  /\ submitted = FALSE /\ scheduled = FALSE
  /\ pc = "idle" /\ rx_event = NoEvent /\ buf = NULL
  /\ enableErrors = 0 /\ leaked = {} /\ seen = 0

-----------------------------------------------------------------------------
(* The driver and the interrupt callback.                                  *)

(* DMA stores one byte of the line; hardware flow control holds the peer   *)
(* back while reception is off or the block is full.                       *)
Receive ==
  /\ rx = "on" /\ fill < BufSize /\ line < MaxBytes
  /\ line' = line + 1
  /\ fill' = fill + 1
  /\ mem' = [mem EXCEPT ![cur][fill + 1] = line + 1]
  /\ UNCHANGED <<rx, cur, nxt, told, req, lineErrors, slab_free, ref_counter,
                 rx_event_queue, wakeup, thread>>

(* The part of the current block that has not been announced.              *)
RxEventFromStart ==  \* mutant: the length of all that is in the block
  [buf |-> cur, off |-> told, len |-> fill]

RxEvent == [buf |-> cur, off |-> told, len |-> fill - told]

(* UART_RX_RDY (time-out, block full or reception stopping): a reference   *)
(* is taken for the event; a full queue drops it together with its data.   *)
RxRdy ==
  /\ rx \in {"on", "stopping"} /\ cur # NULL /\ told < fill
  /\ told' = fill
  /\ \/ /\ Len(rx_event_queue) < QueueLen
        /\ Ref(cur)
        /\ rx_event_queue' = Append(rx_event_queue, RxEvent)
        /\ Submit
     \/ /\ Len(rx_event_queue) = QueueLen
        /\ UNCHANGED <<ref_counter, rx_event_queue, submitted>>
  /\ UNCHANGED <<rx, cur, nxt, fill, req, line, lineErrors, mem, slab_free,
                 recovery_state, scheduled, thread>>

(* UART_RX_BUF_REQUEST: a block is answered with uart_rx_buf_rsp, which    *)
(* may refuse it; without a block reception ends when cur is full.         *)
RxBufRequest ==
  /\ rx = "on" /\ req
  /\ req' = FALSE
  /\ \/ \E b \in slab_free : Alloc(b) /\ nxt' = b
     \/ /\ slab_free # {}  \* uart_rx_buf_rsp fails: rx_buf_unref undoes it
        /\ UNCHANGED <<nxt, slab_free, ref_counter>>
     \/ slab_free = {} /\ UNCHANGED <<nxt, slab_free, ref_counter>>
  /\ UNCHANGED <<rx, cur, fill, told, line, lineErrors, mem, rx_event_queue,
                 wakeup, thread>>

(* The block is full and announced: UART_RX_BUF_RELEASED, then the driver  *)
(* goes on with the next block or, without one, stops.                     *)
RxBlockEnd ==
  /\ rx = "on" /\ fill = BufSize /\ told = fill /\ ~req
  /\ Unref(cur)
  /\ cur' = nxt /\ nxt' = NULL /\ fill' = 0 /\ told' = 0
  /\ req' = (nxt # NULL)
  /\ rx' = IF nxt # NULL THEN "on" ELSE "stopping"
  /\ UNCHANGED <<line, lineErrors, mem, rx_event_queue, wakeup, thread>>

(* A framing or break error: UART_RX_STOPPED (ignored by the callback),    *)
(* and the driver disables reception.                                      *)
RxLineError ==
  /\ rx = "on" /\ lineErrors < MaxLineErrors
  /\ lineErrors' = lineErrors + 1
  /\ rx' = "stopping" /\ req' = FALSE
  /\ UNCHANGED <<cur, nxt, fill, told, line, pool, rx_event_queue, wakeup,
                 thread>>

(* UART_RX_BUF_RELEASED while reception stops: first the current block,    *)
(* once its data has been announced, then the next one.                    *)
RxReleased ==
  /\ rx = "stopping"
  /\ \/ /\ cur # NULL /\ told = fill
        /\ Unref(cur)
        /\ cur' = NULL /\ fill' = 0 /\ told' = 0
        /\ UNCHANGED nxt
     \/ /\ cur = NULL /\ nxt # NULL
        /\ Unref(nxt)
        /\ nxt' = NULL
        /\ UNCHANGED <<cur, fill, told>>
  /\ UNCHANGED <<rx, req, line, lineErrors, mem, rx_event_queue, wakeup,
                 thread>>

(* UART_RX_DISABLED: start the recovery unless one is going on.            *)
RxDisabled ==
  /\ rx = "stopping" /\ cur = NULL /\ nxt = NULL
  /\ rx' = "off"
  /\ \/ /\ recovery_state = "RECOVERY_IDLE"
        /\ recovery_state' = "RECOVERY_ONGOING"
        /\ Submit
     \/ /\ recovery_state # "RECOVERY_IDLE"
        /\ UNCHANGED <<recovery_state, submitted>>
  /\ UNCHANGED <<cur, nxt, fill, told, req, line, lineErrors, pool,
                 rx_event_queue, scheduled, thread>>

-----------------------------------------------------------------------------
(* The work item rx_process on the system work queue.                      *)

(* The work queue takes the item; it may be submitted again while it runs. *)
WorkStart ==
  /\ pc = "idle" /\ submitted
  /\ submitted' = FALSE
  /\ pc' = "get"
  /\ UNCHANGED <<driver, pool, rx_event_queue, recovery_state, scheduled,
                 rx_event, buf, enableErrors, leaked, seen>>

(* The delay set by k_work_schedule is over.                               *)
WorkTimeout ==
  /\ scheduled
  /\ scheduled' = FALSE /\ Submit
  /\ UNCHANGED <<driver, pool, rx_event_queue, recovery_state, thread>>

(* k_msgq_get; an empty queue ends the loop.                               *)
GetEvent ==
  /\ pc = "get"
  /\ \/ /\ rx_event_queue # <<>>
        /\ rx_event' = Head(rx_event_queue)
        /\ rx_event_queue' = Tail(rx_event_queue)
        /\ pc' = "handle"
     \/ /\ rx_event_queue = <<>>
        /\ pc' = "recovery"
        /\ UNCHANGED <<rx_event, rx_event_queue>>
  /\ UNCHANGED <<driver, pool, wakeup, buf, enableErrors, leaked, seen>>

(* The bytes of the event are saved or decoded, in place in the block.     *)
HandleEvent ==
  /\ pc = "handle"
  /\ seen' = mem[rx_event.buf][rx_event.off + rx_event.len]
  /\ pc' = "unref"
  /\ UNCHANGED <<driver, pool, rx_event_queue, wakeup, rx_event, buf,
                 enableErrors, leaked>>

(* rx_buf_unref in the thread: atomic_dec, and k_mem_slab_free after it.   *)
UnrefEvent ==
  /\ pc = "unref"
  /\ ref_counter' = [ref_counter EXCEPT ![rx_event.buf] = @ - 1]
  /\ pc' = IF ref_counter[rx_event.buf] = 1 THEN "free" ELSE "get"
  /\ UNCHANGED <<driver, mem, slab_free, rx_event_queue, wakeup, rx_event,
                 buf, enableErrors, leaked, seen>>

FreeBlock ==
  /\ pc = "free"
  /\ slab_free' = slab_free \cup {rx_event.buf}
  /\ pc' = "get"
  /\ UNCHANGED <<driver, mem, ref_counter, rx_event_queue, wakeup, rx_event,
                 buf, enableErrors, leaked, seen>>

RecoveryAlways ==  \* mutant: without looking at recovery_state
  /\ pc = "recovery"
  /\ pc' = "alloc"
  /\ UNCHANGED <<driver, pool, rx_event_queue, wakeup, rx_event, buf,
                 enableErrors, leaked, seen>>

(* rx_recovery: nothing to do unless a recovery is going on.               *)
Recovery ==
  /\ pc = "recovery"
  /\ pc' = IF recovery_state = "RECOVERY_ONGOING" THEN "alloc" ELSE "idle"
  /\ UNCHANGED <<driver, pool, rx_event_queue, wakeup, rx_event, buf,
                 enableErrors, leaked, seen>>

(* rx_enable: allocate a block, or try again in 20 ms.                     *)
EnableAlloc ==
  /\ pc = "alloc"
  /\ \/ /\ \E b \in slab_free : Alloc(b) /\ buf' = b
        /\ pc' = "enable"
        /\ UNCHANGED scheduled
     \/ /\ slab_free = {}
        /\ Reschedule
        /\ pc' = "idle"
        /\ UNCHANGED <<slab_free, ref_counter, buf>>
  /\ UNCHANGED <<driver, mem, rx_event_queue, recovery_state, submitted,
                 rx_event, enableErrors, leaked, seen>>

(* rx_enable: uart_rx_enable takes the block.  When it fails rx_enable     *)
(* returns with the block still allocated, and nothing refers to it.       *)
Enable ==
  /\ pc = "enable"
  /\ \/ /\ rx' = "on" /\ cur' = buf /\ nxt' = NULL
        /\ fill' = 0 /\ told' = 0 /\ req' = TRUE
        /\ pc' = "cas"
        /\ UNCHANGED <<scheduled, enableErrors, leaked>>
     \/ /\ enableErrors < MaxEnableErrors
        /\ enableErrors' = enableErrors + 1
        /\ leaked' = leaked \cup {buf}
        /\ Reschedule
        /\ pc' = "idle"
        /\ UNCHANGED <<rx, cur, nxt, fill, told, req>>
  /\ buf' = NULL
  /\ UNCHANGED <<line, lineErrors, pool, rx_event_queue, recovery_state,
                 submitted, rx_event, seen>>

(* rx_recovery: atomic_cas from RECOVERY_ONGOING to RECOVERY_IDLE.         *)
RecoveryDone ==
  /\ pc = "cas"
  /\ recovery_state' = "RECOVERY_IDLE"
  /\ pc' = "idle"
  /\ UNCHANGED <<driver, pool, rx_event_queue, submitted, scheduled,
                 rx_event, buf, enableErrors, leaked, seen>>

-----------------------------------------------------------------------------
Callback == RxRdy \/ RxBufRequest \/ RxBlockEnd \/ RxReleased \/ RxDisabled

Thread ==
  \/ WorkStart \/ GetEvent \/ HandleEvent \/ UnrefEvent \/ FreeBlock
  \/ Recovery \/ EnableAlloc \/ Enable \/ RecoveryDone

Next == Receive \/ RxLineError \/ Callback \/ WorkTimeout \/ Thread

Spec == Init /\ [][Next]_vars

(* The driver delivers its interrupts, the delay ends, the work queue      *)
(* thread runs; nothing is assumed of the peer or of the line.             *)
FairSpec ==
  /\ Spec
  /\ WF_vars(Callback)
  /\ WF_vars(WorkTimeout)
  /\ WF_vars(Thread)

-----------------------------------------------------------------------------
DriverTypeOK ==
  /\ rx \in {"on", "stopping", "off"}
  /\ cur \in Blocks \cup {NULL} /\ nxt \in Blocks \cup {NULL}
  /\ fill \in 0 .. BufSize /\ told \in 0 .. BufSize
  /\ req \in BOOLEAN
  /\ line \in Nat /\ lineErrors \in Nat

PoolTypeOK ==
  /\ mem \in [Blocks -> [1 .. BufSize -> Nat]]
  /\ slab_free \in SUBSET Blocks
  /\ ref_counter \in [Blocks -> Int]

QueueTypeOK == rx_event_queue \in Seq(Event) /\ Len(rx_event_queue) <= QueueLen

WakeupTypeOK ==
  /\ recovery_state \in {"RECOVERY_IDLE", "RECOVERY_ONGOING"}
  /\ submitted \in BOOLEAN /\ scheduled \in BOOLEAN

ThreadTypeOK ==
  /\ pc \in {"idle", "get", "handle", "unref", "free", "recovery", "alloc",
             "enable", "cas"}
  /\ rx_event \in Event \cup {NoEvent}
  /\ buf \in Blocks \cup {NULL}
  /\ enableErrors \in Nat
  /\ leaked \in SUBSET Blocks
  /\ seen \in Nat

TypeOK ==
  DriverTypeOK /\ PoolTypeOK /\ QueueTypeOK /\ WakeupTypeOK /\ ThreadTypeOK

(* How many references to block b exist: the driver's two, one per queued  *)
(* event, the event in hand, the block on its way to uart_rx_enable, and   *)
(* the one that was forgotten.                                             *)
Bit(c) == IF c THEN 1 ELSE 0

Refs(q, b) == Cardinality({i \in 1 .. Len(q) : q[i].buf = b})

InHand(b) == pc \in {"handle", "unref"} /\ rx_event.buf = b

LiveRefs(b) ==
  Refs(rx_event_queue, b) + Bit(cur = b) + Bit(nxt = b)
    + Bit(InHand(b)) + Bit(pc = "enable" /\ buf = b)

(* The reference counter of a block counts the references to it, those     *)
(* that a failed uart_rx_enable lost included: no interleaving of the      *)
(* interrupt's increments with the thread's decrements loses or invents    *)
(* one (rx_buf_ref and rx_buf_unref).                                      *)
RefCountAccounted ==
  \A b \in Blocks : ref_counter[b] = LiveRefs(b) + Bit(b \in leaked)

(* A block is on the free list of the slab exactly when nobody refers to   *)
(* it: none is handed out while the driver, an event or the thread uses    *)
(* it, and none disappears (rx_buf_alloc, rx_buf_unref), the moment        *)
(* between atomic_dec and k_mem_slab_free excepted.                        *)
SlabAccounted ==
  \A b \in Blocks :
    b \in slab_free <=> /\ LiveRefs(b) = 0
                       /\ b \notin leaked
                       /\ ~ (pc = "free" /\ rx_event.buf = b)

(* Events still to be consumed, oldest first.                              *)
Unread ==
  IF pc = "handle" THEN <<rx_event>> \o rx_event_queue ELSE rx_event_queue

FirstByte(e) == mem[e.buf][e.off + 1]
LastByte(e)  == mem[e.buf][e.off + e.len]

(* What the interrupt announced is still in the block, in order and        *)
(* complete, when rx_process gets to it: DMA never writes over bytes that  *)
(* were announced and not yet consumed.                                    *)
UnreadIntact ==
  \A i \in 1 .. Len(Unread) :
    LET e == Unread[i] IN
    /\ \A k \in e.off + 1 .. e.off + e.len : mem[e.buf][k] = FirstByte(e) + (k - e.off - 1)
    /\ FirstByte(e) > IF i = 1 THEN seen ELSE LastByte(Unread[i - 1])

(* The receive path implements Reception, through line errors, recoveries  *)
(* and the reuse of blocks: whatever rx_process consumes is, read in the   *)
(* block at that time, the next segment that was announced.  A segment is  *)
(* lost only to a full rx_event_queue, and none is left waiting.           *)
Segments == INSTANCE Reception WITH
  received  <- line,
  announced <- line - (fill - told),
  pending   <- [i \in 1 .. Len(Unread) |->
                  <<FirstByte(Unread[i]), LastByte(Unread[i])>>],
  consumed  <- seen
ImplementsReception == Segments!Spec

(* A queued event never waits for an interrupt that may not come: whoever  *)
(* queued it left the work item submitted, or rx_process has not yet       *)
(* looked at the queue for the last time (k_work_submit in the callback    *)
(* against the end of the loop in rx_process).                             *)
NoStrandedEvent ==
  rx_event_queue # <<>> =>
    submitted \/ pc \in {"get", "handle", "unref", "free"}

(* A recovery that has begun is never abandoned: the work item is running, *)
(* submitted or delayed until the state is idle again (rx_recovery and its *)
(* k_work_schedule on every error path).                                   *)
RecoveryArmed ==
  recovery_state = "RECOVERY_ONGOING" =>
    submitted \/ scheduled \/ pc # "idle"

(* uart_rx_enable is only ever called while the driver is off, whatever    *)
(* interrupts arrive during rx_recovery: it can never be called twice.     *)
EnableOnlyWhenOff ==
  pc \in {"alloc", "enable"} => rx = "off" /\ cur = NULL /\ nxt = NULL

(* A recovery that has begun ends (rx_recovery), as long as fewer calls of *)
(* uart_rx_enable fail than the slab has blocks.                           *)
RecoveryCompletes ==
  recovery_state = "RECOVERY_ONGOING" ~> recovery_state = "RECOVERY_IDLE"

(* README.md: once the log says "UART init!" an upgrade over the UART can  *)
(* be started, so reception that went off comes back.                      *)
RxComesBack == rx = "off" ~> rx = "on"
=============================================================================
