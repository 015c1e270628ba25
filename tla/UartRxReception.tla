-------------------------- MODULE UartRxReception --------------------------
(***************************************************************************)
(* What rx_process reads is what the interrupt announced: UartRx takes the *)
(* steps of Reception, for every number and size of blocks and every       *)
(* queue length.                                                           *)
(***************************************************************************)
EXTENDS UartRxOwnership

(* The last byte that was announced.                                       *)
Announced == line - (fill - told)

(* The block DMA writes to holds the last bytes of the line, and is not    *)
(* the one it goes on with.                                                *)
Contents ==
  /\ cur = NULL => fill = 0
  /\ cur # NULL => cur # nxt
  /\ \A k \in 1 .. fill : mem[cur][k] = line - (fill - k)

Waiting(e) == \E i \in 1 .. Len(Unread) : Unread[i] = e

(* DMA will not write over the bytes of e: its block is not one that is to *)
(* be filled, or is being filled behind them.                              *)
Untouched(e) ==
  /\ e.buf # nxt
  /\ pc = "enable" => e.buf # buf
  /\ e.buf = cur => e.off + e.len <= told

Whole(e) ==
  \A k \in e.off + 1 .. e.off + e.len : mem[e.buf][k] = FirstByte(e) + (k - e.off - 1)

Follows(i) == FirstByte(Unread[i]) > IF i = 1 THEN seen ELSE LastByte(Unread[i - 1])

ReadInv ==
  /\ Contents
  /\ seen <= Announced
  /\ \A e \in Event : Waiting(e) => Untouched(e) /\ Whole(e) /\ LastByte(e) <= Announced
  /\ \A i \in 1 .. Len(Unread) : Follows(i)

(* Numbers of bytes, counted back from the end of the line.                *)
LEMMA ByteNumbers ==
  ASSUME NEW l \in Nat, NEW f \in Nat, NEW k \in Nat
  PROVE  /\ l - (f - k) = (l + 1) - ((f + 1) - k)
         /\ l - (f - (k + 1)) = (l - (f - k)) + 1
         /\ l - (f - f) = l
OBVIOUS


-----------------------------------------------------------------------------
(* The events that wait are events, whose bytes lie in their blocks.       *)
LEMMA UnreadType ==
  ASSUME TypeInv
  PROVE  /\ Unread \in Seq(Event) /\ Len(Unread) \in Nat
         /\ \A i \in 1 .. Len(Unread) : Unread[i] \in Event /\ Waiting(Unread[i])
<1>1. rx_event_queue \in Seq(Event)
  BY DEF TypeInv, TypeOK, QueueTypeOK
<1>2. CASE pc = "handle"
  <2>1. rx_event \in Event
    BY <1>2 DEF TypeInv, ThreadLocal
  <2>2. <<rx_event>> \in Seq(Event)
    BY <2>1
  <2>3. <<rx_event>> \o rx_event_queue \in Seq(Event)
    BY <1>1, <2>2, ConcatProperties
  <2>4. Unread \in Seq(Event)
    BY <1>2, <2>3 DEF Unread
  <2>5. QED BY <2>4, LenProperties, ElementOfSeq DEF Waiting
<1>3. CASE pc # "handle"
  <2>1. Unread \in Seq(Event)
    BY <1>1, <1>3 DEF Unread
  <2>2. QED BY <2>1, LenProperties, ElementOfSeq DEF Waiting
<1>4. QED BY <1>2, <1>3

(* The bytes an event announces lie in its block.                          *)
LEMMA EventBytes ==
  ASSUME TypeInv, NEW e \in Event
  PROVE  /\ e.buf \in Blocks /\ e.off \in Nat /\ e.len \in Nat \ {0}
         /\ e.off + e.len <= BufSize
         /\ \A k \in e.off + 1 .. e.off + e.len : k \in 1 .. BufSize /\ mem[e.buf][k] \in Nat
         /\ e.off + 1 \in e.off + 1 .. e.off + e.len
         /\ e.off + e.len \in e.off + 1 .. e.off + e.len
         /\ FirstByte(e) \in Nat /\ LastByte(e) \in Nat
<1>1. /\ e.buf \in Blocks /\ e.off \in Nat /\ e.len \in Nat \ {0}
      /\ e.off + e.len <= BufSize /\ BufSize \in Nat
  BY ConstantsAssumption DEF Event
<1>2. mem[e.buf] \in [1 .. BufSize -> Nat]
  BY <1>1 DEF TypeInv, TypeOK, PoolTypeOK
<1>3. \A k \in e.off + 1 .. e.off + e.len : k \in 1 .. BufSize /\ mem[e.buf][k] \in Nat
  BY <1>1, <1>2
<1>4. /\ e.off + 1 \in e.off + 1 .. e.off + e.len
      /\ e.off + e.len \in e.off + 1 .. e.off + e.len
  BY <1>1
<1>5. FirstByte(e) \in Nat /\ LastByte(e) \in Nat
  BY <1>3, <1>4 DEF FirstByte, LastByte
<1>6. QED BY <1>1, <1>3, <1>4, <1>5

(* Nobody waits to read a block of the slab.                               *)
LEMMA FreeNotWaiting ==
  ASSUME TypeInv, OwnInv, NEW b \in slab_free, NEW e, Waiting(e)
  PROVE  e.buf # b
<1> SUFFICES ASSUME e.buf = b PROVE FALSE
  OBVIOUS
<1>1. b \in Blocks /\ LiveRefs(b) = 0
  BY FreeUnreferenced
<1>2. Refs(rx_event_queue, b) = 0 /\ ~InHand(b)
  BY <1>1, QueueRefsType DEF LiveRefs, Bit
<1>3. {i \in 1 .. Len(rx_event_queue) : rx_event_queue[i].buf = b} = {}
  <2>1. rx_event_queue \in Seq(Event)
    BY DEF TypeInv, TypeOK, QueueTypeOK
  <2>2. QED BY <1>2, <2>1, RefsType, FS_EmptySet, ZenonT(40) DEF Refs
<1>4. PICK i \in 1 .. Len(Unread) : Unread[i].buf = b
  BY DEF Waiting
<1>5. CASE pc # "handle"
  BY <1>3, <1>4, <1>5 DEF Unread
<1>6. CASE pc = "handle"
  <2>1. rx_event \in Event /\ rx_event_queue \in Seq(Event)
    BY <1>6 DEF TypeInv, ThreadLocal, TypeOK, QueueTypeOK
  <2>2. <<rx_event>> \in Seq(Event) /\ Len(<<rx_event>>) = 1 /\ <<rx_event>>[1] = rx_event
    BY <2>1
  <2>3. Unread = <<rx_event>> \o rx_event_queue
    BY <1>6 DEF Unread
  <2>4. Len(rx_event_queue) \in Nat
    BY <2>1, LenProperties
  <2>5. /\ Len(Unread) = 1 + Len(rx_event_queue)
        /\ \A j \in 1 .. 1 + Len(rx_event_queue) :
             Unread[j] = IF j <= 1 THEN <<rx_event>>[j] ELSE rx_event_queue[j - 1]
    BY <2>1, <2>2, <2>3, ConcatProperties
  <2>6. i # 1
    BY <1>2, <1>4, <1>6, <2>2, <2>4, <2>5 DEF InHand
  <2>7. i - 1 \in 1 .. Len(rx_event_queue) /\ rx_event_queue[i - 1].buf = b
    BY <1>4, <2>4, <2>5, <2>6
  <2>8. QED BY <1>3, <2>7
<1>7. QED BY <1>5, <1>6

(* A step that announces nothing and consumes nothing, and writes over no  *)
(* byte that waits.                                                        *)
LEMMA ReadKept ==
  ASSUME TypeInv, TypeInv', ReadInv,
         Unread' = Unread, seen' = seen, Announced' = Announced, Contents',
         \A e \in Event : Waiting(e) =>
           /\ Untouched(e)'
           /\ \A k \in e.off + 1 .. e.off + e.len : mem'[e.buf][k] = mem[e.buf][k]
  PROVE  /\ ReadInv'
         /\ \A i \in 1 .. Len(Unread) :
              /\ mem'[Unread[i].buf][Unread[i].off + 1] = FirstByte(Unread[i])
              /\ mem'[Unread[i].buf][Unread[i].off + Unread[i].len] = LastByte(Unread[i])
<1>1. ASSUME NEW e \in Event, Waiting(e)
      PROVE  /\ mem'[e.buf][e.off + 1] = FirstByte(e)
             /\ mem'[e.buf][e.off + e.len] = LastByte(e)
  BY <1>1, EventBytes DEF FirstByte, LastByte
<1>2. ASSUME NEW e \in Event, Waiting(e)
      PROVE  Untouched(e)' /\ Whole(e)' /\ LastByte(e)' <= Announced'
  <2>1. Whole(e) /\ LastByte(e) <= Announced
    BY <1>2 DEF ReadInv
  <2>2. FirstByte(e)' = FirstByte(e) /\ LastByte(e)' = LastByte(e)
    BY <1>1, <1>2 DEF FirstByte, LastByte
  <2>3. Whole(e)'
    BY <1>2, <2>1, <2>2 DEF Whole
  <2>4. QED BY <1>2, <2>1, <2>2, <2>3
<1>3. \A e : Waiting(e)' = Waiting(e)
  BY DEF Waiting
<1>4. ASSUME NEW i \in 1 .. Len(Unread) PROVE Follows(i)'
  <2>1. Follows(i)
    BY <1>4 DEF ReadInv
  <2>2. Unread[i] \in Event /\ Waiting(Unread[i]) /\ Len(Unread) \in Nat
    BY UnreadType
  <2>3. CASE i = 1
    BY <1>1, <2>1, <2>2, <2>3 DEF Follows, FirstByte
  <2>4. CASE i # 1
    <3>1. i - 1 \in 1 .. Len(Unread)
      BY <2>2, <2>4
    <3>2. Unread[i - 1] \in Event /\ Waiting(Unread[i - 1])
      BY <3>1, UnreadType
    <3>3. QED BY <1>1, <2>1, <2>2, <2>4, <3>2 DEF Follows, FirstByte, LastByte
  <2>5. QED BY <2>3, <2>4
<1>5. seen' <= Announced'
  BY DEF ReadInv
<1>6. ReadInv'
  BY <1>2, <1>3, <1>4, <1>5 DEF ReadInv
<1>7. QED BY <1>1, <1>6, UnreadType

(* The events that wait change in RxRdy and HandleEvent only.              *)
LEMMA UnreadKept ==
  ASSUME TypeInv, [Next]_vars, ~RxRdy, ~HandleEvent
  PROVE  Unread' = Unread
<1>1. CASE GetEvent
  <2>1. pc = "get" /\ rx_event_queue \in Seq(Event)
    BY <1>1 DEF GetEvent, TypeInv, TypeOK, QueueTypeOK
  <2>2. CASE rx_event_queue = <<>> /\ pc' = "recovery" /\ UNCHANGED rx_event_queue
    BY <2>1, <2>2 DEF Unread
  <2>3. CASE /\ rx_event_queue # <<>> /\ pc' = "handle"
             /\ rx_event' = Head(rx_event_queue)
             /\ rx_event_queue' = Tail(rx_event_queue)
    <3>1. <<Head(rx_event_queue)>> \o Tail(rx_event_queue) = rx_event_queue
      BY <2>1, <2>3, HeadTailProperties
    <3>2. Unread' = rx_event_queue /\ Unread = rx_event_queue
      BY <2>1, <2>3, <3>1 DEF Unread
    <3>3. QED BY <3>2
  <2>4. QED BY <1>1, <2>2, <2>3 DEF GetEvent
<1>2. CASE UNCHANGED <<rx_event_queue, rx_event, pc>>
  BY <1>2 DEF Unread
<1>3. CASE UNCHANGED rx_event_queue /\ pc # "handle" /\ pc' # "handle"
  BY <1>3 DEF Unread
<1>4. CASE WorkStart \/ UnrefEvent \/ FreeBlock \/ Recovery \/ EnableAlloc \/ Enable \/ RecoveryDone
  BY <1>3, <1>4
     DEF WorkStart, UnrefEvent, FreeBlock, Recovery, EnableAlloc, Enable, RecoveryDone
<1>5. CASE Receive \/ RxLineError \/ RxBufRequest \/ RxBlockEnd \/ RxReleased \/ RxDisabled
           \/ WorkTimeout \/ UNCHANGED vars
  BY <1>2, <1>5
     DEF Receive, RxLineError, RxBufRequest, RxBlockEnd, RxReleased, RxDisabled,
         WorkTimeout, vars, thread
<1>6. QED
  BY <1>1, <1>4, <1>5 DEF Next, Callback, Thread

(* DMA writes behind what it has announced, into a block whose other       *)
(* events it leaves alone.                                                 *)
LEMMA ReceiveKeeps ==
  ASSUME TypeInv, ReadInv, Receive
  PROVE  /\ Contents' /\ Announced' = Announced /\ seen' = seen
         /\ \A e \in Event : Waiting(e) =>
              /\ Untouched(e)'
              /\ \A k \in e.off + 1 .. e.off + e.len : mem'[e.buf][k] = mem[e.buf][k]
<1>1. /\ rx = "on" /\ fill \in 0 .. BufSize - 1 /\ told \in 0 .. BufSize /\ told <= fill
      /\ cur \in Blocks /\ line \in Nat /\ BufSize \in Nat
      /\ mem \in [Blocks -> [1 .. BufSize -> Nat]]
  BY ConstantsAssumption, SMTT(20) DEF Receive, TypeInv, TypeOK, DriverTypeOK, PoolTypeOK, DriverLocal
<1>2. /\ line' = line + 1 /\ fill' = fill + 1
      /\ mem' = [mem EXCEPT ![cur] = [mem[cur] EXCEPT ![fill + 1] = line + 1]]
      /\ UNCHANGED <<cur, nxt, told, pc, buf, seen>>
  BY DEF Receive, thread
<1>3. /\ mem'[cur] = [mem[cur] EXCEPT ![fill + 1] = line + 1]
      /\ \A b \in Blocks : b # cur => mem'[b] = mem[b]
  BY <1>1, <1>2
<1>4. mem[cur] \in [1 .. BufSize -> Nat]
  BY <1>1
<1>5. /\ mem'[cur][fill + 1] = line + 1
      /\ \A k \in 1 .. BufSize : k # fill + 1 => mem'[cur][k] = mem[cur][k]
  BY <1>1, <1>3, <1>4
<1>6. Contents'
  <2>1. ASSUME NEW k \in 1 .. fill + 1
        PROVE  mem'[cur][k] = (line + 1) - ((fill + 1) - k)
    <3>1. CASE k = fill + 1
      BY <1>1, <1>5, <3>1
    <3>2. CASE k # fill + 1
      <4>1. k \in 1 .. fill /\ k \in 1 .. BufSize
        BY <1>1, <3>2
      <4>2. mem[cur][k] = line - (fill - k)
        BY <4>1 DEF ReadInv, Contents
      <4>3. mem'[cur][k] = mem[cur][k]
        BY <1>5, <3>2, <4>1
      <4>4. line - (fill - k) = (line + 1) - ((fill + 1) - k)
        <5>1. line \in Nat /\ fill \in Nat /\ k \in Nat
          BY <1>1, <4>1
        <5>2. QED BY <5>1, ByteNumbers
      <4>5. QED BY <4>2, <4>3, <4>4, Zenon
    <3>3. QED BY <3>1, <3>2
  <2>2. cur # NULL /\ cur # nxt
    BY <1>1, ConstantsAssumption DEF ReadInv, Contents
  <2>3. QED BY <1>2, <2>1, <2>2 DEF Contents
<1>7. Announced' = Announced
  BY <1>1, <1>2 DEF Announced
<1>8. ASSUME NEW e \in Event, Waiting(e)
      PROVE  /\ Untouched(e)'
             /\ \A k \in e.off + 1 .. e.off + e.len : mem'[e.buf][k] = mem[e.buf][k]
  <2>1. Untouched(e)
    BY <1>8 DEF ReadInv
  <2>2. Untouched(e)'
    BY <1>2, <2>1 DEF Untouched
  <2>3. ASSUME NEW k \in e.off + 1 .. e.off + e.len
        PROVE  mem'[e.buf][k] = mem[e.buf][k]
    <3>1. e.buf \in Blocks /\ k \in 1 .. BufSize
      BY EventBytes
    <3>2. CASE e.buf = cur
      <4>1. e.off + e.len <= told
        BY <2>1, <3>2 DEF Untouched
      <4>2. k # fill + 1
        BY <1>1, <4>1, EventBytes
      <4>3. QED BY <1>5, <3>1, <3>2, <4>2
    <3>3. CASE e.buf # cur
      BY <1>3, <3>1, <3>3
    <3>4. QED BY <3>2, <3>3
  <2>4. QED BY <2>2, <2>3
<1>9. QED BY <1>2, <1>6, <1>7, <1>8

(* A block is asked for, the current one is full, reception is enabled: a  *)
(* block nobody waits to read becomes the next, the next the current.      *)
LEMMA BlocksKeep ==
  ASSUME TypeInv, OwnInv, ReadInv,
         RxBufRequest \/ RxBlockEnd \/ RxReleased \/ EnableAlloc \/ Enable
  PROVE  /\ Contents' /\ Announced' = Announced /\ UNCHANGED <<seen, mem>>
         /\ \A e \in Event : Waiting(e) => Untouched(e)'
<1> USE DEF ReadInv
<1>1. /\ fill \in 0 .. BufSize /\ told \in 0 .. BufSize /\ told <= fill /\ line \in Nat
      /\ BufSize \in Nat
  BY ConstantsAssumption DEF TypeInv, TypeOK, DriverTypeOK, DriverLocal
<1>2. \A e \in Event : e.buf # NULL
  BY ConstantsAssumption DEF Event
<1>3. CASE RxBufRequest
  <2>1. /\ UNCHANGED <<cur, fill, told, line, mem, pc, buf, seen>>
        /\ nxt' = nxt \/ nxt' \in slab_free
    BY <1>3 DEF RxBufRequest, thread
  <2>2. \A e \in Event : Waiting(e) => Untouched(e) /\ e.buf # nxt'
    BY <2>1, FreeNotWaiting DEF Untouched
  <2>3. ASSUME cur # NULL PROVE cur # nxt'
    <3>1. cur \in Blocks
      BY <2>3 DEF TypeInv, TypeOK, DriverTypeOK
    <3>2. cur \notin slab_free
      <4>1. SUFFICES ASSUME cur \in slab_free PROVE FALSE
        OBVIOUS
      <4>2. LiveRefs(cur) = 0
        BY <4>1, FreeUnreferenced
      <4>3. QED BY <4>2, QueueRefsType DEF LiveRefs, Bit
    <3>3. QED BY <2>1, <2>3, <3>2 DEF Contents
  <2>4. QED BY <2>1, <2>2, <2>3 DEF Contents, Announced, Untouched
<1>4. CASE EnableAlloc
  <2>1. /\ UNCHANGED <<cur, nxt, fill, told, line, mem, seen>>
        /\ pc' = "idle" \/ buf' \in slab_free
    BY <1>4 DEF EnableAlloc, driver
  <2>2. \A e \in Event : Waiting(e) => Untouched(e) /\ (pc' = "enable" => e.buf # buf')
    BY <2>1, FreeNotWaiting
  <2>3. QED BY <2>1, <2>2 DEF Contents, Announced, Untouched
<1>5. CASE RxBlockEnd
  <2>1. /\ fill = told /\ cur' = nxt /\ nxt' = NULL /\ fill' = 0 /\ told' = 0
        /\ UNCHANGED <<line, mem, pc, buf, seen>>
    BY <1>5 DEF RxBlockEnd, thread
  <2>2. QED BY <1>1, <1>2, <2>1 DEF Contents, Announced, Untouched
<1>6. CASE RxReleased
  <2>1. UNCHANGED <<line, mem, pc, buf, seen>>
    BY <1>6 DEF RxReleased, thread
  <2>2. CASE fill = told /\ cur' = NULL /\ nxt' = nxt /\ fill' = 0 /\ told' = 0
    BY <1>1, <1>2, <2>1, <2>2 DEF Contents, Announced, Untouched
  <2>3. CASE nxt' = NULL /\ UNCHANGED <<cur, fill, told>>
    BY <1>1, <1>2, <2>1, <2>3 DEF Contents, Announced, Untouched
  <2>4. QED BY <1>6, <2>2, <2>3 DEF RxReleased
<1>7. CASE Enable
  <2>1. pc = "enable" /\ pc' # "enable" /\ UNCHANGED <<line, mem, seen>>
    BY <1>7 DEF Enable, pool
  <2>2. cur = NULL /\ fill = 0 /\ told = 0
    BY <1>1, <2>1 DEF OwnInv, RecoveryInv, EnableOnlyWhenOff, Contents
  <2>3. CASE cur' = buf /\ nxt' = NULL /\ fill' = 0 /\ told' = 0
    BY <1>1, <1>2, <2>1, <2>2, <2>3 DEF Contents, Announced, Untouched
  <2>4. CASE UNCHANGED <<cur, nxt, fill, told>>
    BY <1>1, <2>1, <2>4 DEF Contents, Announced, Untouched
  <2>5. QED BY <1>7, <2>3, <2>4 DEF Enable
<1>8. QED BY <1>3, <1>4, <1>5, <1>6, <1>7

(* Every step that is none of the three of Reception.                      *)
LEMMA OthersKeep ==
  ASSUME TypeInv, OwnInv, ReadInv, [Next]_vars, ~Receive, ~RxRdy, ~HandleEvent
  PROVE  /\ Contents' /\ Announced' = Announced /\ UNCHANGED <<seen, line>>
         /\ \A e \in Event : Waiting(e) =>
              /\ Untouched(e)'
              /\ \A k \in e.off + 1 .. e.off + e.len : mem'[e.buf][k] = mem[e.buf][k]
<1>1. CASE RxBufRequest \/ RxBlockEnd \/ RxReleased \/ EnableAlloc \/ Enable
  <2>1. UNCHANGED line
    BY <1>1 DEF RxBufRequest, RxBlockEnd, RxReleased, EnableAlloc, Enable, driver
  <2>2. QED BY <1>1, <2>1, BlocksKeep
<1>2. CASE /\ UNCHANGED <<cur, nxt, fill, told, line, mem, buf, seen>>
           /\ pc' = "enable" => pc = "enable"
  BY <1>2 DEF ReadInv, Contents, Announced, Untouched
<1>3. CASE RxLineError \/ RxDisabled \/ WorkTimeout \/ UNCHANGED vars
  BY <1>2, <1>3 DEF RxLineError, RxDisabled, WorkTimeout, vars, driver, pool, thread
<1>4. CASE WorkStart \/ GetEvent \/ UnrefEvent \/ FreeBlock \/ Recovery \/ RecoveryDone
  <2>1. UNCHANGED <<cur, nxt, fill, told, line, mem, buf, seen>>
    BY <1>4 DEF WorkStart, GetEvent, UnrefEvent, FreeBlock, Recovery, RecoveryDone,
                driver, pool
  <2>2. pc' # "enable"
    BY <1>4 DEF WorkStart, GetEvent, UnrefEvent, FreeBlock, Recovery, RecoveryDone
  <2>3. QED BY <1>2, <2>1, <2>2
<1>5. QED BY <1>1, <1>3, <1>4 DEF Next, Callback, Thread

(* What the interrupt announces waits behind all that waits already.       *)
LEMMA RxRdyRead ==
  ASSUME TypeInv, TypeInv', OwnInv, ReadInv, RxRdy
  PROVE  /\ ReadInv'
         /\ Announced < line /\ Announced' = line /\ UNCHANGED <<line, mem, seen>>
         /\ \/ /\ RxEvent \in Event /\ Unread' = Append(Unread, RxEvent)
               /\ FirstByte(RxEvent) = Announced + 1 /\ LastByte(RxEvent) = line
            \/ Unread' = Unread /\ Len(Unread) >= QueueLen
<1> USE DEF ReadInv
<1>1. /\ fill \in 1 .. BufSize /\ told \in Nat /\ told < fill /\ told' = fill
      /\ cur \in Blocks /\ cur # NULL /\ line \in Nat /\ BufSize \in Nat
      /\ UNCHANGED <<cur, nxt, fill, line, mem, seen, pc, buf, rx_event>>
  <2>1. told' = fill /\ told < fill /\ cur # NULL
    BY DEF RxRdy
  <2>2. UNCHANGED <<cur, nxt, fill, line, mem, seen, pc, buf, rx_event>>
    BY DEF RxRdy, thread
  <2>3. /\ fill \in 0 .. BufSize /\ told \in 0 .. BufSize /\ cur \in Blocks \cup {NULL}
        /\ line \in Nat /\ BufSize \in Nat
    BY ConstantsAssumption DEF TypeInv, TypeOK, DriverTypeOK
  <2>4. QED BY <2>1, <2>2, <2>3
<1>2. Announced < line /\ Announced' = line /\ Announced \in Int /\ Contents'
  BY <1>1 DEF Announced, Contents
<1>3. ASSUME NEW e \in Event, Waiting(e)
      PROVE  Untouched(e)' /\ Whole(e)' /\ LastByte(e)' <= Announced'
  <2>1. Untouched(e) /\ Whole(e) /\ LastByte(e) <= Announced
    BY <1>3
  <2>2. Whole(e)' /\ LastByte(e)' = LastByte(e)
    BY <1>1, <2>1 DEF Whole, FirstByte, LastByte
  <2>3. Untouched(e)'
    BY <1>1, <2>1, EventBytes DEF Untouched
  <2>4. LastByte(e) \in Nat
    BY EventBytes
  <2>5. QED BY <1>1, <1>2, <2>1, <2>2, <2>3, <2>4
<1>4. seen' <= Announced'
  BY <1>1, <1>2 DEF TypeInv, TypeOK, ThreadTypeOK
<1>5. Unread \in Seq(Event) /\ Len(Unread) \in Nat
  BY UnreadType
<1>6. rx_event_queue \in Seq(Event)
  BY DEF TypeInv, TypeOK, QueueTypeOK
<1>7. CASE Len(rx_event_queue) = QueueLen /\ UNCHANGED rx_event_queue
  <2>1. Unread' = Unread
    BY <1>1, <1>7 DEF Unread
  <2>2. Len(Unread) >= QueueLen
    <3>1. CASE pc = "handle"
      <4>1. rx_event \in Event
        BY <3>1 DEF TypeInv, ThreadLocal
      <4>2. <<rx_event>> \in Seq(Event) /\ Len(<<rx_event>>) = 1
        BY <4>1
      <4>3. Unread = <<rx_event>> \o rx_event_queue
        BY <3>1 DEF Unread
      <4>4. Len(Unread) = Len(<<rx_event>>) + Len(rx_event_queue)
        BY <1>6, <4>2, <4>3, ConcatProperties
      <4>5. QED BY <1>7, <4>2, <4>4, ConstantsAssumption
    <3>2. CASE pc # "handle"
      BY <1>7, <3>2, ConstantsAssumption DEF Unread
    <3>3. QED BY <3>1, <3>2
  <2>3. \A e : Waiting(e)' = Waiting(e)
    BY <2>1 DEF Waiting
  <2>4. \A i \in 1 .. Len(Unread) : Follows(i)'
    BY <1>1, <2>1 DEF Follows, FirstByte, LastByte
  <2>5. ReadInv'
    BY <1>2, <1>3, <1>4, <2>1, <2>3, <2>4
  <2>6. QED BY <1>1, <1>2, <2>1, <2>2, <2>5
<1>8. CASE rx_event_queue' = Append(rx_event_queue, RxEvent)
  <2> DEFINE n == Len(Unread)
             e == RxEvent
  <2>1. /\ e \in Event /\ e.buf = cur /\ e.off = told /\ e.len = fill - told
    BY <1>1 DEF RxEvent, Event
  <2> HIDE DEF e
  <2>2. Unread' = Append(Unread, e)
    <3>1. CASE pc = "handle"
      <4>1. rx_event \in Event
        BY <3>1 DEF TypeInv, ThreadLocal
      <4>2. <<rx_event>> \o Append(rx_event_queue, e) = Append(<<rx_event>> \o rx_event_queue, e)
        <5>1. <<rx_event>> \in Seq(Event)
          BY <4>1
        <5> DEFINE h == <<rx_event>>
        <5> HIDE DEF h
        <5>2. h \in Seq(Event) /\ <<e>> \in Seq(Event)
          BY <2>1, <5>1 DEF h
        <5>3. (h \o rx_event_queue) \o <<e>> = h \o (rx_event_queue \o <<e>>)
          BY <1>6, <5>2, ConcatAssociative
        <5>4. h \o rx_event_queue \in Seq(Event)
          BY <1>6, <5>2, ConcatProperties
        <5>5. /\ Append(rx_event_queue, e) = rx_event_queue \o <<e>>
              /\ Append(h \o rx_event_queue, e) = (h \o rx_event_queue) \o <<e>>
          BY <1>6, <2>1, <5>4, AppendIsConcat
        <5>6. QED BY <5>3, <5>5 DEF h
      <4>3. QED BY <1>1, <1>8, <3>1, <4>2 DEF Unread, e
    <3>2. CASE pc # "handle"
      BY <1>1, <1>8, <3>2 DEF Unread, e
    <3>3. QED BY <3>1, <3>2
  <2>3. /\ Unread' \in Seq(Event) /\ Len(Unread') = n + 1
        /\ \A i \in 1 .. n : Unread'[i] = Unread[i]
        /\ Unread'[n + 1] = e
    BY <1>5, <2>1, <2>2, AppendProperties
  <2>4. /\ \A k \in told + 1 .. fill : mem[cur][k] = line - (fill - k)
        /\ FirstByte(e) = Announced + 1 /\ LastByte(e) = line
    <3>1. \A k \in told + 1 .. fill : mem[cur][k] = line - (fill - k)
      BY <1>1 DEF Contents
    <3>2. told + 1 \in told + 1 .. fill /\ fill \in told + 1 .. fill
      BY <1>1
    <3>3. FirstByte(e) = mem[cur][told + 1] /\ LastByte(e) = mem[cur][fill]
      BY <1>1, <2>1 DEF FirstByte, LastByte
    <3>4. FirstByte(e) = line - (fill - (told + 1)) /\ LastByte(e) = line - (fill - fill)
      BY <3>1, <3>2, <3>3
    <3>5. /\ line - (fill - (told + 1)) = (line - (fill - told)) + 1
          /\ line - (fill - fill) = line
      <4>1. line \in Nat /\ fill \in Nat /\ told \in Nat
        BY <1>1
      <4>2. QED BY <4>1, ByteNumbers
    <3>6. QED BY <3>1, <3>4, <3>5, Zenon DEF Announced
  <2>5. ASSUME NEW x \in Event, x = e
        PROVE  Untouched(x)' /\ Whole(x)' /\ LastByte(x)' <= Announced'
    <3>1. pc # "enable"
      BY <1>1 DEF OwnInv, RecoveryInv, EnableOnlyWhenOff
    <3>2. Untouched(x)'
      BY <1>1, <2>1, <2>5, <3>1 DEF Untouched, Contents
    <3>3. FirstByte(x)' = Announced + 1 /\ LastByte(x)' = line
      BY <1>1, <2>4, <2>5 DEF FirstByte, LastByte
    <3>4. x.off + 1 = told + 1 /\ x.off + x.len = fill
      BY <1>1, <2>1, <2>5
    <3>5. \A k \in told + 1 .. fill : mem'[cur][k] = (Announced + 1) + (k - told - 1)
      BY <1>1, <2>4 DEF Announced
    <3>6. Whole(x)'
      BY <2>1, <2>5, <3>3, <3>4, <3>5 DEF Whole
    <3>7. QED BY <1>1, <1>2, <3>2, <3>3, <3>6
  <2>6. ASSUME NEW x \in Event, Waiting(x)'
        PROVE  Waiting(x) \/ x = e
    <3>1. PICK i \in 1 .. n + 1 : Unread'[i] = x
      BY <2>3, <2>6 DEF Waiting
    <3>2. CASE i = n + 1
      BY <2>3, <3>1, <3>2
    <3>3. CASE i # n + 1
      <4>1. i \in 1 .. n
        BY <1>5, <3>3
      <4>2. QED BY <2>3, <3>1, <4>1 DEF Waiting
    <3>4. QED BY <3>2, <3>3
  <2>7. ASSUME NEW i \in 1 .. n + 1 PROVE Follows(i)'
    <3>1. CASE i # n + 1
      <4>1. i \in 1 .. n /\ (i # 1 => i - 1 \in 1 .. n)
        BY <1>5, <3>1
      <4>2. Follows(i)
        BY <4>1
      <4>3. QED BY <1>1, <2>3, <4>1, <4>2 DEF Follows, FirstByte, LastByte
    <3>2. CASE i = n + 1 /\ n = 0
      <4>1. FirstByte(Unread[i])' = Announced + 1 /\ i = 1 /\ seen' = seen /\ seen <= Announced
        BY <1>1, <2>3, <2>4, <3>2 DEF FirstByte
      <4>2. seen \in Nat
        BY DEF TypeInv, TypeOK, ThreadTypeOK
      <4>3. QED BY <1>2, <4>1, <4>2 DEF Follows
    <3>3. CASE i = n + 1 /\ n # 0
      <4>1. n \in 1 .. n /\ i - 1 = n /\ i # 1
        BY <1>5, <3>3
      <4>2. Unread[n] \in Event /\ Waiting(Unread[n])
        BY <4>1, UnreadType
      <4>3. LastByte(Unread[n]) <= Announced /\ LastByte(Unread[n]) \in Nat
        BY <4>2, EventBytes
      <4>4. FirstByte(Unread[i])' = Announced + 1
        BY <1>1, <2>3, <2>4, <3>3 DEF FirstByte
      <4>5. LastByte(Unread[i - 1])' = LastByte(Unread[n])
        BY <1>1, <2>3, <4>1 DEF LastByte
      <4>6. QED BY <1>2, <4>1, <4>3, <4>4, <4>5 DEF Follows
    <3>4. QED BY <3>1, <3>2, <3>3
  <2>8. ReadInv'
    BY <1>2, <1>3, <1>4, <2>3, <2>5, <2>6, <2>7
  <2>9. QED BY <1>1, <1>2, <2>1, <2>2, <2>4, <2>8 DEF e
<1>9. QED BY <1>7, <1>8 DEF RxRdy

(* rx_process reads the event that has waited longest.                     *)
LEMMA HandleRead ==
  ASSUME TypeInv, TypeInv', ReadInv, HandleEvent
  PROVE  /\ ReadInv'
         /\ UNCHANGED <<line, mem>> /\ Announced' = Announced
         /\ Unread # <<>> /\ Unread' = Tail(Unread) /\ seen' = LastByte(Head(Unread))
<1> USE DEF ReadInv
<1>1. /\ pc = "handle" /\ pc' = "unref" /\ rx_event \in Event
      /\ seen' = LastByte(rx_event)
      /\ UNCHANGED <<cur, nxt, fill, told, line, mem, rx_event_queue, rx_event, buf>>
  BY DEF HandleEvent, driver, pool, TypeInv, ThreadLocal, LastByte
<1>2. rx_event_queue \in Seq(Event)
  BY DEF TypeInv, TypeOK, QueueTypeOK
<1>3. Unread = <<rx_event>> \o rx_event_queue /\ Unread' = rx_event_queue
  BY <1>1 DEF Unread
<1>4. Unread # <<>> /\ Head(Unread) = rx_event /\ Tail(Unread) = rx_event_queue
  <2> DEFINE h == <<rx_event>>
  <2>1. h \in Seq(Event) /\ Len(h) = 1 /\ h[1] = rx_event
    BY <1>1
  <2> HIDE DEF h
  <2>2. Len(rx_event_queue) \in Nat
    BY <1>2, LenProperties
  <2>3. /\ h \o rx_event_queue \in Seq(Event)
        /\ Len(h \o rx_event_queue) = 1 + Len(rx_event_queue)
        /\ \A i \in 1 .. 1 + Len(rx_event_queue) :
             (h \o rx_event_queue)[i] = IF i <= 1 THEN h[i] ELSE rx_event_queue[i - 1]
    BY <1>2, <2>1, ConcatProperties, SMTT(20)
  <2> DEFINE u == h \o rx_event_queue
  <2> HIDE DEF u
  <2>4. u # <<>> /\ u[1] = rx_event
    BY <2>1, <2>2, <2>3, EmptySeq DEF u
  <2>5. /\ Head(u) = rx_event /\ Tail(u) \in Seq(Event)
        /\ Len(Tail(u)) = Len(rx_event_queue)
        /\ \A i \in 1 .. Len(rx_event_queue) : Tail(u)[i] = u[i + 1]
    BY <2>2, <2>3, <2>4, HeadTailProperties DEF u
  <2>6. \A i \in 1 .. Len(rx_event_queue) : u[i + 1] = rx_event_queue[i]
    BY <2>2, <2>3 DEF u
  <2>7. Tail(u) = rx_event_queue
    BY <1>2, <2>5, <2>6, SeqEqual
  <2>8. QED BY <1>3, <2>4, <2>5, <2>7 DEF u, h
<1>5. /\ Unread \in Seq(Event) /\ Len(Unread) \in Nat \ {0} /\ Unread[1] = rx_event
      /\ Len(Unread') = Len(Unread) - 1
      /\ \A i \in 1 .. Len(Unread) - 1 : Unread'[i] = Unread[i + 1]
  BY <1>3, <1>4, UnreadType, EmptySeq, HeadTailProperties
<1>6. Contents' /\ Announced' = Announced
  BY <1>1 DEF Contents, Announced
<1>7. seen' <= Announced'
  <2>1. 1 \in 1 .. Len(Unread)
    BY <1>5
  <2>2. Waiting(rx_event)
    BY <1>5, <2>1 DEF Waiting
  <2>3. QED BY <1>1, <1>6, <2>2
<1>8. ASSUME NEW e \in Event, Waiting(e)'
      PROVE  Untouched(e)' /\ Whole(e)' /\ LastByte(e)' <= Announced'
  <2>1. Waiting(e)
    <3>1. PICK i \in 1 .. Len(Unread) - 1 : Unread[i + 1] = e
      BY <1>5, <1>8 DEF Waiting
    <3>2. i + 1 \in 1 .. Len(Unread)
      BY <1>5
    <3>3. QED BY <3>1, <3>2 DEF Waiting
  <2>2. Untouched(e) /\ Whole(e) /\ LastByte(e) <= Announced
    BY <2>1
  <2>3. QED
    BY <1>1, <1>6, <2>2 DEF Untouched, Whole, FirstByte, LastByte
<1>9. ASSUME NEW i \in 1 .. Len(Unread) - 1 PROVE Follows(i)'
  <2>1. i + 1 \in 1 .. Len(Unread) /\ i + 1 # 1 /\ (i + 1) - 1 = i
    BY <1>5
  <2>2. FirstByte(Unread[i + 1]) > LastByte(Unread[i])
    BY <2>1 DEF Follows
  <2>3. FirstByte(Unread[i])' = FirstByte(Unread[i + 1])
    BY <1>1, <1>5 DEF FirstByte
  <2>4. CASE i = 1
    BY <1>1, <1>5, <2>2, <2>3, <2>4 DEF Follows
  <2>5. CASE i # 1
    <3>1. i - 1 \in 1 .. Len(Unread) - 1 /\ (i - 1) + 1 = i
      BY <1>5, <2>5
    <3>2. LastByte(Unread[i - 1])' = LastByte(Unread[i])
      BY <1>1, <1>5, <3>1 DEF LastByte
    <3>3. QED BY <2>2, <2>3, <2>5, <3>2 DEF Follows
  <2>6. QED BY <2>4, <2>5
<1>10. ReadInv'
  BY <1>5, <1>6, <1>7, <1>8, <1>9
<1>11. QED BY <1>1, <1>3, <1>4, <1>6, <1>10

-----------------------------------------------------------------------------
(* What was announced stays unchanged until it is read ...                 *)
LEMMA NextReadInv ==
  ASSUME TypeInv, TypeInv', OwnInv, ReadInv, [Next]_vars
  PROVE  ReadInv'
<1>1. CASE RxRdy
  BY <1>1, RxRdyRead
<1>2. CASE HandleEvent
  BY <1>2, HandleRead
<1>3. CASE Receive
  <2>1. Unread' = Unread
    BY <1>3 DEF Receive, thread, Unread
  <2>2. QED BY <1>3, <2>1, ReceiveKeeps, ReadKept
<1>4. CASE ~Receive /\ ~RxRdy /\ ~HandleEvent
  BY <1>4, UnreadKept, OthersKeep, ReadKept
<1>5. QED BY <1>1, <1>2, <1>3, <1>4

(* ... and nothing was announced at the start, ...                         *)
LEMMA InitReadInv == Init => ReadInv
<1> SUFFICES ASSUME Init PROVE ReadInv
  OBVIOUS
<1>1. Len(Unread) = 0
  BY EmptySeq DEF Init, Unread
<1>2. QED
  BY <1>1, ConstantsAssumption DEF Init, ReadInv, Contents, Announced, Waiting

(* ... so it is always what is read.                                       *)
LEMMA ReadSafe == Spec => [](TypeInv /\ OwnInv /\ ReadInv)
<1>1. TypeInv /\ OwnInv /\ ReadInv /\ [Next]_vars => (TypeInv /\ OwnInv /\ ReadInv)'
  BY NextTypeInv, NextOwnInv, NextReadInv
<1>2. QED BY <1>1, InitTypeInv, InitOwnInv, InitReadInv, PTL DEF Spec

(* What was announced is still in its block, complete and in order, when   *)
(* rx_process gets to it, through any reuse of blocks, line errors and     *)
(* recoveries.                                                             *)
THEOREM ReadsWhatWasAnnounced == Spec => []UnreadIntact
<1>1. TypeInv /\ ReadInv => UnreadIntact
  <2> SUFFICES ASSUME TypeInv, ReadInv PROVE UnreadIntact
    OBVIOUS
  <2>1. ASSUME NEW i \in 1 .. Len(Unread)
        PROVE  Whole(Unread[i]) /\ Follows(i)
    BY UnreadType DEF ReadInv
  <2>2. QED
    BY <2>1 DEF UnreadIntact, Whole, Follows
<1>2. QED BY <1>1, ReadSafe, PTL

-----------------------------------------------------------------------------
(* The segments that wait, as Reception sees them.                         *)
Pending ==
  [i \in 1 .. Len(Unread) |-> <<FirstByte(Unread[i]), LastByte(Unread[i])>>]

PendingTyped ==
  /\ Pending \in Seq(Nat \X Nat) /\ Len(Pending) = Len(Unread)
  /\ \A i \in 1 .. Len(Unread) :
       Pending[i] = <<FirstByte(Unread[i]), LastByte(Unread[i])>>

(* A segment is two numbers, before a step and after it.                   *)
LEMMA PendingType ==
  ASSUME TypeInv
  PROVE  PendingTyped
<1>1. Len(Unread) \in Nat
  BY UnreadType
<1>2. \A i \in 1 .. Len(Unread) :
        <<FirstByte(Unread[i]), LastByte(Unread[i])>> \in Nat \X Nat
  BY UnreadType, EventBytes
<1>3. QED BY <1>1, <1>2, IsASeq DEF PendingTyped, Pending

(* The segments that wait have a type after a step, too.                   *)
LEMMA PendingTypeNext == TypeInv' => PendingTyped'
<1>1. TypeInv => PendingTyped
  BY PendingType
<1>2. QED BY <1>1, PTL

(* Segments that are where they were, with the bytes they had.             *)
LEMMA PendingKept ==
  ASSUME TypeInv, Unread' = Unread,
         \A i \in 1 .. Len(Unread) :
           /\ mem'[Unread[i].buf][Unread[i].off + 1] = FirstByte(Unread[i])
           /\ mem'[Unread[i].buf][Unread[i].off + Unread[i].len] = LastByte(Unread[i])
  PROVE  Pending' = Pending
BY DEF Pending, FirstByte, LastByte

ReceptionStep == Segments!Receive \/ Segments!Announce \/ Segments!Consume

(* The driver stores a byte: it is received.                               *)
LEMMA ReceiveStep ==
  ASSUME TypeInv, TypeInv', ReadInv, Receive
  PROVE  Segments!Receive
<1>1. Unread' = Unread /\ line' = line + 1
  BY DEF Receive, thread, Unread
<1>2. Announced' = Announced /\ seen' = seen /\ Pending' = Pending
  BY <1>1, ReceiveKeeps, ReadKept, PendingKept
<1>3. QED
  BY <1>1, <1>2 DEF Segments!Receive, Announced, Pending

(* UART_RX_RDY announces a segment, or its event is dropped.               *)
LEMMA AnnounceStep ==
  ASSUME TypeInv, TypeInv', OwnInv, ReadInv, RxRdy
  PROVE  Segments!Announce
<1>1. /\ Announced < line /\ Announced' = line /\ UNCHANGED <<line, mem, seen>>
      /\ \/ /\ RxEvent \in Event /\ Unread' = Append(Unread, RxEvent)
            /\ FirstByte(RxEvent) = Announced + 1 /\ LastByte(RxEvent) = line
         \/ Unread' = Unread /\ Len(Unread) >= QueueLen
  BY RxRdyRead
<1>2. /\ Pending \in Seq(Nat \X Nat) /\ Len(Pending) = Len(Unread)
      /\ \A i \in 1 .. Len(Unread) :
           Pending[i] = <<FirstByte(Unread[i]), LastByte(Unread[i])>>
  BY PendingType DEF PendingTyped
<1>3. Unread \in Seq(Event) /\ Len(Unread) \in Nat
  BY UnreadType
<1>4. CASE Unread' = Unread /\ Len(Unread) >= QueueLen
  <2>1. Pending' = Pending
    BY <1>1, <1>4 DEF Pending, FirstByte, LastByte
  <2>2. Len(Pending) >= QueueLen
    BY <1>2, <1>4
  <2>3. QED BY <1>1, <2>1, <2>2 DEF Segments!Announce, Announced, Pending
<1>5. CASE /\ RxEvent \in Event /\ Unread' = Append(Unread, RxEvent)
           /\ FirstByte(RxEvent) = Announced + 1 /\ LastByte(RxEvent) = line
  <2> DEFINE seg == <<Announced + 1, line>>
             n == Len(Unread)
             more == Append(Pending, seg)
  <2>1. /\ Unread' \in Seq(Event) /\ Len(Unread') = n + 1
        /\ \A i \in 1 .. n : Unread'[i] = Unread[i]
        /\ Unread'[n + 1] = RxEvent
    BY <1>3, <1>5, AppendProperties
  <2>2. seg \in Nat \X Nat
    BY <1>5, EventBytes
  <2>3. /\ more \in Seq(Nat \X Nat) /\ Len(more) = n + 1
        /\ \A i \in 1 .. n : more[i] = Pending[i]
        /\ more[n + 1] = seg
    <3> HIDE DEF seg
    <3>1. QED BY <1>2, <2>2, AppendProperties
  <2>4. /\ Pending' \in Seq(Nat \X Nat) /\ Len(Pending') = n + 1
        /\ \A i \in 1 .. n + 1 :
             Pending'[i] = <<FirstByte(Unread[i])', LastByte(Unread[i])'>>
    BY <2>1, PendingTypeNext DEF PendingTyped
  <2>5. ASSUME NEW i \in 1 .. n + 1 PROVE Pending'[i] = more[i]
    <3>1. CASE i = n + 1
      <4>1. FirstByte(Unread[i])' = mem[RxEvent.buf][RxEvent.off + 1]
        BY <1>1, <2>1, <3>1 DEF FirstByte
      <4>2. LastByte(Unread[i])' = mem[RxEvent.buf][RxEvent.off + RxEvent.len]
        BY <1>1, <2>1, <3>1 DEF LastByte
      <4>3. FirstByte(Unread[i])' = Announced + 1 /\ LastByte(Unread[i])' = line
        BY <1>5, <4>1, <4>2 DEF FirstByte, LastByte
      <4>4. QED BY <2>3, <2>4, <3>1, <4>3
    <3>2. CASE i # n + 1
      <4>1. i \in 1 .. n
        BY <1>3, <3>2
      <4>2. FirstByte(Unread[i])' = FirstByte(Unread[i]) /\ LastByte(Unread[i])' = LastByte(Unread[i])
        BY <1>1, <2>1, <4>1 DEF FirstByte, LastByte
      <4>3. QED BY <1>2, <2>3, <2>4, <4>1, <4>2
    <3>3. QED BY <3>1, <3>2
  <2> HIDE DEF more
  <2>6. Pending' = more
    BY <2>3, <2>4, <2>5, SeqEqual
  <2>7. QED
    BY <1>1, <2>6 DEF Segments!Announce, Announced, Pending, more
<1>6. QED BY <1>1, <1>4, <1>5

(* The work item handles an event: the oldest segment is consumed.         *)
LEMMA ConsumeStep ==
  ASSUME TypeInv, TypeInv', ReadInv, HandleEvent
  PROVE  Segments!Consume
<1>1. /\ UNCHANGED <<line, mem>> /\ Announced' = Announced
      /\ Unread # <<>> /\ Unread' = Tail(Unread) /\ seen' = LastByte(Head(Unread))
  BY HandleRead
<1>2. /\ Pending \in Seq(Nat \X Nat) /\ Len(Pending) = Len(Unread)
      /\ \A i \in 1 .. Len(Unread) :
           Pending[i] = <<FirstByte(Unread[i]), LastByte(Unread[i])>>
  BY PendingType DEF PendingTyped
<1>3. Unread \in Seq(Event) /\ Len(Unread) \in Nat \ {0} /\ Unread[1] = Head(Unread)
  BY <1>1, UnreadType, EmptySeq, HeadTailProperties
<1>4. /\ Unread' \in Seq(Event) /\ Len(Unread') = Len(Unread) - 1
      /\ \A i \in 1 .. Len(Unread) - 1 : Unread'[i] = Unread[i + 1]
  BY <1>1, <1>3, HeadTailProperties
<1>5. Pending # <<>> /\ Head(Pending) = Pending[1]
  <2>1. Pending # <<>>
    BY <1>2, <1>3, EmptySeq
  <2>2. QED BY <1>2, <2>1, HeadTailProperties
<1>6. Pending[1][2] = LastByte(Head(Unread))
  <2>1. 1 \in 1 .. Len(Unread)
    BY <1>3
  <2>2. Pending[1] = <<FirstByte(Head(Unread)), LastByte(Head(Unread))>>
    BY <1>2, <1>3, <2>1
  <2>3. QED BY <2>2
<1>7. /\ Tail(Pending) \in Seq(Nat \X Nat) /\ Len(Tail(Pending)) = Len(Unread) - 1
      /\ \A i \in 1 .. Len(Unread) - 1 : Tail(Pending)[i] = Pending[i + 1]
  BY <1>2, <1>3, <1>5, HeadTailProperties
<1>8. /\ Pending' \in Seq(Nat \X Nat) /\ Len(Pending') = Len(Unread) - 1
      /\ \A i \in 1 .. Len(Unread) - 1 :
           Pending'[i] = <<FirstByte(Unread[i])', LastByte(Unread[i])'>>
  BY <1>4, PendingTypeNext DEF PendingTyped
<1>9. ASSUME NEW i \in 1 .. Len(Unread) - 1 PROVE Pending'[i] = Tail(Pending)[i]
  <2>1. i + 1 \in 1 .. Len(Unread)
    BY <1>3
  <2>2. /\ FirstByte(Unread[i])' = FirstByte(Unread[i + 1])
        /\ LastByte(Unread[i])' = LastByte(Unread[i + 1])
    BY <1>1, <1>4 DEF FirstByte, LastByte
  <2>3. QED BY <1>2, <1>7, <1>8, <2>1, <2>2
<1>10. Pending' = Tail(Pending)
  <2> DEFINE t == Tail(Pending)
  <2>1. t \in Seq(Nat \X Nat) /\ Len(t) = Len(Unread) - 1
    BY <1>7
  <2>2. \A i \in 1 .. Len(Unread) - 1 : Pending'[i] = t[i]
    BY <1>9
  <2> HIDE DEF t
  <2>3. Pending' = t
    BY <1>8, <2>1, <2>2, SeqEqual
  <2>4. QED BY <2>3 DEF t
<1>11. QED
  BY <1>1, <1>5, <1>6, <1>10 DEF Segments!Consume, Announced, Pending

(* Every step of the receive path is a step of Reception, or none: a byte  *)
(* of the line, a segment that is announced or lost to a full queue, the   *)
(* next segment consumed.  That all are consumed is left to TLC.           *)
THEOREM ReceptionSafe == Spec => Segments!Init /\ [][ReceptionStep]_Segments!vars
<1>1. Init => Segments!Init
  <2> SUFFICES ASSUME Init PROVE Segments!Init
    OBVIOUS
  <2>1. Len(Unread) = 0
    BY EmptySeq DEF Init, Unread
  <2>2. Pending = <<>>
    BY <2>1 DEF Pending
  <2>3. line = 0 /\ fill = 0 /\ told = 0 /\ seen = 0
    BY DEF Init
  <2>4. QED BY <2>2, <2>3 DEF Segments!Init, Pending
<1>2. ASSUME TypeInv, TypeInv', OwnInv, ReadInv, [Next]_vars
      PROVE  [ReceptionStep]_Segments!vars
  <2> USE DEF ReceptionStep
  <2>1. CASE Receive
    BY <1>2, <2>1, ReceiveStep
  <2>2. CASE RxRdy
    BY <1>2, <2>2, AnnounceStep
  <2>3. CASE HandleEvent
    BY <1>2, <2>3, ConsumeStep
  <2>4. CASE ~Receive /\ ~RxRdy /\ ~HandleEvent
    <3>1. Announced' = Announced /\ UNCHANGED <<seen, line>> /\ Pending' = Pending
      BY <1>2, <2>4, UnreadKept, OthersKeep, ReadKept, PendingKept
    <3>2. UNCHANGED Segments!vars
      BY <3>1 DEF Segments!vars, Announced, Pending
    <3>3. QED BY <3>2
  <2>5. QED BY <2>1, <2>2, <2>3, <2>4
<1>3. QED BY <1>1, <1>2, ReadSafe, PTL DEF Spec
=============================================================================
