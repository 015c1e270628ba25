---------------------------- MODULE UartTxProof ----------------------------
(***************************************************************************)
(* Theorems about UartTx, for every size of the ring buffer and whatever   *)
(* the lengths and the number of the packets.                              *)
(***************************************************************************)
EXTENDS UartTx, TLAPS

-----------------------------------------------------------------------------
(* Operators the model is built from.                                      *)

(* The smaller of two numbers: what ring_buf_put and ring_buf_get_claim    *)
(* compute with MIN.                                                       *)
LEMMA MinOfTwo ==
  ASSUME NEW a \in Nat, NEW b \in Nat
  PROVE  Min({a, b}) = IF a <= b THEN a ELSE b
<1> DEFINE m == IF a <= b THEN a ELSE b
<1>1. m \in {a, b} /\ \A y \in {a, b} : m <= y
  OBVIOUS
<1>2. \A x \in {a, b} : (\A y \in {a, b} : x <= y) => x = m
  OBVIOUS
<1>3. QED
  BY <1>1, <1>2 DEF Min

(* The larger of two numbers.                                              *)
LEMMA MaxOfTwo ==
  ASSUME NEW a \in Nat, NEW b \in Nat
  PROVE  Max({a, b}) = IF a >= b THEN a ELSE b
<1> DEFINE m == IF a >= b THEN a ELSE b
<1>1. m \in {a, b} /\ \A y \in {a, b} : m >= y
  OBVIOUS
<1>2. \A x \in {a, b} : (\A y \in {a, b} : x >= y) => x = m
  OBVIOUS
<1>3. QED
  BY <1>1, <1>2 DEF Max

(* A claim begins where it is asked for, holds no more than was put after  *)
(* that, and at least a byte when there is one: the rest of the buffer's   *)
(* memory is never empty.                                                  *)
LEMMA ClaimBounds ==
  ASSUME NEW head \in Nat, put_tail \in Nat, head <= put_tail
  PROVE  /\ ClaimFrom(head) \in Part
         /\ ClaimFrom(head).from = head
         /\ head + ClaimFrom(head).len <= put_tail
         /\ head < put_tail => ClaimFrom(head).len > 0
<1> DEFINE room == Capacity - (head % Capacity)
           rest == put_tail - head
<1>1. room \in Nat /\ room > 0 /\ rest \in Nat
  BY ConstantsAssumption
<1>2. ClaimFrom(head) = [from |-> head, len |-> Min({rest, room})]
  BY DEF ClaimFrom
<1> HIDE DEF room
<1>3. Min({rest, room}) = IF rest <= room THEN rest ELSE room
  BY <1>1, MinOfTwo
<1>4. QED
  BY <1>1, <1>2, <1>3 DEF Part

-----------------------------------------------------------------------------
(* Types and the order of the ring buffer's indices belong together: that  *)
(* the difference of two indices is a number rests on their order.         *)
RingInv == TypeOK /\ RingOrdered

(* The ring is empty at the start.                                         *)
LEMMA InitRingInv == Init => RingInv
<1> SUFFICES ASSUME Init PROVE RingInv
  OBVIOUS
<1> USE ConstantsAssumption DEF Init
<1>1. paced \in BOOLEAN /\ repeated \in BOOLEAN
  BY Zenon
<1>2. tx \in [busy : BOOLEAN, from : Nat, len : Nat]
  BY DEF Idle
<1>3. claim \in Part
  BY DEF Part
<1>4. RingOrdered
  BY DEF RingOrdered
<1>5. QED
  BY <1>1, <1>2, <1>3, <1>4 DEF RingInv, TypeOK

(* The indices, whichever of the thread and the interrupt moves them.      *)
LEMMA RingStep ==
  ASSUME RingInv, [Next]_vars
  PROVE  /\ put_tail' \in Nat /\ get_head' \in Nat /\ get_tail' \in Nat
         /\ RingOrdered'
<1> USE ConstantsAssumption DEF RingInv, TypeOK, RingOrdered
<1>1. CASE Put
  <2>1. Space \in Nat /\ get_head' = get_head /\ get_tail' = get_tail
    BY <1>1 DEF Put, Space
  <2>2. CASE put_tail' = put_tail + Min({left, Space})
    <3>1. Min({left, Space}) \in Nat /\ Min({left, Space}) <= Space
      BY <2>1, MinOfTwo
    <3>2. QED BY <2>1, <2>2, <3>1 DEF Space
  <2>3. CASE UNCHANGED put_tail
    BY <2>1, <2>3
  <2>4. QED BY <1>1, <2>2, <2>3 DEF Put
<1>2. CASE Claim
  <2>1. /\ put_tail' = put_tail /\ get_tail' = get_tail
        /\ get_head' = get_head + ClaimFrom(get_head).len
    BY <1>2 DEF Claim
  <2>2. QED BY <2>1, ClaimBounds DEF Part
<1>3. CASE Unclaim
  BY <1>3 DEF Unclaim
<1>4. CASE TxDone
  <2> DEFINE head == IF Finishable THEN Finished ELSE get_head
  <2>1. /\ put_tail' = put_tail /\ get_tail' = Finished
        /\ get_head' \in {head, head + ClaimFrom(head).len}
    BY <1>4 DEF TxDone
  <2>2. /\ Finished \in Nat /\ get_tail <= Finished
        /\ head \in Nat /\ Finished <= head /\ head <= put_tail
    BY DEF Finished, Finishable
  <2> HIDE DEF head
  <2>3. ClaimFrom(head).len \in Nat /\ head + ClaimFrom(head).len <= put_tail
    BY <2>2, ClaimBounds DEF Part
  <2>4. QED BY <2>1, <2>2, <2>3
<1>5. CASE UNCHANGED ring
  BY <1>5 DEF ring
<1>6. QED
  BY <1>1, <1>2, <1>3, <1>4, <1>5
  DEF Next, Writer, Write, Take, TryTake, Start, InitDone, InitFails, vars

(* The semaphore and the driver's transmission.                            *)
LEMMA DriverStep ==
  ASSUME RingInv, [Next]_vars
  PROVE  /\ tx_done_sem' \in {0, 1} /\ repeated' \in BOOLEAN /\ sent' \in Nat
         /\ tx' \in [busy : BOOLEAN, from : Nat, len : Nat]
<1> USE DEF RingInv, TypeOK
<1>1. tx_done_sem' \in {0, 1}
  BY DEF Next, Writer, Write, Put, Take, TryTake, Claim, Start, Unclaim, TxDone,
         InitDone, InitFails, Give, vars
<1>2. repeated' \in BOOLEAN
  BY Zenon DEF Next, Writer, Write, Put, Take, TryTake, Claim, Start, StartTx,
         Unclaim, TxDone, InitDone, InitFails, vars
<1>3. CASE TxDone
  <2>1. /\ tx.from + tx.len \in Nat
        /\ sent' \in {sent, Max({sent, tx.from + tx.len})}
    BY <1>3 DEF TxDone
  <2>2. sent' \in Nat
    BY <2>1, MaxOfTwo
  <2> DEFINE head == IF Finishable THEN Finished ELSE get_head
  <2>3. \/ tx' = Idle
        \/ tx' = [busy |-> TRUE, from |-> ClaimFrom(head).from, len |-> ClaimFrom(head).len]
    BY <1>3 DEF TxDone
  <2>4. head \in Nat /\ head <= put_tail
    BY DEF Finished, Finishable, RingOrdered
  <2> HIDE DEF head
  <2>5. ClaimFrom(head).from \in Nat /\ ClaimFrom(head).len \in Nat
    BY <2>4, ClaimBounds DEF Part
  <2>6. Idle \in [busy : BOOLEAN, from : Nat, len : Nat]
    BY DEF Idle
  <2>7. tx' \in [busy : BOOLEAN, from : Nat, len : Nat]
    <3>1. CASE tx' = Idle
      BY <2>6, <3>1
    <3>2. CASE tx' = [busy |-> TRUE, from |-> ClaimFrom(head).from, len |-> ClaimFrom(head).len]
      BY <2>5, <3>2
    <3>3. QED BY <2>3, <3>1, <3>2
  <2>8. QED BY <1>1, <1>2, <2>2, <2>7, Zenon
<1>4. CASE Start
  <2>1. \/ tx' = [busy |-> TRUE, from |-> claim.from, len |-> claim.len]
        \/ tx' = tx
    BY <1>4, Zenon DEF Start, StartTx
  <2>2. claim.from \in Nat /\ claim.len \in Nat
    BY DEF Part
  <2>3. tx' \in [busy : BOOLEAN, from : Nat, len : Nat]
    <3>1. CASE tx' = tx
      BY <3>1
    <3>2. CASE tx' = [busy |-> TRUE, from |-> claim.from, len |-> claim.len]
      BY <2>2, <3>2
    <3>3. QED BY <2>1, <3>1, <3>2
  <2>4. sent' \in Nat
    BY <1>4 DEF Start
  <2>5. QED BY <1>1, <1>2, <2>3, <2>4, Zenon
<1>5. CASE UNCHANGED <<tx, sent>>
  BY <1>1, <1>2, <1>5
<1>6. QED
  BY <1>3, <1>4, <1>5
  DEF Next, Writer, Write, Put, Take, TryTake, Claim, Unclaim, InitDone,
      InitFails, vars

(* What uart_tx_write keeps.                                               *)
LEMMA WriterStep ==
  ASSUME RingInv, [Next]_vars
  PROVE  /\ pc' \in {"idle", "put", "take", "try", "claim", "start", "unclaim"}
         /\ init' \in {"running", "done", "failed"}
         /\ left' \in Nat /\ claim' \in Part /\ packets' \in Nat /\ cut' \in Nat
         /\ paced' \in BOOLEAN
<1> USE ConstantsAssumption DEF RingInv, TypeOK
<1>1. paced' \in BOOLEAN
  BY Zenon DEF Next, Writer, Write, Put, Take, TryTake, Claim, Start, Unclaim,
         TxDone, InitDone, InitFails, writer, vars
<1>2. CASE Write
  BY <1>1, <1>2 DEF Write
<1>3. CASE Put
  <2>1. Space \in Nat
    BY DEF Space, RingOrdered
  <2>2. Min({left, Space}) \in Nat /\ Min({left, Space}) <= left
    BY <2>1, MinOfTwo
  <2>3. left' \in Nat
    BY <1>3, <2>2 DEF Put
  <2>4. QED BY <1>1, <1>3, <2>3 DEF Put
<1>4. CASE Claim
  <2>1. claim' \in Part
    BY <1>4, ClaimBounds DEF Claim, RingOrdered
  <2>2. QED BY <1>1, <1>4, <2>1 DEF Claim
<1>5. CASE Take \/ TryTake \/ Start \/ Unclaim
  BY <1>1, <1>5 DEF Take, TryTake, Start, Unclaim
<1>6. CASE TxDone \/ InitDone \/ InitFails \/ UNCHANGED vars
  BY <1>1, <1>6 DEF TxDone, InitDone, InitFails, writer, vars
<1>7. QED
  BY <1>2, <1>3, <1>4, <1>5, <1>6 DEF Next, Writer

(* The ring is in order in every behaviour ...                             *)
LEMMA RingSafe == Spec => []RingInv
<1>1. RingInv /\ [Next]_vars => RingInv'
  <2> SUFFICES ASSUME RingInv, [Next]_vars PROVE RingInv'
    OBVIOUS
  <2>1. QED
    BY RingStep, DriverStep, WriterStep DEF RingInv, TypeOK
<1>2. QED BY <1>1, InitRingInv, PTL DEF Spec

(* Every variable keeps its type.                                          *)
THEOREM TypeCorrect == Spec => []TypeOK
<1>1. RingInv => TypeOK
  BY DEF RingInv
<1>2. QED BY <1>1, RingSafe, PTL

(* The ring buffer never holds more than it can and never gives out what   *)
(* was not put, in whatever order uart_tx_write and the TX_DONE interrupt  *)
(* claim from it and finish with it.                                       *)
THEOREM RingKeepsOrder == Spec => []RingOrdered
<1>1. RingInv => RingOrdered
  BY DEF RingInv
<1>2. QED BY <1>1, RingSafe, PTL

-----------------------------------------------------------------------------
(* While tx_done_sem is taken somebody is going to give it back, unless    *)
(* uart_handler_init has not come to its end: who takes it carries it to   *)
(* a transmission or gives it back, and every TX_DONE gives it.            *)
THEOREM TokenSurvives == Spec => []TokenNotLost
<1>1. Init => TokenNotLost
  BY DEF Init, TokenNotLost
<1>2. TokenNotLost /\ [Next]_vars => TokenNotLost'
  <2> SUFFICES ASSUME TokenNotLost, [Next]_vars PROVE TokenNotLost'
    OBVIOUS
  <2> USE DEF TokenNotLost
  <2>1. CASE Write \/ Put
    BY <2>1 DEF Write, Put
  <2>2. CASE Take \/ TryTake \/ Claim
    BY <2>2 DEF Take, TryTake, Claim
  <2>3. CASE Start
    <3>1. tx_done_sem' = tx_done_sem /\ init' = init /\ pc = "start"
      BY <2>3 DEF Start
    <3>2. CASE pc' = "unclaim"
      BY <3>2
    <3>3. CASE tx' = [busy |-> TRUE, from |-> claim.from, len |-> claim.len]
      BY <3>3
    <3>4. QED BY <2>3, <3>2, <3>3 DEF Start, StartTx
  <2>4. CASE Unclaim \/ TxDone \/ InitDone
    BY <2>4 DEF Unclaim, TxDone, InitDone, Give
  <2>5. CASE InitFails
    BY <2>5 DEF InitFails
  <2>6. CASE UNCHANGED vars
    BY <2>6 DEF vars, writer
  <2>7. QED
    BY <2>1, <2>2, <2>3, <2>4, <2>5, <2>6 DEF Next, Writer
<1>3. QED BY <1>1, <1>2, PTL DEF Spec

-----------------------------------------------------------------------------
(* A writer that sends one packet after the other, each of which fits and  *)
(* finds tx_buf empty.  What was consumed is exactly what was transmitted; *)
(* a transmission in progress is all that is claimed, and then the thread  *)
(* is not in uart_tx_write; without one nothing is claimed, except between *)
(* the claim of tx_start and its uart_tx.  Since no packet meets a full    *)
(* buffer and none a transmission, the waiting and the giving up of        *)
(* uart_tx_write are never reached.                                        *)
WriterPaced ==
  /\ pc \in {"idle", "put", "try", "claim", "start"}
  /\ pc = "put" => left <= Space
  /\ pc \in {"try", "claim", "start"} => left = 0
  /\ pc = "start" => claim = [from |-> get_tail, len |-> get_head - get_tail]

TransmitterPaced ==
  /\ sent = get_tail
  /\ tx.busy => /\ pc = "idle"
                /\ tx.from = get_tail /\ get_head = get_tail + tx.len
  /\ ~tx.busy /\ pc # "start" => get_head = get_tail

PacedInv == paced => /\ ~repeated /\ cut = 0
                     /\ WriterPaced /\ TransmitterPaced

(* The steps of the thread.  Only the bytes of one packet are ever in the  *)
(* buffer, so each step leaves the next one the state it expects.          *)
LEMMA PacedWriterStep ==
  ASSUME RingInv, PacedInv, paced', Write \/ Writer
  PROVE  /\ ~repeated' /\ cut' = 0 /\ WriterPaced' /\ TransmitterPaced'
<1>1. paced
  BY Zenon DEF Write, Writer, Put, Take, TryTake, Claim, Start, Unclaim
<1>2. ~repeated /\ cut = 0 /\ WriterPaced /\ TransmitterPaced
  BY <1>1, Zenon DEF PacedInv
<1> USE <1>2 DEF RingInv, TypeOK, RingOrdered, WriterPaced, TransmitterPaced, Space
<1>3. CASE Write
  <2>1. ~repeated' /\ cut' = 0 /\ UNCHANGED <<ring, tx, sent>> /\ pc' = "put"
    BY <1>3 DEF Write
  <2>2. ~tx.busy /\ IsEmpty(get_head) /\ left' <= Capacity /\ pc = "idle"
    BY <1>3, Zenon DEF Write
  <2>3. QED
    BY <2>1, <2>2, ConstantsAssumption DEF IsEmpty, ring
<1>4. CASE Put
  <2>1. /\ ~repeated' /\ cut' = 0 /\ pc = "put" /\ left <= Space
        /\ UNCHANGED <<get_head, get_tail, tx, sent>>
    BY <1>4 DEF Put
  <2>2. CASE /\ left > 0 /\ Space > 0
             /\ put_tail' = put_tail + Min({left, Space})
             /\ left' = left - Min({left, Space})
             /\ UNCHANGED pc
    <3>1. Min({left, Space}) = left
      BY <2>1, MinOfTwo, ConstantsAssumption
    <3>2. left' = 0 /\ Space' \in Nat
      BY <2>1, <2>2, <3>1, ConstantsAssumption
    <3>3. QED BY <2>1, <2>2, <3>2
  <2>3. CASE left = 0 /\ pc' = "try" /\ UNCHANGED <<put_tail, left>>
    BY <2>1, <2>3
  <2>4. QED BY <1>4, <2>1, <2>2, <2>3 DEF Put
<1>5. CASE TryTake
  BY <1>5 DEF TryTake, ring
<1>6. CASE Claim
  <2>1. /\ claim' = ClaimFrom(get_head) /\ get_head' = get_head + claim'.len
        /\ pc = "claim" /\ pc' = "start" /\ ~repeated' /\ cut' = 0
        /\ UNCHANGED <<put_tail, get_tail, tx, left, sent>>
    BY <1>6 DEF Claim
  <2>2. ~tx.busy /\ get_head = get_tail
    BY <2>1
  <2>3. claim'.from = get_head /\ claim' \in Part
    BY <2>1, ClaimBounds
  <2>4. claim' = [from |-> get_tail', len |-> get_head' - get_tail']
    BY <2>1, <2>2, <2>3 DEF Part
  <2>5. QED BY <2>1, <2>2, <2>4
<1>7. CASE Start
  <2>1. /\ claim = [from |-> get_tail, len |-> get_head - get_tail]
        /\ left = 0 /\ pc = "start" /\ ~tx.busy /\ cut' = 0
        /\ UNCHANGED <<ring, left, claim, sent>>
    BY <1>7 DEF Start
  <2>2. ~(left > 0)
    BY <2>1
  <2>3. StartTx(claim) /\ pc' = "idle"
    BY <1>7, <2>1, <2>2, Zenon DEF Start, Busy
  <2>4. ~repeated'
    BY <2>1, <2>3 DEF StartTx
  <2>5. tx' = [busy |-> TRUE, from |-> get_tail, len |-> get_head - get_tail]
    BY <2>1, <2>3 DEF StartTx
  <2>6. QED BY <2>1, <2>3, <2>4, <2>5 DEF ring
<1>8. CASE Take \/ Unclaim
  BY <1>8 DEF Take, Unclaim
<1>9. QED
  BY <1>3, <1>4, <1>5, <1>6, <1>7, <1>8 DEF Writer

(* The interrupt: what it finishes is what was claimed, and what it starts *)
(* next begins where that ended.                                           *)
LEMMA PacedTxDoneStep ==
  ASSUME RingInv, PacedInv, paced', TxDone
  PROVE  /\ ~repeated' /\ cut' = 0 /\ WriterPaced' /\ TransmitterPaced'
<1>1. paced /\ UNCHANGED <<put_tail, pc, left, claim, packets, cut>>
  BY DEF TxDone, writer
<1>2. ~repeated /\ cut = 0 /\ WriterPaced /\ TransmitterPaced /\ tx.busy
  BY <1>1, Zenon DEF PacedInv, TxDone
<1>3. /\ pc = "idle" /\ sent = get_tail
      /\ tx.from = get_tail /\ get_head = get_tail + tx.len
      /\ tx.len \in Nat
  BY <1>2 DEF TransmitterPaced, RingInv, TypeOK
<1> USE DEF RingInv, TypeOK, RingOrdered
<1>4. Finishable /\ Finished = get_head
  BY <1>3 DEF Finishable, Finished
<1>5. sent' = get_head /\ get_tail' = get_head
  <2>1. sent' = Max({sent, tx.from + tx.len}) /\ get_tail' = Finished
    BY <1>3 DEF TxDone
  <2>2. Max({get_tail, get_head}) = get_head
    BY MaxOfTwo
  <2>3. QED BY <1>3, <1>4, <2>1, <2>2
<1>6. WriterPaced' /\ cut' = 0
  BY <1>1, <1>2, <1>3 DEF WriterPaced
<1> DEFINE part == ClaimFrom(get_head)
<1>7. CASE /\ get_head' = get_head + part.len
           /\ tx' = [busy |-> TRUE, from |-> part.from, len |-> part.len]
           /\ repeated' = (repeated \/ part.from < sent')
  <2>1. part.from = get_head /\ part.len \in Nat
    BY ClaimBounds DEF Part
  <2> HIDE DEF part
  <2>2. ~(part.from < sent')
    BY <1>5, <2>1
  <2>3. ~repeated'
    BY <1>2, <1>7, <2>2, Zenon
  <2>4. tx'.busy
    BY <1>7, Zenon
  <2>5. tx'.from = get_tail' /\ get_head' = get_tail' + tx'.len
    BY <1>5, <1>7, <2>1
  <2>6. QED BY <1>1, <1>3, <1>5, <1>6, <2>3, <2>4, <2>5 DEF TransmitterPaced
<1>8. CASE get_head' = get_head /\ tx' = Idle /\ repeated' = repeated
  BY <1>2, <1>5, <1>6, <1>8 DEF TransmitterPaced, Idle
<1>9. QED
  BY <1>4, <1>7, <1>8 DEF TxDone

(* ... and so is what the paced writers put into it.                       *)
LEMMA PacedSafe == Spec => [](RingInv /\ PacedInv)
<1>1. Init => PacedInv
  BY DEF Init, PacedInv, WriterPaced, TransmitterPaced, Idle
<1>2. RingInv /\ PacedInv /\ [Next]_vars => PacedInv'
  <2> SUFFICES ASSUME RingInv, PacedInv, [Next]_vars, paced'
               PROVE  ~repeated' /\ cut' = 0 /\ WriterPaced' /\ TransmitterPaced'
    BY DEF PacedInv
  <2>1. CASE Write \/ Writer
    BY <2>1, PacedWriterStep
  <2>2. CASE TxDone
    BY <2>2, PacedTxDoneStep
  <2>3. CASE InitDone \/ InitFails \/ UNCHANGED vars
    <3>1. UNCHANGED <<ring, tx, writer, repeated, sent, paced>>
      BY <2>3 DEF InitDone, InitFails, vars
    <3>2. ~repeated /\ cut = 0 /\ WriterPaced /\ TransmitterPaced
      BY <3>1, Zenon DEF PacedInv
    <3>3. QED
      BY <3>1, <3>2 DEF WriterPaced, TransmitterPaced, Space, ring, writer
  <2>4. QED BY <2>1, <2>2, <2>3 DEF Next
<1>3. QED BY <1>1, <1>2, RingSafe, PTL DEF Spec

(* Packets written one after the other reach the driver complete, in order *)
(* and once, the ones that wrap around the end of tx_buf and the ones as   *)
(* long as tx_buf included.                                                *)
THEOREM PacedPacketsIntact == Spec => []PacketsIntact
<1>1. RingInv /\ PacedInv => PacketsIntact
  <2> SUFFICES ASSUME RingInv, PacedInv, paced
               PROVE  (Busy => tx.from <= sent) /\ ~repeated /\ cut = 0
    BY DEF PacketsIntact
  <2>1. ~repeated /\ cut = 0 /\ WriterPaced /\ TransmitterPaced
    BY Zenon DEF PacedInv
  <2>2. Busy => tx.from <= sent
    BY <2>1 DEF TransmitterPaced, Busy, RingInv, TypeOK
  <2>3. QED BY <2>1, <2>2
<1>2. QED BY <1>1, PacedSafe, PTL
=============================================================================
