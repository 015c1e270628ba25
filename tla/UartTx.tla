------------------------------- MODULE UartTx -------------------------------
(***************************************************************************)
(* The UART transmit path of src/uart_handler.c: uart_tx_write puts a      *)
(* packet into the ring buffer tx_buf, tx_start hands a contiguous part of *)
(* it to the driver, the TX_DONE interrupt gives that part back and goes   *)
(* on, and tx_done_sem says who may start a transmission.                  *)
(*                                                                         *)
(* Only the TCP client thread writes (through uart_send_data), so the      *)
(* mutex mutex_tx_put is never contended and is not modelled.  The bytes   *)
(* accepted into the ring buffer are numbered 0, 1, 2, ...; tx_buf is its  *)
(* three indices, counted from the beginning of time as Zephyr does.       *)
(***************************************************************************)
EXTENDS Naturals, FiniteSetsExt

CONSTANTS
  Capacity,        \* bytes tx_buf holds (256 in the code)
  PacketLengths,   \* lengths of the encoded packets that are written
  MaxPackets       \* bound: packets the TCP client writes

ASSUME ConstantsAssumption ==
  /\ Capacity \in Nat \ {0}
  /\ PacketLengths \subseteq Nat \ {0}
  /\ MaxPackets \in Nat

VARIABLES
  put_tail,     \* tx_buf: bytes put so far
  get_head,     \* tx_buf: bytes claimed so far
  get_tail,     \* tx_buf: bytes consumed so far
  tx_done_sem,  \* count of the semaphore, 0 or 1
  tx,           \* driver: the transmission in progress
  pc,           \* where uart_tx_write is
  left,         \* uart_tx_write: len - sent
  claim,        \* tx_start: the claimed part
  packets,      \* packets written so far
  repeated,     \* history: a byte went to the driver a second time
  sent,         \* history: bytes transmitted without a gap
  cut,          \* history: bytes uart_tx_write gave up on
  paced,        \* history: each packet fitted and found tx_buf empty
  init          \* where uart_handler_init is

ring == <<put_tail, get_head, get_tail>>
writer == <<pc, left, claim, packets, cut>>
vars == <<ring, tx_done_sem, tx, writer, repeated, sent, paced, init>>

Part == [from : Nat, len : Nat]
Idle == [busy |-> FALSE, from |-> 0, len |-> 0]

-----------------------------------------------------------------------------
(* The ring buffer (Zephyr's sys/ring_buffer.h).                           *)
SpaceUnclaimed == Capacity - (put_tail - get_head)  \* mutant: up to the claim

Space == Capacity - (put_tail - get_tail)

IsEmpty(head) == head = put_tail

(* ring_buf_get_claim of everything: what is unclaimed, up to the end of   *)
(* the buffer's memory.                                                    *)
ClaimFrom(head) ==
  [from |-> head, len |-> Min({put_tail - head, Capacity - (head % Capacity)})]

(* ring_buf_get_finish of what was transmitted, where it leaves get_tail:  *)
(* it fails when less than that is claimed.                                *)
Finishable == tx.len <= get_head - get_tail

FinishedAll  == IF Finishable THEN put_tail ELSE get_tail  \* mutant: the whole buffer
FinishedNone == get_tail  \* mutant: without ring_buf_get_finish

Finished == IF Finishable THEN get_tail + tx.len ELSE get_tail

(* k_sem_give of a semaphore whose limit is 1.                             *)
GiveUnlimited == tx_done_sem' = tx_done_sem + 1  \* mutant: without the limit
GiveNever     == UNCHANGED tx_done_sem           \* mutant: not given back

Give == tx_done_sem' = 1

-----------------------------------------------------------------------------
(* uart_tx of the driver: refused (-EBUSY) while bytes are in transit.     *)
Busy == tx.busy /\ tx.len > 0

StartTx(part) ==
  /\ tx' = [busy |-> TRUE, from |-> part.from, len |-> part.len]
  /\ repeated' = (repeated \/ (part.len > 0 /\ part.from < sent))

Init ==
  /\ put_tail = 0 /\ get_head = 0 /\ get_tail = 0
  /\ tx_done_sem = 0 /\ init = "running"
  /\ tx = Idle
  /\ pc = "idle" /\ left = 0 /\ claim = [from |-> 0, len |-> 0]
  /\ packets = 0 /\ repeated = FALSE /\ sent = 0 /\ cut = 0 /\ paced = TRUE

(* uart_handler_init, on main's thread: k_sem_give is the last it does ... *)
InitDone ==
  /\ init = "running" /\ init' = "done"
  /\ Give
  /\ UNCHANGED <<ring, tx, writer, repeated, sent, paced>>

(* ... unless the device is not ready, the line stays invalid for half a   *)
(* second, or a call fails.  main does not look at the result.             *)
InitFails ==
  /\ init = "running" /\ init' = "failed"
  /\ UNCHANGED <<ring, tx_done_sem, tx, writer, repeated, sent, paced>>

(* uart_send_data: the TCP client received something and sends it on.      *)
Write ==
  /\ pc = "idle" /\ packets < MaxPackets
  /\ packets' = packets + 1
  /\ left' \in PacketLengths
  /\ paced' = (paced /\ init = "done" /\ ~tx.busy /\ IsEmpty(get_head) /\ left' <= Capacity)
  /\ pc' = "put"
  /\ UNCHANGED <<ring, tx_done_sem, tx, claim, repeated, sent, cut, init>>

(* One turn of the loop of uart_tx_write.                                  *)
Put ==
  /\ pc = "put"
  /\ \/ /\ left > 0 /\ Space > 0
        /\ put_tail' = put_tail + Min({left, Space})
        /\ left' = left - Min({left, Space})
        /\ UNCHANGED pc
     \/ left > 0 /\ Space = 0 /\ pc' = "take" /\ UNCHANGED <<put_tail, left>>
     \/ left = 0 /\ pc' = "try" /\ UNCHANGED <<put_tail, left>>
  /\ UNCHANGED <<get_head, get_tail, tx_done_sem, tx, claim, packets, cut,
                 repeated, sent, paced, init>>

(* Buffer full: k_sem_take(&tx_done_sem, K_FOREVER).                       *)
Take ==
  /\ pc = "take" /\ tx_done_sem = 1
  /\ tx_done_sem' = 0
  /\ pc' = "claim"
  /\ UNCHANGED <<ring, tx, left, claim, packets, cut, repeated, sent, paced, init>>

(* All is in the ring buffer: start unless a transmission is in progress.  *)
TryTake ==
  /\ pc = "try"
  /\ \/ tx_done_sem = 1 /\ tx_done_sem' = 0 /\ pc' = "claim"
     \/ tx_done_sem = 0 /\ pc' = "idle" /\ UNCHANGED tx_done_sem
  /\ UNCHANGED <<ring, tx, left, claim, packets, cut, repeated, sent, paced, init>>

(* tx_start in the thread: ring_buf_get_claim ...                          *)
Claim ==
  /\ pc = "claim"
  /\ claim' = ClaimFrom(get_head)
  /\ get_head' = get_head + claim'.len
  /\ pc' = "start"
  /\ UNCHANGED <<put_tail, get_tail, tx_done_sem, tx, left, packets, cut,
                 repeated, sent, paced, init>>

(* ... then uart_tx ...                                                    *)
Start ==
  /\ pc = "start"
  /\ \/ ~Busy /\ StartTx(claim) /\ pc' = IF left > 0 THEN "put" ELSE "idle"
     \/ Busy /\ pc' = "unclaim" /\ UNCHANGED <<tx, repeated>>
  /\ UNCHANGED <<ring, tx_done_sem, left, claim, packets, cut, sent, paced, init>>

(* ... and, when that fails, ring_buf_get_finish(0): every claim is given  *)
(* up.  uart_tx_write gives the semaphore back and drops the rest.         *)
Unclaim ==
  /\ pc = "unclaim"
  /\ get_head' = get_tail
  /\ Give
  /\ cut' = cut + left
  /\ left' = 0
  /\ pc' = "idle"
  /\ UNCHANGED <<put_tail, get_tail, tx, claim, packets, repeated, sent,
                 paced, init>>

(* UART_TX_DONE: ring_buf_get_finish, which fails when less is claimed     *)
(* than was transmitted; tx_start if there is more; the semaphore is given *)
(* in any case.                                                            *)
TxDone ==
  /\ tx.busy
  /\ sent' = IF tx.from <= sent THEN Max({sent, tx.from + tx.len}) ELSE sent
  /\ LET head == IF Finishable THEN Finished ELSE get_head
         part == ClaimFrom(head)
     IN /\ get_tail' = Finished
        /\ \/ /\ ~IsEmpty(head)
              /\ get_head' = head + part.len
              /\ tx' = [busy |-> TRUE, from |-> part.from, len |-> part.len]
              /\ repeated' = (repeated \/ part.from < sent')
           \/ /\ IsEmpty(head)
              /\ get_head' = head
              /\ tx' = Idle
              /\ UNCHANGED repeated
  /\ Give
  /\ UNCHANGED <<put_tail, writer, paced, init>>

-----------------------------------------------------------------------------
Writer == Put \/ Take \/ TryTake \/ Claim \/ Start \/ Unclaim

Next == Write \/ Writer \/ TxDone \/ InitDone \/ InitFails

Spec == Init /\ [][Next]_vars

(* The threads run and the driver reports the end of every transmission,   *)
(* one of no bytes included.                                               *)
FairSpec ==
  Spec /\ WF_vars(Writer) /\ WF_vars(TxDone) /\ WF_vars(InitDone \/ InitFails)

-----------------------------------------------------------------------------
TypeOK ==
  /\ paced \in BOOLEAN
  /\ put_tail \in Nat /\ get_head \in Nat /\ get_tail \in Nat
  /\ tx_done_sem \in {0, 1}
  /\ tx \in [busy : BOOLEAN, from : Nat, len : Nat]
  /\ pc \in {"idle", "put", "take", "try", "claim", "start", "unclaim"}
  /\ init \in {"running", "done", "failed"}
  /\ left \in Nat /\ claim \in Part /\ packets \in Nat
  /\ repeated \in BOOLEAN /\ sent \in Nat /\ cut \in Nat

(* Whatever the interrupt and the thread do to the indices of tx_buf in    *)
(* turn, the ring buffer never holds more than it can and never gives out  *)
(* what was not put (ring_buf_get_claim and ring_buf_get_finish, called    *)
(* by tx_start from both).                                                 *)
RingOrdered ==
  /\ get_tail <= get_head /\ get_head <= put_tail
  /\ put_tail - get_tail <= Capacity

(* While the semaphore is taken somebody is going to give it back: the     *)
(* interrupt that ends a transmission, the thread that took it, or the end *)
(* of uart_handler_init.  So uart_tx_write never waits on it for ever,     *)
(* unless uart_handler_init has failed.                                    *)
TokenNotLost ==
  tx_done_sem = 0 =>
    tx.busy \/ pc \in {"claim", "start", "unclaim"} \/ init # "done"

(* Every call of uart_tx_write returns, the ones that wait for space with  *)
(* K_FOREVER included, also those that came before the end of              *)
(* uart_handler_init; a call that waits after its failure does not.        *)
WriterReturns == pc # "idle" ~> pc = "idle" \/ init = "failed"

(* What a writer that sends one packet after the other may count on.       *)

(* They go out complete, in order and once: the driver is handed the bytes *)
(* in the order they were written and none is left out (what tx_start      *)
(* claims against what TX_DONE gives back), none twice, a packet that      *)
(* wraps and is sent in two parts included (ring_buf_get_finish in both    *)
(* uses of tx_start), and a packet as long as the ring buffer is not cut   *)
(* (uart_tx_write drops what is left when tx_start fails).                 *)
PacketsIntact ==
  paced => /\ Busy => tx.from <= sent
           /\ ~repeated
           /\ cut = 0

(* Everything that was written reaches the line.                           *)
AllTransmitted == paced /\ sent < put_tail ~> sent = put_tail \/ ~paced

(* The comment "TX already in progress" is in the branch that does not get *)
(* tx_done_sem: who gets it finds the transmitter idle, so no byte is      *)
(* transmitted twice, whenever packets are written.                        *)
SemaphoreOwnsTransmitter == ~repeated
=============================================================================
