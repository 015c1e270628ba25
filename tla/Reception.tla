----------------------------- MODULE Reception -----------------------------
(***************************************************************************)
(* What the receive path of the UART promises to those who use it, with no *)
(* word of blocks, references or work items: the bytes of the line, which  *)
(* are numbered, are announced in segments, in order, each byte once; the  *)
(* segments are consumed in the same order, each as it was announced and   *)
(* each once, and every one in the end.  A segment is lost as a whole, and *)
(* only when as many are waiting as are held.                              *)
(***************************************************************************)
EXTENDS Naturals, Sequences

CONSTANT QueueLen  \* segments that are held

VARIABLES
  received,   \* the last byte of the line
  announced,  \* the last byte that was announced
  pending,    \* segments announced and not consumed, first and last byte of each
  consumed    \* the last byte consumed

vars == <<received, announced, pending, consumed>>

Init == received = 0 /\ announced = 0 /\ pending = <<>> /\ consumed = 0

Receive ==
  received' = received + 1 /\ UNCHANGED <<announced, pending, consumed>>

(* What has come in since the last announcement.                           *)
Announce ==
  /\ announced < received
  /\ announced' = received
  /\ \/ pending' = Append(pending, <<announced + 1, received>>)
     \/ Len(pending) >= QueueLen /\ UNCHANGED pending
  /\ UNCHANGED <<received, consumed>>

Consume ==
  /\ pending # <<>>
  /\ consumed' = Head(pending)[2]
  /\ pending' = Tail(pending)
  /\ UNCHANGED <<received, announced>>

Spec == Init /\ [][Receive \/ Announce \/ Consume]_vars /\ WF_vars(Consume)
=============================================================================
