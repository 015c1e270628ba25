--------------------------- MODULE PacketChannel ---------------------------
(***************************************************************************)
(* What framing promises: packets sent one after the other are received in *)
(* the same order, each exactly as it was sent, and none is left out,      *)
(* until the line breaks or the receiver stops listening.  It stops only   *)
(* some time after a packet that tells it to, and for good.  Of a broken   *)
(* line nothing is promised.                                               *)
(***************************************************************************)
EXTENDS Sequences

CONSTANTS
  Packets,
  Closing   \* the packets that tell the receiver to stop listening

VARIABLES
  inFlight,   \* packets sent and not yet received, oldest first
  got,        \* the packet received last
  told,       \* the receiver was told to stop
  listening,
  good        \* the line has had no errors

vars == <<inFlight, got, told, listening, good>>

Init ==
  /\ inFlight = <<>> /\ got = <<>>
  /\ told = FALSE /\ listening = TRUE /\ good = TRUE

Send ==
  /\ good /\ good' = TRUE
  /\ \E p \in Packets : inFlight' = Append(inFlight, p)
  /\ UNCHANGED <<got, told, listening>>

Receive ==
  /\ good /\ good' = TRUE
  /\ listening /\ inFlight # <<>>
  /\ got' = Head(inFlight)
  /\ inFlight' = Tail(inFlight)
  /\ told' = (told \/ got' \in Closing)
  /\ UNCHANGED listening

Stop ==
  /\ good /\ good' = TRUE
  /\ told /\ listening' = FALSE
  /\ UNCHANGED <<inFlight, got, told>>

Break == good' = FALSE

Spec == Init /\ [][Send \/ Receive \/ Stop \/ Break]_vars /\ WF_vars(Receive)
=============================================================================
