------------------------------ MODULE Dispatch ------------------------------
(***************************************************************************)
(* What a packet makes the device do: handle_uart_data                     *)
(* (src/uart_handler.c), as a function of the decoder's buffer and of the  *)
(* length of the packet.                                                   *)
(*                                                                         *)
(* A word that is searched for is one byte here, so the seven of "upload:" *)
(* are one.  LenMod is what the uint8_t of its length wraps at.            *)
(***************************************************************************)
EXTENDS Slip

CONSTANTS
  DOWNLOAD, TRANSFER, UPLOAD, REBOOT,  \* the words
  LenMod

Words == {DOWNLOAD, TRANSFER, UPLOAD, REBOOT}

(* No word has a NUL in it, and REBOOT, searched for last, is a word of    *)
(* its own.                                                                *)
ASSUME DispatchAssumption ==
  /\ LenMod \in Nat \ {0}
  /\ ZERO \notin Words
  /\ REBOOT \notin {DOWNLOAD, TRANSFER, UPLOAD}

(* strstr searches up to the first NUL.                                    *)
IsString(buffer) == \E i \in DOMAIN buffer : buffer[i] = ZERO

Found(buffer, word) ==
  { i \in DOMAIN buffer : buffer[i] = word /\ \A j \in 1 .. i : buffer[j] # ZERO }

Holds(buffer, word) == Found(buffer, word) # {}

First(S) == CHOOSE i \in S : \A j \in S : i <= j

UploadLenWhole(length) == length % LenMod  \* mutant: strlen("upload:") is not taken off

UploadLen(length) == (length - 1) % LenMod

(* The bytes given to on_packet_received; behind the buffer lies nothing   *)
(* this module knows.                                                      *)
Argument(buffer, length) ==
  LET msg == First(Found(buffer, UPLOAD)) IN
  [i \in 1 .. UploadLen(length) |->
     IF msg + i \in DOMAIN buffer THEN buffer[msg + i] ELSE "unknown"]

(* A transfer begins: transfer_mode is set.                                *)
Transfers(buffer) == ~Holds(buffer, DOWNLOAD) /\ Holds(buffer, TRANSFER)

(* handle_uart_data: the first word that is found, in this order, counts.  *)
Obeyed(buffer, length) ==
  CASE Holds(buffer, DOWNLOAD) -> [word |-> DOWNLOAD, message |-> <<>>]
    [] Transfers(buffer) -> [word |-> TRANSFER, message |-> <<>>]
    [] /\ \A w \in {DOWNLOAD, TRANSFER} : ~Holds(buffer, w)
       /\ Holds(buffer, UPLOAD) ->
         [word |-> UPLOAD, message |-> Argument(buffer, length)]
    [] /\ \A w \in Words \ {REBOOT} : ~Holds(buffer, w)
       /\ Holds(buffer, REBOOT) -> [word |-> REBOOT, message |-> <<>>]
    [] OTHER -> [word |-> "none", message |-> <<>>]
=============================================================================
