------------------------------ MODULE SlipLink ------------------------------
(***************************************************************************)
(* SLIP at both ends of the UART line: a peer that frames packets, and the *)
(* decoding loop of rx_process (src/uart_handler.c), which gives every     *)
(* packet to handle_uart_data and then clears the buffer.  A packet that   *)
(* begins a transfer puts an end to it: from the next event on rx_process  *)
(* takes what arrives for an image, until the device reboots, which is     *)
(* where this model ends.                                                  *)
(*                                                                         *)
(* The line is good until an error occurs on it, at any time; after that   *)
(* any byte may arrive at any time.                                        *)
(***************************************************************************)
EXTENDS Dispatch

CONSTANTS
  Packets,     \* what the peer sends
  MaxInFlight  \* bound: packets on the line at a time

ASSUME LinkAssumption ==
  /\ Packets \subseteq Seq(Bytes) \ {<<>>}
  /\ MaxInFlight \in Nat

VARIABLES
  line,     \* bytes sent and not yet received
  m_slip,   \* the decoder
  transfer_mode,
  decoding, \* the event in hand goes to the decoder
  sent,     \* history: packets sent and not yet handled
  got,      \* history: the last packet handled that is not empty
  done,     \* what handle_uart_data made of it
  good      \* the line has had no errors

mode    == <<transfer_mode, decoding>>
history == <<sent, got, done>>
vars    == <<line, m_slip, mode, history, good>>

Nothing == [word |-> "none", message |-> <<>>]

Init ==
  /\ line = <<>>
  /\ m_slip = SlipInit
  /\ transfer_mode = FALSE /\ decoding = TRUE
  /\ sent = <<>> /\ got = <<>> /\ done = Nothing /\ good = TRUE

(* The peer: slip_encode of the scripts puts an END before the packet, the *)
(* commands in README.md have none.                                        *)
SendPacket ==
  /\ good /\ Len(sent) < MaxInFlight
  /\ \E p \in Packets, lead \in {<<>>, <<END>>} :
       /\ line' = line \o lead \o slip_encode(p)
       /\ sent' = Append(sent, p)
  /\ UNCHANGED <<m_slip, mode, got, done, good>>

(* case ERROR_NO_MEM resets the index and the state, not the buffer ...    *)
Restarted(s) == [s EXCEPT !.state = "DECODING", !.current_index = 0]

(* ... and case NRF_SUCCESS all three.                                     *)
ClearedIndex(s) == Restarted(s)  \* mutant: without the memset

Cleared(s) == [Restarted(s) EXCEPT !.p_buffer = EmptyBuffer]

(* case NRF_SUCCESS: handle_uart_data of the packet.  transfer_mode is set *)
(* for good; what else it makes of the bytes of a bad line is not recorded.*)
Dispatch(s) ==
  LET packet == SubSeq(s.p_buffer, 1, s.current_index) IN
  /\ m_slip' = Cleared(s)
  /\ transfer_mode' = (transfer_mode \/ Transfers(s.p_buffer))
  /\ IF good /\ packet # <<>>
     THEN /\ got' = packet
          /\ done' = Obeyed(s.p_buffer, s.current_index)
          /\ sent' = (IF sent = <<>> THEN sent ELSE Tail(sent))
     ELSE UNCHANGED history

Reset(s) == m_slip' = Restarted(s) /\ UNCHANGED <<transfer_mode, history>>

(* One turn of the loop over the bytes of an event.                        *)
DecodeByte(c) ==
  LET s == AddByte(m_slip, c) ret_code == AddByteRet(m_slip, c) IN
  CASE ret_code = NRF_SUCCESS  -> Dispatch(s)
    [] ret_code = ERROR_NO_MEM -> Reset(s)
    [] OTHER                   -> m_slip' = s /\ UNCHANGED <<transfer_mode, history>>

(* rx_process takes the next event: transfer_mode is looked at once, for   *)
(* all the bytes of it.                                                    *)
RxEvent ==
  /\ decoding' = ~transfer_mode
  /\ UNCHANGED <<line, m_slip, transfer_mode, history, good>>

(* A byte of the event: for the decoder, or of an image (Upgrade).         *)
RxByte(c) ==
  /\ \/ decoding /\ DecodeByte(c)
     \/ ~decoding /\ UNCHANGED <<m_slip, transfer_mode, history>>
  /\ UNCHANGED decoding

ReceiveByte ==
  /\ line # <<>>
  /\ RxByte(Head(line))
  /\ line' = Tail(line)
  /\ UNCHANGED good

(* A line error.  What was on the line no longer matters.                  *)
LineError ==
  /\ good /\ good' = FALSE
  /\ line' = <<>> /\ sent' = <<>> /\ got' = <<>> /\ done' = Nothing
  /\ UNCHANGED <<m_slip, mode>>

ReceiveAny(c) == ~good /\ RxByte(c) /\ UNCHANGED <<line, good>>

ReceiveNoise == \E c \in Bytes : ReceiveAny(c)

Next == SendPacket \/ RxEvent \/ ReceiveByte \/ LineError \/ ReceiveNoise

(* Bytes on the line arrive; on the bad line END bytes keep coming, among  *)
(* any others.                                                             *)
Spec == Init /\ [][Next]_vars /\ WF_vars(ReceiveByte) /\ WF_vars(ReceiveAny(END))

-----------------------------------------------------------------------------
TypeOK ==
  /\ line \in Seq(Bytes)
  /\ m_slip \in SlipT
  /\ transfer_mode \in BOOLEAN /\ decoding \in BOOLEAN
  /\ sent \in Seq(Packets)
  /\ got \in Seq(Bytes)
  /\ done \in [word : Words \cup {"none"}, message : Seq(Bytes \cup {"unknown"})]
  /\ good \in BOOLEAN

(* handle_uart_data searches the buffer with strstr, so it must hold a NUL *)
(* byte whenever an END may end a packet, whatever came over the line, a   *)
(* packet that fills the buffer included.                                  *)
DispatchTerminated ==
  m_slip.state = "DECODING" /\ ~Full(m_slip) => IsString(m_slip.p_buffer)

(* What handle_uart_data sees is the packet and nothing else, as long as   *)
(* the line is good: behind the received bytes the buffer is zero (the     *)
(* memset after every packet).                                             *)
DispatchSeesPacketOnly ==
  good => \A i \in m_slip.current_index + 1 .. BufferLen : m_slip.p_buffer[i] = ZERO

(* On a good line an upload reaches on_packet_received with its argument,  *)
(* the whole of it if a uint8_t holds its length and a beginning of it     *)
(* otherwise, provided no other word stands in it (handle_uart_data).      *)
UploadsArgument ==
  /\ good
  /\ got # <<>> /\ Head(got) = UPLOAD
  /\ ~Holds(got, DOWNLOAD) /\ ~Holds(got, TRANSFER)
  =>
    /\ done.word = UPLOAD
    /\ \E n \in 1 .. Len(got) : done.message = SubSeq(got, 2, n)
    /\ Len(got) - 1 < LenMod => done.message = Tail(got)

(* Framing is transparent: handle_uart_data gets the packets that were     *)
(* sent, in order, unchanged, every one up to the one that begins a        *)
(* transfer.  It may get those that arrive together with that one, in      *)
(* order too, and none any more once rx_process has found transfer_mode    *)
(* set, which it never does otherwise (slip_encode, the decoder and the    *)
(* resets in rx_process together).                                         *)
Channel == INSTANCE PacketChannel
  WITH inFlight  <- sent,
       told      <- transfer_mode,
       listening <- decoding,
       Closing   <- {p \in Packets : Transfers(p)}

ImplementsChannel == Channel!Spec

(* ERROR_NO_MEM, "If there is no more room in the buffer", makes           *)
(* rx_process start over, so a full buffer does not stay full, unless a    *)
(* transfer has begun.                                                     *)
FullIsLeft ==
  m_slip.current_index = BufferLen ~> m_slip.current_index = 0 \/ transfer_mode
=============================================================================
