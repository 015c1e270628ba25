-------------------------------- MODULE Slip --------------------------------
(***************************************************************************)
(* The SLIP framing of src/slip/slip.c: the encoder, as a function of the  *)
(* packet, and one step of the decoder, as a function of the decoder's     *)
(* state slip_t and the byte received.                                     *)
(***************************************************************************)
EXTENDS Integers, Sequences

CONSTANTS
  END, ESC, ESC_END, ESC_ESC,  \* the four bytes of the protocol
  ZERO,                        \* the NUL byte
  Data,                        \* the other bytes
  BufferLen                    \* slip_t.buffer_len (512 in the code)

Special == {END, ESC, ESC_END, ESC_ESC, ZERO}
Bytes   == Special \cup Data

ASSUME SlipAssumption ==
  /\ END \notin {ESC, ESC_END, ESC_ESC, ZERO}
  /\ ESC \notin {ESC_END, ESC_ESC, ZERO}
  /\ ESC_END \notin {ESC_ESC, ZERO}
  /\ ESC_ESC # ZERO
  /\ Data \cap Special = {}
  /\ BufferLen \in Nat \ {0}

NRF_SUCCESS        == 0
ERROR_NO_MEM       == 4
ERROR_INVALID_DATA == 11
ERROR_BUSY         == 17

-----------------------------------------------------------------------------
EncodeByteEnd(c) ==  \* mutant: ESC is not stuffed
  IF c = END THEN <<ESC, ESC_END>> ELSE <<c>>

(* slip_encode: END and ESC are stuffed, and END ends the packet.          *)
EncodeByte(c) ==
  CASE c = END -> <<ESC, ESC_END>>
    [] c = ESC -> <<ESC, ESC_ESC>>
    [] OTHER   -> <<c>>

slip_encode(p) ==
  LET encoded[i \in 0 .. Len(p)] ==
        IF i = 0 THEN <<>> ELSE encoded[i - 1] \o EncodeByte(p[i])
  IN encoded[Len(p)] \o <<END>>

-----------------------------------------------------------------------------
SlipT == [state         : {"DECODING", "ESC_RECEIVED", "CLEARING_INVALID_PACKET"},
          p_buffer      : [1 .. BufferLen -> Bytes],
          current_index : 0 .. BufferLen]

EmptyBuffer == [i \in 1 .. BufferLen |-> ZERO]

SlipInit ==
  [state |-> "DECODING", p_buffer |-> EmptyBuffer, current_index |-> 0]

FullLate(s) == s.current_index > BufferLen  \* mutant: one byte later

Full(s) == s.current_index = BufferLen

NoRoomPositive == ERROR_NO_MEM  \* mutant: without the sign

(* What slip_decode_add_byte returns for a full buffer.                    *)
NoRoom == -ERROR_NO_MEM

Stored(s, c) ==
  [state         |-> "DECODING",
   p_buffer      |-> [s.p_buffer EXCEPT ![s.current_index + 1] = c],
   current_index |-> s.current_index + 1]

(* The three states of the decoder: where a byte takes each of them.       *)
Decoding(s, c) ==
  CASE c = END -> s
    [] c = ESC -> [s EXCEPT !.state = "ESC_RECEIVED"]
    [] OTHER   -> Stored(s, c)

EscReceived(s, c) ==
  CASE c = ESC_END -> Stored(s, END)
    [] c = ESC_ESC -> Stored(s, ESC)
    [] OTHER       -> [s EXCEPT !.state = "CLEARING_INVALID_PACKET"]

Clearing(s, c) ==
  IF c = END THEN [s EXCEPT !.state = "DECODING", !.current_index = 0] ELSE s

(* slip_decode_add_byte: the decoder's next state ...                      *)
AddByte(s, c) ==
  CASE Full(s)                                -> s
    [] ~Full(s) /\ s.state = "DECODING"       -> Decoding(s, c)
    [] ~Full(s) /\ s.state = "ESC_RECEIVED"   -> EscReceived(s, c)
    [] OTHER                                  -> Clearing(s, c)

(* ... and its return value; errors are negative, ERROR_BUSY is not.       *)
AddByteRet(s, c) ==
  CASE Full(s) -> NoRoom
    [] ~Full(s) /\ s.state = "DECODING" /\ c = END -> NRF_SUCCESS
    [] ~Full(s) /\ s.state = "ESC_RECEIVED" /\ c \notin {ESC_END, ESC_ESC} ->
         -ERROR_INVALID_DATA
    [] OTHER -> ERROR_BUSY
=============================================================================
