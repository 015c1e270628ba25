------------------------------- MODULE Uplink -------------------------------
(***************************************************************************)
(* Data on its way from the UART to the TCP server: on_packet_received     *)
(* (src/uart_handler.c) copies the argument of an "upload:" packet to the  *)
(* heap and queues it in tx_send_queue; the TCP client thread              *)
(* (src/socket_app.c) peeks at the queue, sends, and takes the message off *)
(* the queue once it has been sent.                                        *)
(*                                                                         *)
(* The producer runs on the cooperative system work queue, so the TCP      *)
(* client thread cannot run inside on_packet_received; on_packet_received  *)
(* can run between any two kernel or socket calls of the thread.  The      *)
(* messages are numbered 1, 2, 3, ... in the order they are queued, and a  *)
(* byte is the pair of its message's number and its place in it.           *)
(***************************************************************************)
EXTENDS Naturals, Sequences, FiniteSets

CONSTANTS
  Addrs,        \* addresses k_calloc can return
  NULL,         \* the null pointer
  QueueLen,     \* messages tx_send_queue holds (20 in the code)
  Lengths,      \* lengths of the uploaded messages
  MaxMessages,  \* bound: messages the peer uploads
  MaxFailures,  \* bound: failing calls of send and of poll
  MaxPartials   \* bound: calls of send that take a part of the data

ASSUME ConstantsAssumption ==
  /\ NULL \notin Addrs
  /\ QueueLen \in Nat \ {0}
  /\ Lengths \subseteq Nat
  /\ MaxMessages \in Nat
  /\ MaxFailures \in Nat
  /\ MaxPartials \in Nat

VARIABLES
  tx_send_queue,  \* queued socket_data_t
  allocated,      \* addresses in use on the heap
  mem,            \* the message each address holds
  lengths,        \* history: lengths of the messages queued so far
  dropped,        \* history: a message was dropped to make room
  pc,             \* where the loop of tcp_client_thread is
  send_packet,    \* its local variable
  offset,         \* local variable of do_tcp_send
  ret,            \* what the last send returned
  resend_count,   \* static variable of the loop, uint8_t
  wire,           \* bytes handed to TCP since the connection was set up
  wires,          \* history: the same for the connections before
  failures, partials

producer == <<allocated, mem, lengths, dropped>>
sender   == <<pc, send_packet, offset, ret, resend_count>>
tcp      == <<wire, wires, failures, partials>>
vars     == <<tx_send_queue, producer, sender, tcp>>

Message == [data : Addrs, length : Nat]
Byte    == Nat \X Nat

NoMessage == [data |-> NULL, length |-> 0]

Count == Len(lengths)

Init ==
  /\ tx_send_queue = <<>>
  /\ allocated = {} /\ mem = [a \in Addrs |-> 0]
  /\ lengths = <<>> /\ dropped = FALSE
  /\ pc = "peek"
  /\ send_packet = NoMessage /\ offset = 0 /\ ret = 0 /\ resend_count = 0
  /\ wire = <<>> /\ wires = <<>> /\ failures = 0 /\ partials = 0

-----------------------------------------------------------------------------
(* k_msgq_num_free_get is 0.                                               *)
FullLate == Len(tx_send_queue) > QueueLen  \* mutant: one message later

Full == Len(tx_send_queue) = QueueLen

(* What stays of a full queue ...                                          *)
KeptFront ==  \* mutant: the newest message goes
  IF Full THEN SubSeq(tx_send_queue, 1, Len(tx_send_queue) - 1) ELSE tx_send_queue

Kept == IF Full THEN Tail(tx_send_queue) ELSE tx_send_queue

(* ... and the memory that is given back with the rest.                    *)
FreedNothing == {}  \* mutant: without k_free

Freed == IF Full THEN {Head(tx_send_queue).data} ELSE {}

(* on_packet_received.  When the queue is full the oldest message goes, so *)
(* k_msgq_put finds room; without memory the new one is dropped.           *)
OnPacketReceived ==
  /\ Count < MaxMessages
  /\ \E a \in Addrs \ allocated, length \in Lengths :
       /\ tx_send_queue' = Append(Kept, [data |-> a, length |-> length])
       /\ allocated' = (allocated \cup {a}) \ Freed
       /\ mem' = [mem EXCEPT ![a] = Count + 1]
       /\ lengths' = Append(lengths, length)
  /\ dropped' = (dropped \/ Len(tx_send_queue) = QueueLen)
  /\ UNCHANGED <<sender, tcp>>

-----------------------------------------------------------------------------
(* The loop of tcp_client_thread.                                          *)

(* poll fails or reports an error or a hang-up: the connection is closed.  *)
PollError ==
  /\ pc = "peek" /\ failures < MaxFailures
  /\ failures' = failures + 1
  /\ pc' = "retry"
  /\ UNCHANGED <<tx_send_queue, producer, send_packet, offset, ret,
                 resend_count, wire, wires, partials>>

PeekTakes ==  \* mutant: k_msgq_get in place of k_msgq_peek
  /\ pc = "peek" /\ tx_send_queue # <<>>
  /\ send_packet' = Head(tx_send_queue)
  /\ tx_send_queue' = Tail(tx_send_queue)
  /\ offset' = 0 /\ ret' = 0
  /\ pc' = "send"
  /\ UNCHANGED <<producer, resend_count, tcp>>

(* k_msgq_peek: with an empty queue the loop goes round.                   *)
Peek ==
  /\ pc = "peek" /\ tx_send_queue # <<>>
  /\ send_packet' = Head(tx_send_queue)
  /\ offset' = 0 /\ ret' = 0
  /\ pc' = "send"
  /\ UNCHANGED <<tx_send_queue, producer, resend_count, tcp>>

(* What is at an address, whoever owns it now.                             *)
BytesAt(a, from, to) == [k \in 1 .. to - from |-> <<mem[a], from + k>>]

(* One call of send in do_tcp_send that takes n bytes.                     *)
Send ==
  /\ pc = "send" /\ offset < send_packet.length
  /\ \E n \in 1 .. send_packet.length - offset :
       /\ n < send_packet.length - offset => partials < MaxPartials
       /\ partials' = partials + (IF n < send_packet.length - offset THEN 1 ELSE 0)
       /\ wire' = wire \o BytesAt(send_packet.data, offset, offset + n)
       /\ offset' = offset + n
       /\ ret' = n
  /\ UNCHANGED <<tx_send_queue, producer, pc, send_packet, resend_count,
                 wires, failures>>

(* send fails: do_tcp_send returns -errno, kept apart from every length.   *)
SendFails ==
  /\ pc = "send" /\ offset < send_packet.length /\ failures < MaxFailures
  /\ failures' = failures + 1
  /\ pc' = "failed"
  /\ UNCHANGED <<tx_send_queue, producer, send_packet, offset, ret,
                 resend_count, wire, wires, partials>>

(* do_tcp_send returns what the LAST call of send took; a message is done  *)
(* only when that is all of it.                                            *)
SendDone ==
  /\ pc = "send" /\ offset = send_packet.length
  /\ pc' = IF ret = send_packet.length THEN "get" ELSE "peek"
  /\ UNCHANGED <<tx_send_queue, producer, send_packet, offset, ret,
                 resend_count, tcp>>

FailedGivesUp ==  \* mutant: the fourth failure drops the message
  /\ pc = "failed"
  /\ resend_count' = (resend_count + 1) % 256
  /\ pc' = IF resend_count >= 3 THEN "get" ELSE "peek"
  /\ UNCHANGED <<tx_send_queue, producer, send_packet, offset, ret, tcp>>

FailedRequeues ==  \* mutant: the message is put at the end of the queue
  /\ pc = "failed"
  /\ resend_count' = (resend_count + 1) % 256
  /\ pc' = IF resend_count >= 3 THEN "retry" ELSE "peek"
  /\ tx_send_queue' = Append(Tail(tx_send_queue), send_packet)
  /\ UNCHANGED <<producer, send_packet, offset, ret, tcp>>

FailedExits ==  \* mutant: the loop ends, and so does the thread
  /\ pc = "failed" /\ resend_count < 3
  /\ resend_count' = resend_count + 1
  /\ pc' = "peek"
  /\ UNCHANGED <<tx_send_queue, producer, send_packet, offset, ret, tcp>>

(* A failed message is tried again, or the connection is given up.         *)
Failed ==
  /\ pc = "failed"
  /\ resend_count' = (resend_count + 1) % 256
  /\ pc' = IF resend_count >= 3 THEN "retry" ELSE "peek"
  /\ UNCHANGED <<tx_send_queue, producer, send_packet, offset, ret, tcp>>

(* k_msgq_get into send_packet.                                            *)
Get ==
  /\ pc = "get"
  /\ send_packet' = Head(tx_send_queue)
  /\ tx_send_queue' = Tail(tx_send_queue)
  /\ pc' = "free"
  /\ UNCHANGED <<producer, offset, ret, resend_count, tcp>>

Free ==
  /\ pc = "free"
  /\ allocated' = allocated \ {send_packet.data}
  /\ resend_count' = 0
  /\ pc' = "peek"
  /\ UNCHANGED <<tx_send_queue, mem, lengths, dropped, send_packet, offset, ret,
                 tcp>>

(* close, three seconds' sleep, and a new connection; resend_count stays.  *)
Retry ==
  /\ pc = "retry"
  /\ wire' = <<>> /\ wires' = Append(wires, wire)
  /\ pc' = "peek"
  /\ UNCHANGED <<tx_send_queue, producer, send_packet, offset, ret,
                 resend_count, failures, partials>>

-----------------------------------------------------------------------------
Sender == Peek \/ Send \/ SendDone \/ Failed \/ Get \/ Free \/ Retry

Next == OnPacketReceived \/ PollError \/ SendFails \/ Sender

Spec == Init /\ [][Next]_vars

(* The thread goes round its loop: poll waits at most 200 ms, send has a   *)
(* time-out, and a connection can be made again once it was given up.      *)
(* Nothing is assumed of the producer or of failures.                      *)
FairSpec == Spec /\ WF_vars(Sender)

-----------------------------------------------------------------------------
TypeOK ==
  /\ tx_send_queue \in Seq(Message) /\ Len(tx_send_queue) <= QueueLen
  /\ allocated \in SUBSET Addrs
  /\ mem \in [Addrs -> Nat]
  /\ lengths \in Seq(Nat) /\ dropped \in BOOLEAN
  /\ pc \in {"peek", "send", "failed", "get", "free", "retry"}
  /\ send_packet \in Message \cup {NoMessage} /\ offset \in Nat /\ ret \in Nat
  /\ resend_count \in 0 .. 255
  /\ wire \in Seq(Byte) /\ wires \in Seq(Seq(Byte))
  /\ failures \in Nat /\ partials \in Nat

(* Every block on the heap has exactly one owner, whatever the producer    *)
(* drops while the thread is sending: a place in the queue, or the thread  *)
(* between k_msgq_get and k_free.  So none leaks and none is freed twice.  *)
HeapAccounted ==
  LET queued == {tx_send_queue[i].data : i \in DOMAIN tx_send_queue}
      taken  == IF pc = "free" THEN {send_packet.data} ELSE {}
  IN /\ allocated = queued \cup taken
     /\ Cardinality(allocated) = Len(tx_send_queue) + Cardinality(taken)

(* The queue holds the latest messages, in order and with their contents   *)
(* untouched: what is dropped, by the thread or by the producer, is always *)
(* the oldest (on_packet_received against k_msgq_get in the loop).         *)
NewestKept ==
  \A i \in DOMAIN tx_send_queue :
    /\ mem[tx_send_queue[i].data] = Count - Len(tx_send_queue) + i
    /\ tx_send_queue[i].length = lengths[Count - Len(tx_send_queue) + i]

(* Every message leaves the queue, once failures have ceased (the retry    *)
(* loop of tcp_client_thread).                                             *)
QueueDrains == tx_send_queue # <<>> ~> tx_send_queue = <<>>

(* As long as the queue had room for every message, the block do_tcp_send  *)
(* reads is the oldest message, still allocated (k_msgq_peek in the loop   *)
(* against k_msgq_put and k_free in on_packet_received).                   *)
SendsOldest ==
  ~dropped /\ pc \in {"send", "failed", "get"} =>
    /\ tx_send_queue # <<>>
    /\ send_packet = Head(tx_send_queue)
    /\ send_packet.data \in allocated

(* Message m in one piece on a connection.                                 *)
Whole(m) == [k \in 1 .. lengths[m] |-> <<m, k>>]

OnWire(m, w) ==
  \E i \in 0 .. Len(w) - lengths[m] :
    SubSeq(w, i + 1, i + lengths[m]) = Whole(m)

Sent(m) == OnWire(m, wire) \/ \E c \in DOMAIN wires : OnWire(m, wires[c])

(* Then also every message that was queued is still in the queue or was    *)
(* handed to one connection in one piece, whichever calls of send and poll *)
(* fail (the loop deletes a message only when send took all of it).        *)
NothingLost ==
  ~dropped => \A m \in 1 .. Count - Len(tx_send_queue) : Sent(m)

(* And messages are never overtaken on a connection: the numbers of the    *)
(* messages whose bytes are handed to TCP only grow (do_tcp_send always    *)
(* goes back to the head of the queue).                                    *)
WireOrdered ==
  ~dropped => \A i \in 1 .. Len(wire) - 1 : wire[i][1] <= wire[i + 1][1]

(* "send successfully, delete the queue message and free memory": what is  *)
(* deleted is what was sent.                                               *)
DeletesWhatItSent ==
  pc = "free" => Sent(Count - Len(tx_send_queue))
=============================================================================
