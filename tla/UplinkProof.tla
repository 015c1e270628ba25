---------------------------- MODULE UplinkProof ----------------------------
(***************************************************************************)
(* Theorems about Uplink, for every heap, every queue length, messages of  *)
(* any length and any number of failures.                                  *)
(***************************************************************************)
EXTENDS Uplink, FiniteSetTheorems, FunctionTheorems, SequenceTheorems, TLAPS

-----------------------------------------------------------------------------
(* Types, with what the thread has in hand.                                *)
SenderLocal ==
  /\ pc \in {"send", "failed", "get", "free"} => send_packet \in Message
  /\ pc \in {"send", "failed", "get"} => tx_send_queue # <<>>
  /\ pc = "send" => offset <= send_packet.length

TypeInv == TypeOK /\ SenderLocal

Queued == {tx_send_queue[i].data : i \in 1 .. Len(tx_send_queue)}

Taken == IF pc = "free" THEN {send_packet.data} ELSE {}

(* Every block in use has one owner.                                       *)
HeapInv ==
  /\ allocated = Queued \cup Taken
  /\ Queued \cap Taken = {}
  /\ \A i, j \in 1 .. Len(tx_send_queue) :
       tx_send_queue[i].data = tx_send_queue[j].data => i = j

(* The queue holds messages that were queued, the newest.                  *)
QueueInv == Len(tx_send_queue) <= Count /\ NewestKept

(* The number of the message at the head of the queue.                     *)
Oldest == Count - Len(tx_send_queue) + 1

(* As long as nothing was dropped, the thread has the head of the queue,   *)
(* and the bytes of it that were taken are the last on the wire.           *)
HeadInv ==
  pc \in {"send", "failed", "get"} => send_packet = tx_send_queue[1]

TailInv ==
  pc = "send" =>
    /\ offset <= Len(wire)
    /\ \A k \in 1 .. offset : wire[Len(wire) - offset + k] = <<Oldest, k>>

OrderInv ==
  /\ \A i \in 1 .. Len(wire) : wire[i][1] <= Oldest
  /\ \A i \in 1 .. Len(wire) - 1 : wire[i][1] <= wire[i + 1][1]

SentInv == \A m \in 1 .. Oldest : m < Oldest \/ pc = "get" => Sent(m)

DeliveryInv == ~dropped => HeadInv /\ TailInv /\ OrderInv /\ SentInv

-----------------------------------------------------------------------------
(* Queue operations by index.  A full queue loses its first message.       *)
Gone == IF Full THEN 1 ELSE 0

(* tx_send_queue, by index.                                                *)
LEMMA QueueType ==
  ASSUME TypeInv
  PROVE  /\ tx_send_queue \in Seq(Message)
         /\ Len(tx_send_queue) \in Nat /\ Len(tx_send_queue) <= QueueLen
         /\ \A i \in 1 .. Len(tx_send_queue) :
              /\ tx_send_queue[i] \in Message
              /\ tx_send_queue[i].data \in Addrs
              /\ tx_send_queue[i].length \in Nat
<1>1. tx_send_queue \in Seq(Message) /\ Len(tx_send_queue) <= QueueLen
  BY DEF TypeInv, TypeOK
<1>2. Len(tx_send_queue) \in Nat
  BY <1>1, LenProperties
<1>3. \A i \in 1 .. Len(tx_send_queue) : tx_send_queue[i] \in Message
  BY <1>1, ElementOfSeq
<1>4. QED BY <1>1, <1>2, <1>3 DEF Message

(* What Tail leaves of a queue that is not empty.                          *)
LEMMA TailByIndex ==
  ASSUME TypeInv, tx_send_queue # <<>>
  PROVE  /\ Len(tx_send_queue) > 0
         /\ Head(tx_send_queue) = tx_send_queue[1]
         /\ Tail(tx_send_queue) \in Seq(Message)
         /\ Len(Tail(tx_send_queue)) = Len(tx_send_queue) - 1
         /\ \A i \in 1 .. Len(tx_send_queue) - 1 :
              Tail(tx_send_queue)[i] = tx_send_queue[i + 1]
<1>1. tx_send_queue \in Seq(Message) /\ Len(tx_send_queue) \in Nat
  BY QueueType
<1>2. Len(tx_send_queue) > 0
  BY <1>1, EmptySeq
<1>3. QED BY <1>1, <1>2, HeadTailProperties

(* What stays of the queue in on_packet_received.                          *)
LEMMA KeptByIndex ==
  ASSUME TypeInv
  PROVE  /\ Gone \in {0, 1} /\ Gone <= Len(tx_send_queue)
         /\ Kept \in Seq(Message)
         /\ Len(Kept) = Len(tx_send_queue) - Gone /\ Len(Kept) < QueueLen
         /\ \A i \in 1 .. Len(Kept) : Kept[i] = tx_send_queue[i + Gone]
<1>1. /\ tx_send_queue \in Seq(Message) /\ Len(tx_send_queue) \in Nat
      /\ Len(tx_send_queue) <= QueueLen
  BY QueueType
<1>2. QueueLen \in Nat \ {0}
  BY ConstantsAssumption
<1>3. CASE Full
  <2>1. tx_send_queue # <<>>
    BY <1>1, <1>2, <1>3, EmptySeq DEF Full
  <2>2. QED BY <1>1, <1>2, <1>3, <2>1, TailByIndex DEF Full, Gone, Kept
<1>4. CASE ~ Full
  BY <1>1, <1>2, <1>4 DEF Full, Gone, Kept
<1>5. QED BY <1>3, <1>4

(* The queue after on_packet_received.                                     *)
LEMMA ReceivedByIndex ==
  ASSUME TypeInv, NEW new \in Message, tx_send_queue' = Append(Kept, new)
  PROVE  /\ tx_send_queue' \in Seq(Message)
         /\ Len(tx_send_queue') = Len(tx_send_queue) - Gone + 1
         /\ Len(tx_send_queue') <= QueueLen
         /\ \A i \in 1 .. Len(tx_send_queue) - Gone :
              tx_send_queue'[i] = tx_send_queue[i + Gone]
         /\ tx_send_queue'[Len(tx_send_queue) - Gone + 1] = new
<1>1. /\ Gone \in {0, 1} /\ Gone <= Len(tx_send_queue)
      /\ Kept \in Seq(Message)
      /\ Len(Kept) = Len(tx_send_queue) - Gone /\ Len(Kept) < QueueLen
      /\ \A i \in 1 .. Len(Kept) : Kept[i] = tx_send_queue[i + Gone]
  BY KeptByIndex
<1>2. QueueLen \in Nat /\ Len(tx_send_queue) \in Nat
  BY ConstantsAssumption, QueueType
<1> HIDE DEF Kept, Gone
<1>3. /\ tx_send_queue' \in Seq(Message)
      /\ Len(tx_send_queue') = Len(Kept) + 1
      /\ \A i \in 1 .. Len(Kept) : tx_send_queue'[i] = Kept[i]
      /\ tx_send_queue'[Len(Kept) + 1] = new
  BY <1>1, AppendProperties
<1>4. QED BY <1>1, <1>2, <1>3

(* The lengths of the messages queued so far.                              *)
LEMMA LengthsType ==
  ASSUME TypeInv
  PROVE  lengths \in Seq(Nat) /\ Count \in Nat
  BY LenProperties DEF TypeInv, TypeOK, Count

(* A packet that is received gets the next number.                         *)
LEMMA LengthsGrow ==
  ASSUME TypeInv, NEW length \in Nat, lengths' = Append(lengths, length)
  PROVE  /\ lengths' \in Seq(Nat) /\ Count' = Count + 1
         /\ \A m \in 1 .. Count : lengths'[m] = lengths[m]
         /\ lengths'[Count + 1] = length
  BY LengthsType, AppendProperties DEF Count

-----------------------------------------------------------------------------
(* Types.                                                                  *)

(* The bytes one call of send puts on the wire.                            *)
LEMMA BytesType ==
  ASSUME TypeInv, NEW a \in Addrs, NEW from \in Nat, NEW n \in Nat
  PROVE  /\ BytesAt(a, from, from + n) \in Seq(Byte)
         /\ Len(BytesAt(a, from, from + n)) = n
         /\ \A k \in 1 .. n :
              BytesAt(a, from, from + n)[k] = <<mem[a], from + k>>
<1>1. BytesAt(a, from, from + n) = [k \in 1 .. n |-> <<mem[a], from + k>>]
  <2>1. from + n - from = n
    OBVIOUS
  <2>2. QED BY <2>1 DEF BytesAt
<1>2. mem[a] \in Nat
  BY DEF TypeInv, TypeOK
<1>3. \A k \in 1 .. n : <<mem[a], from + k>> \in Byte
  BY <1>2 DEF Byte
<1> DEFINE b == [k \in 1 .. n |-> <<mem[a], from + k>>]
<1>4. b \in Seq(Byte) /\ Len(b) = n
  <2>1. b \in [1 .. n -> Byte]
    BY <1>3
  <2>2. QED BY <2>1, SeqDef, LenProperties, SMTT(20)
<1>5. \A k \in 1 .. n : b[k] = <<mem[a], from + k>>
  OBVIOUS
<1>6. QED BY <1>1, <1>4, <1>5

(* Types at the start, ...                                                 *)
LEMMA InitTypeInv == Init => TypeInv
<1> SUFFICES ASSUME Init PROVE TypeInv
  OBVIOUS
<1>1. /\ tx_send_queue = <<>> /\ lengths = <<>> /\ wire = <<>> /\ wires = <<>>
      /\ allocated = {} /\ mem = [a \in Addrs |-> 0] /\ dropped = FALSE
      /\ pc = "peek" /\ send_packet = NoMessage /\ offset = 0 /\ ret = 0
      /\ resend_count = 0 /\ failures = 0 /\ partials = 0
  BY DEF Init
<1>2. tx_send_queue \in Seq(Message) /\ Len(tx_send_queue) <= QueueLen
  BY <1>1, ConstantsAssumption, EmptySeq
<1>3. lengths \in Seq(Nat) /\ wire \in Seq(Byte) /\ wires \in Seq(Seq(Byte))
  BY <1>1, EmptySeq
<1>4. mem \in [Addrs -> Nat] /\ dropped \in BOOLEAN
  BY <1>1
<1>5. TypeOK
  BY <1>1, <1>2, <1>3, <1>4 DEF TypeOK
<1>6. SenderLocal
  BY <1>1 DEF SenderLocal
<1>7. QED BY <1>5, <1>6 DEF TypeInv

(* ... after a packet is received, ...                                     *)
LEMMA TypeReceive ==
  ASSUME TypeInv, OnPacketReceived
  PROVE  TypeInv'
<1>1. PICK a \in Addrs \ allocated, length \in Lengths :
        /\ tx_send_queue' = Append(Kept, [data |-> a, length |-> length])
        /\ allocated' = (allocated \cup {a}) \ Freed
        /\ mem' = [mem EXCEPT ![a] = Count + 1]
        /\ lengths' = Append(lengths, length)
  BY DEF OnPacketReceived
<1>2. length \in Nat /\ [data |-> a, length |-> length] \in Message
  BY ConstantsAssumption DEF Message
<1>3. /\ tx_send_queue' \in Seq(Message) /\ Len(tx_send_queue') <= QueueLen
      /\ Len(tx_send_queue') = Len(tx_send_queue) - Gone + 1
  BY <1>1, <1>2, ReceivedByIndex
<1>4. tx_send_queue' # <<>>
  BY <1>3, KeptByIndex, QueueType, EmptySeq
<1>5. /\ allocated' \in SUBSET Addrs /\ mem' \in [Addrs -> Nat]
      /\ lengths' \in Seq(Nat)
  BY <1>1, <1>2, LengthsType, LengthsGrow DEF TypeInv, TypeOK
<1>6. dropped' \in BOOLEAN
  BY Zenon DEF OnPacketReceived, TypeInv, TypeOK
<1>7. UNCHANGED <<sender, tcp>>
  BY DEF OnPacketReceived
<1>8. SenderLocal'
  BY <1>4, <1>7 DEF TypeInv, SenderLocal, sender
<1>9. TypeOK'
  BY <1>3, <1>5, <1>6, <1>7 DEF TypeInv, TypeOK, sender, tcp
<1>10. QED BY <1>8, <1>9 DEF TypeInv

(* ... after a step of the sender, ...                                     *)
LEMMA TypeSender ==
  ASSUME TypeInv, Sender \/ PollError \/ SendFails \/ UNCHANGED vars
  PROVE  TypeInv'
<1>1. CASE Peek
  BY <1>1, TailByIndex, QueueType
  DEF Peek, TypeInv, TypeOK, SenderLocal, producer, tcp
<1>2. CASE Send
  <2>1. send_packet \in Message /\ send_packet.data \in Addrs
        /\ send_packet.length \in Nat /\ offset \in Nat
    BY <1>2 DEF Send, TypeInv, TypeOK, SenderLocal, Message
  <2>2. PICK n \in 1 .. send_packet.length - offset :
          /\ partials' = partials
               + (IF n < send_packet.length - offset THEN 1 ELSE 0)
          /\ wire' = wire \o BytesAt(send_packet.data, offset, offset + n)
          /\ offset' = offset + n
          /\ ret' = n
    BY <1>2 DEF Send
  <2>3. BytesAt(send_packet.data, offset, offset + n) \in Seq(Byte)
    BY <2>1, BytesType
  <2>4. wire' \in Seq(Byte)
    BY <2>2, <2>3, ConcatProperties DEF TypeInv, TypeOK
  <2>5. QED BY <1>2, <2>1, <2>2, <2>4
    DEF Send, TypeInv, TypeOK, SenderLocal, producer
<1>3. CASE SendDone
  BY <1>3 DEF SendDone, TypeInv, TypeOK, SenderLocal, producer, tcp
<1>4. CASE Failed
  BY <1>4 DEF Failed, TypeInv, TypeOK, SenderLocal, producer, tcp
<1>5. CASE PollError
  BY <1>5 DEF PollError, TypeInv, TypeOK, SenderLocal, producer
<1>6. CASE SendFails
  BY <1>6 DEF SendFails, TypeInv, TypeOK, SenderLocal, producer
<1>7. CASE Get
  <2>1. tx_send_queue # <<>>
    BY <1>7 DEF Get, TypeInv, SenderLocal
  <2>2. send_packet' \in Message /\ tx_send_queue' \in Seq(Message)
        /\ Len(tx_send_queue') <= QueueLen
    BY <1>7, <2>1, TailByIndex, QueueType, ConstantsAssumption DEF Get
  <2>3. QED BY <1>7, <2>2
    DEF Get, TypeInv, TypeOK, SenderLocal, producer, tcp
<1>8. CASE Free
  BY <1>8 DEF Free, TypeInv, TypeOK, SenderLocal, tcp
<1>9. CASE Retry
  BY <1>9, AppendProperties, EmptySeq
  DEF Retry, TypeInv, TypeOK, SenderLocal, producer
<1>10. CASE UNCHANGED vars
  BY <1>10
  DEF vars, producer, sender, tcp, TypeInv, TypeOK, SenderLocal
<1>11. QED
  BY <1>1, <1>2, <1>3, <1>7, <1>8, <1>9, <1>10, <1>4, <1>5, <1>6 DEF Sender

(* ... and after any.                                                      *)
LEMMA NextTypeInv == TypeInv /\ [Next]_vars => TypeInv'
  BY TypeReceive, TypeSender DEF Next

(* The variables keep their types; in particular tx_send_queue never holds *)
(* more than QueueLen messages, and the thread never reads an empty queue. *)
THEOREM TypeCorrect == Spec => []TypeOK
<1>1. TypeInv => TypeOK
  BY DEF TypeInv
<1>2. QED BY <1>1, InitTypeInv, NextTypeInv, PTL DEF Spec

-----------------------------------------------------------------------------
(* The heap.                                                               *)
LEMMA InitHeapInv == Init => HeapInv
<1> SUFFICES ASSUME Init PROVE HeapInv
  OBVIOUS
<1>1. /\ tx_send_queue = <<>> /\ allocated = {} /\ pc = "peek"
  BY DEF Init
<1>2. Len(tx_send_queue) = 0
  BY <1>1
<1>3. QED BY <1>1, <1>2 DEF HeapInv, Queued, Taken

(* A new block is nobody's, and the block that goes is the first's.        *)
LEMMA HeapReceive ==
  ASSUME TypeInv, HeapInv, OnPacketReceived
  PROVE  HeapInv'
<1>1. PICK a \in Addrs \ allocated, length \in Lengths :
        /\ tx_send_queue' = Append(Kept, [data |-> a, length |-> length])
        /\ allocated' = (allocated \cup {a}) \ Freed
  BY DEF OnPacketReceived
<1> DEFINE q == tx_send_queue
           new == [data |-> a, length |-> length]
           last == Len(q) - Gone + 1
<1>2. new \in Message /\ new.data = a
  BY <1>1, ConstantsAssumption DEF Message
<1>3. /\ Len(q') = last
      /\ \A i \in 1 .. Len(q) - Gone : q'[i] = q[i + Gone]
      /\ q'[last] = new
  BY <1>1, <1>2, ReceivedByIndex
<1>4. /\ Gone \in {0, 1} /\ Gone <= Len(q) /\ Len(q) \in Nat
      /\ \A i \in 1 .. Len(q) : q[i].data \in Addrs
  BY KeptByIndex, QueueType
<1>5. Taken' = Taken
  BY DEF OnPacketReceived, sender, Taken
<1>6. a \notin Queued /\ a \notin Taken
  BY <1>1 DEF HeapInv
<1>7. \A i \in 1 .. Len(q) : q[i].data # a
  BY <1>6 DEF Queued
<1>8. \A i, j \in 1 .. Len(q) : q[i].data = q[j].data => i = j
  BY DEF HeapInv
<1> DEFINE Stay == {q[i + Gone].data : i \in 1 .. Len(q) - Gone}
<1>9. Queued' = Stay \cup {a}
  <2>1. Queued' = {q'[i].data : i \in 1 .. last}
    BY <1>3 DEF Queued
  <2>2. \A i \in 1 .. last : i \in 1 .. Len(q) - Gone \/ i = last
    BY <1>4
  <2>3. \A i \in 1 .. Len(q) - Gone : i \in 1 .. last
    BY <1>4
  <2>4. last \in 1 .. last
    BY <1>4
  <2> HIDE DEF q, last, new
  <2>5. \A x \in Queued' : x \in Stay \cup {a}
    BY <2>1, <2>2, <1>2, <1>3
  <2>6. \A x \in Stay \cup {a} : x \in Queued'
    BY <2>1, <2>3, <2>4, <1>2, <1>3
  <2>7. QED BY <2>5, <2>6
<1>10. Queued = Stay \cup Freed
  <2>1. CASE Full
    <3>1. Gone = 1 /\ Freed = {q[1].data}
      <4>1. q # <<>> /\ Gone = 1
        BY <1>4, <2>1, ConstantsAssumption, EmptySeq DEF Full, Gone
      <4>2. QED BY <2>1, <4>1, TailByIndex DEF Freed
    <3>2. 1 \in 1 .. Len(q)
      BY <1>4, <3>1
    <3>3. \A i \in 1 .. Len(q) : i = 1 \/ i - 1 \in 1 .. Len(q) - 1
      BY <1>4
    <3>4. \A i \in 1 .. Len(q) - 1 : i + 1 \in 1 .. Len(q)
      BY <1>4
    <3>5. \A i \in 1 .. Len(q) : (i - 1) + 1 = i
      BY <1>4
    <3>6. \A x \in Queued : x \in Stay \cup Freed
      BY <3>1, <3>3, <3>5 DEF Queued
    <3>7. \A x \in Stay \cup Freed : x \in Queued
      BY <3>1, <3>2, <3>4 DEF Queued
    <3>8. QED BY <3>6, <3>7
  <2>2. CASE ~ Full
    <3>1. Gone = 0 /\ Freed = {}
      BY <2>2 DEF Gone, Freed
    <3>2. \A i \in 1 .. Len(q) : i + 0 = i
      OBVIOUS
    <3>3. Len(q) - 0 = Len(q)
      BY <1>4
    <3>4. QED BY <3>1, <3>2, <3>3 DEF Queued
  <2>3. QED BY <2>1, <2>2
<1>11. Stay \cap Freed = {}
  <2>1. CASE Full
    <3>1. Gone = 1 /\ Freed = {q[1].data}
      <4>1. q # <<>> /\ Gone = 1
        BY <1>4, <2>1, ConstantsAssumption, EmptySeq DEF Full, Gone
      <4>2. QED BY <2>1, <4>1, TailByIndex DEF Freed
    <3>2. \A i \in 1 .. Len(q) - 1 : q[i + 1].data # q[1].data
      BY <1>4, <1>8
    <3>3. QED BY <3>1, <3>2
  <2>2. CASE ~ Full
    BY <2>2 DEF Freed
  <2>3. QED BY <2>1, <2>2
<1>12. a \notin Freed /\ Freed \subseteq Queued
  BY <1>6, <1>10
<1>13. allocated' = Queued' \cup Taken'
  BY <1>1, <1>5, <1>9, <1>10, <1>11, <1>12 DEF HeapInv
<1>14. Queued' \cap Taken' = {}
  BY <1>5, <1>6, <1>9, <1>10 DEF HeapInv
<1>15. ASSUME NEW i \in 1 .. last, NEW j \in 1 .. last,
              q'[i].data = q'[j].data
       PROVE  i = j
  <2>1. \A k \in 1 .. last : k = last \/ k \in 1 .. Len(q) - Gone
    BY <1>4
  <2>2. \A k \in 1 .. Len(q) - Gone : k + Gone \in 1 .. Len(q)
    BY <1>4
  <2>3. \A k \in 1 .. Len(q) - Gone : q'[k].data # a
    BY <1>3, <1>7, <2>2
  <2>4. q'[last].data = a
    BY <1>2, <1>3
  <2>5. CASE i = last \/ j = last
    BY <1>15, <2>1, <2>3, <2>4, <2>5
  <2>6. CASE i \in 1 .. Len(q) - Gone /\ j \in 1 .. Len(q) - Gone
    <3>1. q[i + Gone].data = q[j + Gone].data
      BY <1>3, <1>15, <2>6
    <3>2. i + Gone = j + Gone
      BY <1>8, <2>2, <2>6, <3>1
    <3>3. QED BY <1>4, <2>6, <3>2
  <2>7. QED BY <2>1, <2>5, <2>6
<1>16. QED
  BY <1>3, <1>13, <1>14, <1>15 DEF HeapInv

(* k_msgq_get: the block of the first message is the thread's.             *)
LEMMA HeapGet ==
  ASSUME TypeInv, HeapInv, Get
  PROVE  HeapInv'
<1> DEFINE q == tx_send_queue
<1>1. /\ q # <<>> /\ pc = "get" /\ pc' = "free" /\ allocated' = allocated
      /\ send_packet' = Head(q) /\ q' = Tail(q)
  BY DEF Get, TypeInv, SenderLocal, producer
<1>2. /\ Len(q) \in Nat /\ Len(q) > 0 /\ Head(q) = q[1] /\ Len(q') = Len(q) - 1
      /\ \A i \in 1 .. Len(q) - 1 : q'[i] = q[i + 1]
  BY <1>1, TailByIndex, QueueType
<1>3. \A i, j \in 1 .. Len(q) : q[i].data = q[j].data => i = j
  BY DEF HeapInv
<1>4. Taken' = {q[1].data} /\ Taken = {}
  BY <1>1, <1>2 DEF Taken
<1> DEFINE Stay == {q[i + 1].data : i \in 1 .. Len(q) - 1}
<1>5. Queued' = Stay
  BY <1>2 DEF Queued
<1>6. Queued = Stay \cup {q[1].data}
  <2>1. 1 \in 1 .. Len(q)
    BY <1>2
  <2>2. \A i \in 1 .. Len(q) : i = 1 \/ i - 1 \in 1 .. Len(q) - 1
    BY <1>2
  <2>3. \A i \in 1 .. Len(q) - 1 : i + 1 \in 1 .. Len(q)
    BY <1>2
  <2>4. \A i \in 1 .. Len(q) : (i - 1) + 1 = i
    BY <1>2
  <2>5. \A x \in Queued : x \in Stay \cup {q[1].data}
    BY <2>2, <2>4 DEF Queued
  <2>6. \A x \in Stay \cup {q[1].data} : x \in Queued
    BY <2>1, <2>3 DEF Queued
  <2>7. QED BY <2>5, <2>6
<1>7. q[1].data \notin Stay
  <2>1. \A i \in 1 .. Len(q) - 1 : q[i + 1].data # q[1].data
    BY <1>2, <1>3
  <2>2. QED BY <2>1
<1>8. \A i, j \in 1 .. Len(q) - 1 : q'[i].data = q'[j].data => i = j
  BY <1>2, <1>3
<1>9. QED
  BY <1>1, <1>2, <1>4, <1>5, <1>6, <1>7, <1>8 DEF HeapInv

(* Steps that neither allocate nor free.                                   *)
LEMMA HeapOther ==
  ASSUME TypeInv, HeapInv,
         \/ Peek \/ Send \/ SendDone \/ Failed \/ Free \/ Retry
         \/ PollError \/ SendFails \/ UNCHANGED vars
  PROVE  HeapInv'
<1>1. tx_send_queue' = tx_send_queue /\ Queued' = Queued
  BY DEF Peek, Send, SendDone, Failed, Free, Retry, PollError, SendFails, vars,
         Queued
<1>2. CASE Free
  <2>1. Taken' = {} /\ Taken = {send_packet.data}
        /\ allocated' = allocated \ {send_packet.data}
    BY <1>2 DEF Free, Taken
  <2>2. QED BY <1>1, <2>1 DEF HeapInv
<1>3. CASE \/ Peek \/ Send \/ SendDone \/ Failed \/ Retry
           \/ PollError \/ SendFails
  <2>1. Taken = {} /\ Taken' = {} /\ allocated' = allocated
    BY <1>3 DEF Peek, Send, SendDone, Failed, Retry, PollError, SendFails,
                Taken, producer
  <2>2. QED BY <1>1, <2>1 DEF HeapInv
<1>4. CASE UNCHANGED vars
  <2>1. Taken' = Taken /\ allocated' = allocated
    BY <1>4 DEF vars, sender, producer, Taken
  <2>2. QED BY <1>1, <2>1 DEF HeapInv
<1>5. QED BY <1>2, <1>3, <1>4

(* Every step keeps the heap accounted for.                                *)
LEMMA NextHeapInv == TypeInv /\ HeapInv /\ [Next]_vars => HeapInv'
  BY HeapReceive, HeapGet, HeapOther DEF Next, Sender

(* The number of blocks: as many in the queue as it has messages, and the  *)
(* one the thread took.                                                    *)
LEMMA HeapCounted == TypeInv /\ HeapInv => HeapAccounted
<1> SUFFICES ASSUME TypeInv, HeapInv PROVE HeapAccounted
  OBVIOUS
<1> DEFINE q == tx_send_queue
           D == 1 .. Len(q)
           f == [i \in D |-> q[i].data]
<1>1. Len(q) \in Nat /\ DOMAIN q = D
  BY QueueType, LenProperties
<1>2. f \in Bijection(D, Queued)
  <2>1. f \in [D -> Queued]
    BY DEF Queued
  <2>2. \A i, j \in D : f[i] = f[j] => i = j
    BY DEF HeapInv
  <2>3. \A x \in Queued : \E i \in D : f[i] = x
    BY DEF Queued
  <2> HIDE DEF f, D
  <2>4. QED BY <2>1, <2>2, <2>3, Fun_IsBij
<1>3. IsFiniteSet(Queued) /\ Cardinality(Queued) = Len(q)
  <2>1. ExistsBijection(D, Queued)
    <3> HIDE DEF f, D
    <3>1. QED BY <1>2 DEF ExistsBijection
  <2>2. IsFiniteSet(D) /\ Cardinality(D) = Len(q)
    <3>1. 1 \in Int /\ Len(q) \in Int
      BY <1>1
    <3>2. IsFiniteSet(1 .. Len(q))
      BY <3>1, FS_Interval
    <3>3. Cardinality(1 .. Len(q)) = IF 1 > Len(q) THEN 0 ELSE Len(q) - 1 + 1
      BY <3>1, FS_Interval
    <3>4. QED BY <1>1, <3>2, <3>3
  <2> HIDE DEF D
  <2>3. QED BY <2>1, <2>2, FS_Bijection
<1>4. IsFiniteSet(Taken) /\ Cardinality(Taken) \in Nat
  <2>1. IsFiniteSet(Taken)
    BY FS_EmptySet, FS_Singleton DEF Taken
  <2>2. QED BY <2>1, FS_CardinalityType
<1>5. Queued \cap Taken = {} /\ allocated = Queued \cup Taken
  BY DEF HeapInv
<1>6. Cardinality(Queued \cup Taken)
        = Cardinality(Queued) + Cardinality(Taken) - Cardinality({})
  BY <1>3, <1>4, <1>5, FS_Union
<1>7. Cardinality({}) = 0
  BY FS_EmptySet
<1>8. Cardinality(allocated) = Len(q) + Cardinality(Taken)
  BY <1>1, <1>3, <1>4, <1>5, <1>6, <1>7
<1>9. Queued = {q[i].data : i \in DOMAIN q}
  BY <1>1 DEF Queued
<1>10. QED BY <1>5, <1>8, <1>9 DEF HeapAccounted, Taken

(* Every block on the heap has exactly one owner: a place in tx_send_queue *)
(* or the thread between k_msgq_get and k_free, whatever on_packet_re-  *)
(* ceived drops meanwhile.                                                 *)
THEOREM HeapOwned == Spec => []HeapAccounted
<1>1. Init => TypeInv /\ HeapInv
  BY InitTypeInv, InitHeapInv
<1>2. TypeInv /\ HeapInv /\ [Next]_vars => (TypeInv /\ HeapInv)'
  BY NextTypeInv, NextHeapInv
<1>3. QED BY <1>1, <1>2, HeapCounted, PTL DEF Spec

-----------------------------------------------------------------------------
(* The contents of the queue.                                              *)
LEMMA InitQueueInv == Init => QueueInv
<1> SUFFICES ASSUME Init PROVE QueueInv
  OBVIOUS
<1>1. tx_send_queue = <<>> /\ lengths = <<>>
  BY DEF Init
<1>2. Len(tx_send_queue) = 0 /\ Count = 0 /\ DOMAIN tx_send_queue = {}
  BY <1>1 DEF Count
<1>3. QED BY <1>2 DEF QueueInv, NewestKept

(* The queue is indexed from 1.                                            *)
LEMMA QueueDomain ==
  ASSUME TypeInv
  PROVE  DOMAIN tx_send_queue = 1 .. Len(tx_send_queue)
  BY QueueType, LenProperties

(* A packet that is received is the newest of the queue.                   *)
LEMMA QueueReceive ==
  ASSUME TypeInv, HeapInv, QueueInv, OnPacketReceived
  PROVE  QueueInv'
<1>1. PICK a \in Addrs \ allocated, length \in Lengths :
        /\ tx_send_queue' = Append(Kept, [data |-> a, length |-> length])
        /\ mem' = [mem EXCEPT ![a] = Count + 1]
        /\ lengths' = Append(lengths, length)
  BY DEF OnPacketReceived
<1> DEFINE q == tx_send_queue
           new == [data |-> a, length |-> length]
           last == Len(q) - Gone + 1
<1>2. new \in Message /\ new.data = a /\ new.length = length /\ length \in Nat
  BY <1>1, ConstantsAssumption DEF Message
<1>3. /\ Len(q') = last /\ q' \in Seq(Message)
      /\ \A i \in 1 .. Len(q) - Gone : q'[i] = q[i + Gone]
      /\ q'[last] = new
  BY <1>1, <1>2, ReceivedByIndex
<1>4. /\ Gone \in {0, 1} /\ Gone <= Len(q) /\ Len(q) \in Nat
      /\ \A i \in 1 .. Len(q) : q[i].data \in Addrs
      /\ Count \in Nat /\ Len(q) <= Count
  BY KeptByIndex, QueueType, LengthsType DEF QueueInv
<1>5. /\ Count' = Count + 1 /\ lengths'[Count + 1] = length
      /\ \A m \in 1 .. Count : lengths'[m] = lengths[m]
  BY <1>1, <1>2, LengthsGrow
<1>6. \A i \in 1 .. Len(q) : q[i].data # a
  BY <1>1 DEF HeapInv, Queued
<1>7. mem \in [Addrs -> Nat]
  BY DEF TypeInv, TypeOK
<1>8. \A i \in 1 .. Len(q) :
        /\ mem[q[i].data] = Count - Len(q) + i
        /\ q[i].length = lengths[Count - Len(q) + i]
  BY QueueDomain DEF QueueInv, NewestKept
<1>9. DOMAIN q' = 1 .. last
  BY <1>3, LenProperties
<1>10. ASSUME NEW i \in 1 .. last
       PROVE  /\ mem'[q'[i].data] = Count + 1 - last + i
              /\ q'[i].length = lengths'[Count + 1 - last + i]
  <2>1. CASE i = last
    <3>1. Count + 1 - last + i = Count + 1
      BY <1>4, <2>1
    <3>2. q'[i].data = a /\ q'[i].length = length
      BY <1>2, <1>3, <2>1
    <3>3. mem'[a] = Count + 1
      BY <1>1, <1>7
    <3>4. QED BY <1>5, <3>1, <3>2, <3>3
  <2>2. CASE i # last
    <3>1. i \in 1 .. Len(q) - Gone /\ i + Gone \in 1 .. Len(q)
      BY <1>4, <2>2
    <3>2. q'[i] = q[i + Gone]
      BY <1>3, <3>1
    <3>3. mem'[q[i + Gone].data] = mem[q[i + Gone].data]
      BY <1>1, <1>4, <1>6, <1>7, <3>1
    <3> DEFINE m == Count - Len(q) + (i + Gone)
    <3>4. Count + 1 - last + i = m
      BY <1>4
    <3>5. m \in 1 .. Count
      BY <1>4, <3>1
    <3>6. mem[q[i + Gone].data] = m /\ q[i + Gone].length = lengths[m]
      BY <1>8, <3>1
    <3> HIDE DEF m, last, q
    <3>7. QED BY <1>5, <3>2, <3>3, <3>4, <3>5, <3>6
  <2>3. QED BY <2>1, <2>2
<1>11. last <= Count + 1
  BY <1>4
<1>12. Len(q') <= Count'
  BY <1>3, <1>5, <1>11
<1>13. Count' - Len(q') = Count + 1 - last
  BY <1>3, <1>4, <1>5
<1>14. \A i \in DOMAIN q' : /\ mem'[q'[i].data] = Count' - Len(q') + i
                          /\ q'[i].length = lengths'[Count' - Len(q') + i]
  BY <1>9, <1>10, <1>13, Zenon
<1>15. QED BY <1>12, <1>14, Zenon DEF QueueInv, NewestKept

(* The sender takes the oldest one from it.                                *)
LEMMA QueueGet ==
  ASSUME TypeInv, QueueInv, Get
  PROVE  QueueInv'
<1> DEFINE q == tx_send_queue
<1>1. /\ q # <<>> /\ mem' = mem /\ lengths' = lengths /\ Count' = Count
      /\ q' = Tail(q)
  BY DEF Get, TypeInv, SenderLocal, producer, Count
<1>2. /\ Len(q) \in Nat /\ Len(q) > 0 /\ Len(q') = Len(q) - 1
      /\ q' \in Seq(Message)
      /\ \A i \in 1 .. Len(q) - 1 : q'[i] = q[i + 1]
  BY <1>1, TailByIndex, QueueType
<1>3. Count \in Nat /\ Len(q) <= Count
  BY LengthsType DEF QueueInv
<1>4. \A i \in 1 .. Len(q) :
        /\ mem[q[i].data] = Count - Len(q) + i
        /\ q[i].length = lengths[Count - Len(q) + i]
  BY QueueDomain DEF QueueInv, NewestKept
<1>5. DOMAIN q' = 1 .. Len(q) - 1
  BY <1>2, LenProperties
<1>6. ASSUME NEW i \in 1 .. Len(q) - 1
      PROVE  /\ mem[q'[i].data] = Count - (Len(q) - 1) + i
             /\ q'[i].length = lengths[Count - (Len(q) - 1) + i]
  <2>1. i + 1 \in 1 .. Len(q) /\ q'[i] = q[i + 1]
    BY <1>2
  <2>2. Count - (Len(q) - 1) + i = Count - Len(q) + (i + 1)
    BY <1>2, <1>3
  <2>3. QED BY <1>4, <2>1, <2>2
<1>7. Len(q') <= Count
  BY <1>2, <1>3
<1>8. NewestKept'
  BY <1>1, <1>2, <1>5, <1>6 DEF NewestKept
<1>9. QED BY <1>1, <1>7, <1>8 DEF QueueInv

(* Every step keeps the newest packets.                                    *)
LEMMA NextQueueInv == TypeInv /\ HeapInv /\ QueueInv /\ [Next]_vars => QueueInv'
<1> SUFFICES ASSUME TypeInv, HeapInv, QueueInv, [Next]_vars PROVE QueueInv'
  OBVIOUS
<1>1. CASE \/ Peek \/ Send \/ SendDone \/ Failed \/ Free \/ Retry
           \/ PollError \/ SendFails \/ UNCHANGED vars
  <2>1. UNCHANGED <<tx_send_queue, mem, lengths>>
    BY <1>1 DEF Peek, Send, SendDone, Failed, Free, Retry, PollError, SendFails,
                vars, producer
  <2>2. QED BY <2>1 DEF QueueInv, NewestKept, Count
<1>2. QED BY <1>1, QueueReceive, QueueGet DEF Next, Sender

(* tx_send_queue holds the newest messages, in order and with the contents *)
(* they were queued with, whatever the thread and on_packet_received take  *)
(* off it and in whichever block the next message lands.                   *)
THEOREM QueueHoldsNewest == Spec => []NewestKept
<1>1. Init => TypeInv /\ HeapInv /\ QueueInv
  BY InitTypeInv, InitHeapInv, InitQueueInv
<1>2. TypeInv /\ HeapInv /\ QueueInv /\ [Next]_vars
        => (TypeInv /\ HeapInv /\ QueueInv)'
  BY NextTypeInv, NextHeapInv, NextQueueInv
<1>3. QueueInv => NewestKept
  BY DEF QueueInv
<1>4. QED BY <1>1, <1>2, <1>3, PTL DEF Spec

-----------------------------------------------------------------------------
(* Messages on the wire, by index.                                         *)

(* The bytes of message m, l of them, are somewhere on w in one piece.     *)
At(m, l, w) ==
  \E i \in 0 .. Len(w) - l : \A k \in 1 .. l : w[i + k] = <<m, k>>

(* OnWire compares sequences; At says the same byte by byte.               *)
LEMMA OnWireByIndex ==
  ASSUME NEW m, NEW w \in Seq(Byte), lengths[m] \in Nat
  PROVE  OnWire(m, w) <=> At(m, lengths[m], w)
<1> DEFINE l == lengths[m]
           s(i) == SubSeq(w, i + 1, i + l)
           whole == [k \in 1 .. l |-> <<m, k>>]
<1>1. Len(w) \in Nat /\ l \in Nat
  BY LenProperties
<1>2. ASSUME NEW i \in 0 .. Len(w) - l
      PROVE  s(i) = whole <=> \A k \in 1 .. l : w[i + k] = <<m, k>>
  <2>1. s(i) = [k \in 1 .. l |-> w[i + k]]
    <3>1. s(i) = [k \in 1 .. (i + l) - (i + 1) + 1 |-> w[(i + 1) + k - 1]]
      OBVIOUS
    <3>2. (i + l) - (i + 1) + 1 = l
      BY <1>1
    <3>3. \A k \in 1 .. l : (i + 1) + k - 1 = i + k
      BY <1>1
    <3>4. QED BY <3>1, <3>2, <3>3
  <2>2. QED BY <2>1
<1>3. OnWire(m, w) <=> \E i \in 0 .. Len(w) - l : s(i) = whole
  BY Zenon DEF OnWire, Whole
<1> HIDE DEF s, whole
<1>4. QED BY <1>2, <1>3, Zenon DEF At

(* A packet was sent if it is on a connection, this one or one before ...  *)
LEMMA SentByIndex ==
  TypeInv => \A m \in Nat : m \in 1 .. Count =>
    (Sent(m) <=> \/ At(m, lengths[m], wire)
                 \/ \E c \in 1 .. Len(wires) : At(m, lengths[m], wires[c]))
<1> SUFFICES ASSUME TypeInv, NEW m \in Nat, m \in 1 .. Count
    PROVE  Sent(m) <=> \/ At(m, lengths[m], wire)
                       \/ \E c \in 1 .. Len(wires) : At(m, lengths[m], wires[c])
  OBVIOUS
<1>1. lengths[m] \in Nat
  BY LengthsType, ElementOfSeq DEF Count
<1>2. wire \in Seq(Byte) /\ wires \in Seq(Seq(Byte))
  BY DEF TypeInv, TypeOK
<1>3. DOMAIN wires = 1 .. Len(wires)
  BY <1>2, LenProperties
<1>4. \A c \in 1 .. Len(wires) : wires[c] \in Seq(Byte)
  BY <1>2, ElementOfSeq
<1>5. OnWire(m, wire) <=> At(m, lengths[m], wire)
  BY <1>1, <1>2, OnWireByIndex
<1>6. \A c \in 1 .. Len(wires) :
        OnWire(m, wires[c]) <=> At(m, lengths[m], wires[c])
  BY <1>1, <1>4, OnWireByIndex
<1>7. QED BY <1>3, <1>5, <1>6, Zenon DEF Sent

(* ... and so after a step.                                                *)
LEMMA SentByIndexNext ==
  TypeInv' => (\A m \in Nat : m \in 1 .. Count =>
    (Sent(m) <=> \/ At(m, lengths[m], wire)
                 \/ \E c \in 1 .. Len(wires) : At(m, lengths[m], wires[c])))'
  BY SentByIndex, PTL

(* What was on a wire stays there when bytes follow.                       *)
LEMMA AtGrows ==
  ASSUME NEW m, NEW l \in Nat, NEW w \in Seq(Byte), NEW x \in Seq(Byte),
         At(m, l, w)
  PROVE  At(m, l, w \o x)
<1> DEFINE y == w \o x
<1>1. /\ Len(w) \in Nat /\ Len(x) \in Nat /\ Len(y) = Len(w) + Len(x)
      /\ \A i \in 1 .. Len(w) : y[i] = w[i]
  BY ConcatProperties, LenProperties
<1> HIDE DEF y
<1>2. PICK i \in 0 .. Len(w) - l : \A k \in 1 .. l : w[i + k] = <<m, k>>
  BY DEF At
<1>3. i \in 0 .. Len(y) - l
  BY <1>1
<1>4. \A k \in 1 .. l : i + k \in 1 .. Len(w)
  BY <1>1
<1>5. \A k \in 1 .. l : y[i + k] = <<m, k>>
  BY <1>1, <1>2, <1>4
<1>6. At(m, l, y)
  BY <1>3, <1>5 DEF At
<1>7. QED BY <1>6 DEF y

(* A message that was handed over stays handed over.                       *)
LEMMA SentStays ==
  ASSUME TypeInv, TypeInv', NEW m \in Nat, m \in 1 .. Count, m \in 1 .. Count',
         lengths'[m] = lengths[m], Sent(m),
         \/ UNCHANGED <<wire, wires>>
         \/ wires' = wires /\ (\E x \in Seq(Byte) : wire' = wire \o x)
         \/ wires' = Append(wires, wire)
  PROVE  Sent(m)'
<1> DEFINE l == lengths[m]
           Earlier == \E c \in 1 .. Len(wires) : At(m, l, wires[c])
           Later == \E c \in 1 .. Len(wires') : At(m, l, wires'[c])
<1>1. At(m, l, wire) \/ Earlier
  BY SentByIndex
<1>2. At(m, l, wire') \/ Later => Sent(m)'
  BY SentByIndexNext
<1>3. wire \in Seq(Byte) /\ wires \in Seq(Seq(Byte)) /\ l \in Nat
  BY LengthsType, ElementOfSeq DEF TypeInv, TypeOK, Count
<1>4. CASE UNCHANGED <<wire, wires>>
  BY <1>1, <1>2, <1>4
<1>5. CASE wires' = wires /\ (\E x \in Seq(Byte) : wire' = wire \o x)
  <2>1. At(m, l, wire) => At(m, l, wire')
    BY <1>3, <1>5, AtGrows
  <2>2. Earlier => Later
    BY <1>5
  <2>3. QED BY <1>1, <1>2, <2>1, <2>2
<1>6. CASE wires' = Append(wires, wire)
  <2>1. /\ Len(wires) \in Nat /\ Len(wires') = Len(wires) + 1
        /\ wires'[Len(wires) + 1] = wire
        /\ \A c \in 1 .. Len(wires) : wires'[c] = wires[c]
    BY <1>3, <1>6, AppendProperties, LenProperties
  <2>2. At(m, l, wire) => Later
    <3>1. Len(wires) + 1 \in 1 .. Len(wires')
      BY <2>1
    <3> HIDE DEF l
    <3>2. QED BY <2>1, <3>1
  <2>3. Earlier => Later
    <3>1. \A c \in 1 .. Len(wires) : c \in 1 .. Len(wires')
      BY <2>1
    <3> HIDE DEF l
    <3>2. QED BY <2>1, <3>1
  <2>4. QED BY <1>1, <1>2, <2>2, <2>3
<1>7. QED BY <1>4, <1>5, <1>6

-----------------------------------------------------------------------------
(* Delivery, as long as nothing was dropped.                               *)

(* The message at the head of the queue, and how many came before it.      *)
LEMMA HeadMessage ==
  ASSUME TypeInv, QueueInv
  PROVE  /\ Oldest \in Nat \ {0} /\ Oldest = Count - Len(tx_send_queue) + 1
         /\ \A m \in 1 .. Oldest : m \in Nat
         /\ \A m \in 1 .. Oldest : m < Oldest => m \in 1 .. Count
         /\ tx_send_queue # <<>> =>
              /\ Oldest \in Nat /\ Oldest \in 1 .. Count
              /\ mem[tx_send_queue[1].data] = Oldest
              /\ tx_send_queue[1].length = lengths[Oldest]
<1> DEFINE q == tx_send_queue
<1>1. Len(q) \in Nat /\ Count \in Nat /\ Len(q) <= Count
  BY QueueType, LengthsType DEF QueueInv
<1>2. DOMAIN q = 1 .. Len(q) /\ q \in Seq(Message)
  BY QueueType, QueueDomain
<1>3. Oldest \in Nat \ {0} /\ Oldest = Count - Len(q) + 1
  BY <1>1 DEF Oldest
<1>4. \A m \in 1 .. Oldest : m \in Nat /\ (m < Oldest => m \in 1 .. Count)
  BY <1>1, <1>3
<1>5. ASSUME q # <<>>
      PROVE  /\ Oldest \in 1 .. Count
             /\ mem[q[1].data] = Oldest
             /\ q[1].length = lengths[Oldest]
  <2>1. Len(q) > 0 /\ 1 \in DOMAIN q
    BY <1>1, <1>5, <1>2, EmptySeq
  <2>2. Count - Len(q) + 1 = Oldest
    BY <1>3
  <2>3. QED BY <1>1, <2>1, <2>2 DEF QueueInv, NewestKept
<1>6. QED BY <1>3, <1>4, <1>5

(* Nothing is to be delivered at the start.                                *)
LEMMA InitDeliveryInv == Init => DeliveryInv
<1> SUFFICES ASSUME Init PROVE DeliveryInv
  OBVIOUS
<1>1. /\ pc = "peek" /\ Len(wire) = 0
      /\ Len(lengths) = 0 /\ Len(tx_send_queue) = 0
  BY DEF Init
<1>2. Oldest = 1
  BY <1>1 DEF Oldest, Count
<1>3. HeadInv /\ TailInv /\ OrderInv
  BY <1>1 DEF HeadInv, TailInv, OrderInv
<1>4. SentInv
  BY <1>1, <1>2, SMT DEF SentInv
<1>5. QED BY <1>3, <1>4 DEF DeliveryInv

(* The steps that hand no byte to TCP and take nothing off the queue.      *)
LEMMA QuietDelivery ==
  ASSUME TypeInv, TypeInv', QueueInv, ~ dropped,
         HeadInv, TailInv, OrderInv, SentInv,
         Oldest' = Oldest, UNCHANGED <<wire, wires>>,
         \A m \in 1 .. Count : m \in 1 .. Count' /\ lengths'[m] = lengths[m],
         HeadInv', TailInv',
         pc' = "get" => pc = "get" /\ tx_send_queue # <<>>
  PROVE  OrderInv' /\ SentInv'
<1>1. OrderInv'
  BY DEF OrderInv
<1>2. ASSUME NEW m \in Nat, m \in 1 .. Count, Sent(m) PROVE Sent(m)'
  BY <1>2, SentStays
<1>3. ASSUME NEW m \in 1 .. Oldest, m < Oldest \/ pc' = "get" PROVE Sent(m)'
  <2>1. m \in Nat /\ m \in 1 .. Count
    BY <1>3, HeadMessage
  <2>2. Sent(m)
    BY <1>3 DEF SentInv
  <2>3. QED BY <1>2, <2>1, <2>2
<1>4. SentInv'
  BY <1>3 DEF SentInv
<1>5. QED BY <1>1, <1>4

(* A new message at the end of a queue that has room.                      *)
LEMMA DeliveryReceive ==
  ASSUME TypeInv, TypeInv', QueueInv, DeliveryInv, OnPacketReceived
  PROVE  DeliveryInv'
<1> SUFFICES ASSUME ~ dropped' PROVE DeliveryInv'
  BY Zenon DEF DeliveryInv
<1>1. PICK a \in Addrs \ allocated, length \in Lengths :
        /\ tx_send_queue' = Append(Kept, [data |-> a, length |-> length])
        /\ lengths' = Append(lengths, length)
  BY DEF OnPacketReceived
<1>2. ~ dropped /\ ~ Full
  BY Zenon DEF OnPacketReceived, Full
<1>3. HeadInv /\ TailInv /\ OrderInv /\ SentInv
  BY <1>2, Zenon DEF DeliveryInv
<1>4. [data |-> a, length |-> length] \in Message /\ length \in Nat
  BY <1>1, ConstantsAssumption DEF Message
<1>5. Gone = 0
  BY <1>2 DEF Gone
<1>6. Len(tx_send_queue) \in Nat /\ Count \in Nat
  BY QueueType, LengthsType
<1>7. /\ Len(tx_send_queue') = Len(tx_send_queue) + 1
      /\ \A i \in 1 .. Len(tx_send_queue) : tx_send_queue'[i] = tx_send_queue[i]
  BY <1>1, <1>4, <1>5, <1>6, ReceivedByIndex
<1>8. /\ Count' = Count + 1
      /\ \A m \in 1 .. Count : m \in 1 .. Count' /\ lengths'[m] = lengths[m]
  <2>1. Count' = Count + 1 /\ \A m \in 1 .. Count : lengths'[m] = lengths[m]
    BY <1>1, <1>4, LengthsGrow
  <2>2. \A m \in 1 .. Count : m \in 1 .. Count + 1
    BY <1>6
  <2>3. QED BY <2>1, <2>2
<1>9. Oldest' = Oldest
  BY <1>6, <1>7, <1>8 DEF Oldest
<1>10. UNCHANGED <<pc, send_packet, offset, wire, wires>>
  BY DEF OnPacketReceived, sender, tcp
<1>11. HeadInv'
  <2>1. ASSUME tx_send_queue # <<>> PROVE tx_send_queue'[1] = tx_send_queue[1]
    BY <1>6, <1>7, <2>1, TailByIndex
  <2>2. QED BY <1>3, <1>10, <2>1 DEF HeadInv, TypeInv, SenderLocal
<1>12. TailInv'
  BY <1>3, <1>9, <1>10 DEF TailInv
<1>13. pc' = "get" => pc = "get" /\ tx_send_queue # <<>>
  BY <1>10 DEF TypeInv, SenderLocal
<1>14. OrderInv' /\ SentInv'
  BY <1>2, <1>3, <1>8, <1>9, <1>10, <1>11, <1>12, <1>13, QuietDelivery
<1>15. QED BY <1>11, <1>12, <1>14, Zenon DEF DeliveryInv

(* The calls that fail, and the loop going round.                          *)
LEMMA DeliveryQuiet ==
  ASSUME TypeInv, TypeInv', QueueInv, DeliveryInv,
         \/ Peek \/ Failed \/ Free \/ PollError \/ SendFails \/ UNCHANGED vars
  PROVE  DeliveryInv'
<1>1. UNCHANGED <<tx_send_queue, lengths, dropped, wire, wires>>
  BY DEF Peek, Failed, Free, PollError, SendFails, vars, producer, tcp
<1> SUFFICES ASSUME ~ dropped' PROVE DeliveryInv'
  BY Zenon DEF DeliveryInv
<1>2. ~ dropped
  BY <1>1
<1>3. HeadInv /\ TailInv /\ OrderInv /\ SentInv
  BY <1>2, Zenon DEF DeliveryInv
<1>4. Oldest' = Oldest /\ Count' = Count
  BY <1>1 DEF Oldest, Count
<1>5. wire \in Seq(Byte) /\ Len(wire) \in Nat
  BY LenProperties DEF TypeInv, TypeOK
<1>6. HeadInv'
  BY <1>1, <1>3, TailByIndex
  DEF HeadInv, Peek, Failed, Free, PollError, SendFails, vars, sender
<1>7. TailInv'
  <2>1. CASE Peek
    BY <1>1, <1>4, <1>5, <2>1 DEF Peek, TailInv
  <2>2. CASE Failed \/ Free \/ PollError \/ SendFails
    BY <2>2 DEF Failed, Free, PollError, SendFails, TailInv
  <2>3. CASE UNCHANGED vars
    BY <1>1, <1>3, <1>4, <2>3 DEF vars, sender, TailInv
  <2>4. QED BY <2>1, <2>2, <2>3
<1>8. pc' = "get" => pc = "get" /\ tx_send_queue # <<>>
  BY DEF Peek, Failed, Free, PollError, SendFails, vars, sender, TypeInv,
         SenderLocal
<1>9. OrderInv' /\ SentInv'
  BY <1>1, <1>2, <1>3, <1>4, <1>6, <1>7, <1>8, QuietDelivery
<1>10. QED BY <1>6, <1>7, <1>9, Zenon DEF DeliveryInv

(* One call of send: the next bytes of the oldest message.                 *)
LEMMA DeliverySend ==
  ASSUME TypeInv, TypeInv', QueueInv, DeliveryInv, Send
  PROVE  DeliveryInv'
<1>1. UNCHANGED <<tx_send_queue, mem, lengths, dropped, pc, send_packet, wires>>
  BY DEF Send, producer
<1> SUFFICES ASSUME ~ dropped' PROVE DeliveryInv'
  BY Zenon DEF DeliveryInv
<1>2. ~ dropped
  BY <1>1
<1>3. HeadInv /\ TailInv /\ OrderInv /\ SentInv
  BY <1>2, Zenon DEF DeliveryInv
<1>4. /\ pc = "send" /\ tx_send_queue # <<>> /\ send_packet \in Message
      /\ offset \in Nat /\ wire \in Seq(Byte) /\ wires \in Seq(Seq(Byte))
  BY DEF Send, TypeInv, TypeOK, SenderLocal
<1>5. send_packet.data \in Addrs /\ send_packet.length \in Nat
  BY <1>4 DEF Message
<1>6. Oldest' = Oldest /\ Count' = Count
  BY <1>1 DEF Oldest, Count
<1>7. Oldest \in Nat /\ mem[send_packet.data] = Oldest
  BY <1>3, <1>4, HeadMessage DEF HeadInv
<1>8. PICK n \in 1 .. send_packet.length - offset :
        /\ wire' = wire \o BytesAt(send_packet.data, offset, offset + n)
        /\ offset' = offset + n
  BY DEF Send
<1> DEFINE b == BytesAt(send_packet.data, offset, offset + n)
<1>9. n \in Nat
  BY <1>4, <1>5
<1>10. /\ b \in Seq(Byte) /\ Len(b) = n
       /\ \A k \in 1 .. n : b[k] = <<Oldest, offset + k>>
  BY <1>4, <1>5, <1>7, <1>9, BytesType
<1> HIDE DEF b
<1>11. Len(wire) \in Nat
  BY <1>4, LenProperties
<1>12. /\ Len(wire') = Len(wire) + n
       /\ \A i \in 1 .. Len(wire) : wire'[i] = wire[i]
       /\ \A k \in 1 .. n : wire'[Len(wire) + k] = <<Oldest, offset + k>>
  <2>1. /\ Len(wire \o b) = Len(wire) + n
        /\ \A i \in 1 .. Len(wire) + n :
             (wire \o b)[i] = IF i <= Len(wire) THEN wire[i] ELSE b[i - Len(wire)]
    BY <1>4, <1>10, ConcatProperties
  <2>2. wire' = wire \o b
    BY <1>8 DEF b
  <2>3. \A k \in 1 .. n :
          /\ Len(wire) + k \in 1 .. Len(wire) + n
          /\ ~ (Len(wire) + k <= Len(wire))
          /\ Len(wire) + k - Len(wire) = k
    BY <1>9, <1>11
  <2>4. \A i \in 1 .. Len(wire) : i \in 1 .. Len(wire) + n /\ i <= Len(wire)
    BY <1>9, <1>11
  <2>5. QED BY <1>10, <2>1, <2>2, <2>3, <2>4
<1>13. HeadInv'
  BY <1>1, <1>3 DEF HeadInv
<1>14. offset <= Len(wire)
       /\ \A k \in 1 .. offset : wire[Len(wire) - offset + k] = <<Oldest, k>>
  BY <1>3, <1>4 DEF TailInv
<1>15. TailInv'
  <2>1. offset' <= Len(wire')
    BY <1>4, <1>8, <1>9, <1>11, <1>12, <1>14
  <2>2. ASSUME NEW k \in 1 .. offset'
        PROVE  wire'[Len(wire') - offset' + k] = <<Oldest, k>>
    <3>1. Len(wire') - offset' + k = Len(wire) - offset + k
      <4>1. Len(wire') = Len(wire) + n /\ offset' = offset + n /\ offset \in Nat
        BY <1>4, <1>8, <1>12
      <4>2. k \in Nat
        BY <1>9, <4>1
      <4>3. QED BY <1>9, <1>11, <4>1, <4>2
    <3>2. CASE k <= offset
      <4>1. /\ k \in 1 .. offset
            /\ Len(wire) - offset + k \in 1 .. Len(wire)
        BY <1>4, <1>8, <1>9, <1>11, <1>14, <3>2
      <4>2. QED BY <1>12, <1>14, <3>1, <4>1
    <3>3. CASE k > offset
      <4> DEFINE j == k - offset
      <4>1. /\ j \in 1 .. n /\ offset + j = k
            /\ Len(wire) - offset + k = Len(wire) + j
        BY <1>4, <1>8, <1>9, <1>11, <3>3
      <4> HIDE DEF j
      <4>2. wire'[Len(wire) + j] = <<Oldest, k>>
        BY <1>12, <4>1
      <4>3. QED BY <3>1, <4>1, <4>2
    <3>4. k \in Nat /\ offset \in Nat
      <4>1. offset' = offset + n /\ offset \in Nat
        BY <1>4, <1>8
      <4>2. QED BY <1>9, <4>1
    <3>5. QED BY <3>2, <3>3, <3>4
  <2>3. QED BY <1>6, <2>1, <2>2 DEF TailInv
<1>16. OrderInv'
  <2>1. \A i \in 1 .. Len(wire) + n :
          i \in 1 .. Len(wire) \/ i - Len(wire) \in 1 .. n
    BY <1>9, <1>11
  <2>2. \A i \in 1 .. Len(wire) + n : Len(wire) + (i - Len(wire)) = i
    BY <1>9, <1>11
  <2>3. ASSUME NEW i \in 1 .. Len(wire) + n
        PROVE  wire'[i][1] = Oldest \/ i \in 1 .. Len(wire)
    <3>1. CASE i - Len(wire) \in 1 .. n
      <4>1. wire'[i] = <<Oldest, offset + (i - Len(wire))>>
        BY <1>12, <2>2, <3>1
      <4>2. QED BY <4>1
    <3>2. QED BY <2>1, <3>1
  <2>4. \A i \in 1 .. Len(wire) : wire'[i][1] <= Oldest
    BY <1>3, <1>12 DEF OrderInv
  <2>5. \A i \in 1 .. Len(wire) + n : wire'[i][1] <= Oldest
    BY <1>7, <2>3, <2>4
  <2>6. ASSUME NEW i \in 1 .. Len(wire) + n - 1
        PROVE  wire'[i][1] <= wire'[i + 1][1]
    <3>1. i \in 1 .. Len(wire) + n /\ i + 1 \in 1 .. Len(wire) + n
      BY <1>9, <1>11
    <3>2. CASE i + 1 \in 1 .. Len(wire)
      <4>1. i \in 1 .. Len(wire) /\ i \in 1 .. Len(wire) - 1
        BY <1>11, <3>2
      <4>2. wire[i][1] <= wire[i + 1][1]
        BY <1>3, <4>1 DEF OrderInv
      <4>3. QED BY <1>12, <3>2, <4>1, <4>2
    <3>3. CASE wire'[i + 1][1] = Oldest
      BY <2>5, <3>1, <3>3
    <3>4. QED BY <2>3, <3>1, <3>2, <3>3
  <2>7. QED BY <1>6, <1>12, <2>5, <2>6 DEF OrderInv
<1>17. SentInv'
  <2>1. pc' # "get" /\ pc # "get"
    BY <1>1, <1>4
  <2>2. ASSUME NEW m \in 1 .. Oldest, m < Oldest PROVE Sent(m)'
    <3>1. m \in Nat /\ m \in 1 .. Count /\ Sent(m)
      BY <1>3, <2>2, HeadMessage DEF SentInv
    <3>2. wires' = wires /\ (\E x \in Seq(Byte) : wire' = wire \o x)
      BY <1>1, <1>8, <1>10 DEF b
    <3>3. QED BY <1>1, <1>6, <3>1, <3>2, SentStays
  <2>3. QED BY <1>6, <2>1, <2>2 DEF SentInv
<1>18. QED BY <1>13, <1>15, <1>16, <1>17, Zenon DEF DeliveryInv

(* All of the oldest message was sent: its bytes are the last on the wire. *)
LEMMA DeliverySendDone ==
  ASSUME TypeInv, TypeInv', QueueInv, DeliveryInv, SendDone
  PROVE  DeliveryInv'
<1>1. UNCHANGED <<tx_send_queue, lengths, dropped, send_packet, offset, wire,
                  wires>>
  BY DEF SendDone, producer, tcp
<1> SUFFICES ASSUME ~ dropped' PROVE DeliveryInv'
  BY Zenon DEF DeliveryInv
<1>2. ~ dropped
  BY <1>1
<1>3. HeadInv /\ TailInv /\ OrderInv /\ SentInv
  BY <1>2, Zenon DEF DeliveryInv
<1>4. /\ pc = "send" /\ pc' # "send" /\ tx_send_queue # <<>>
      /\ offset = send_packet.length /\ offset \in Nat /\ wire \in Seq(Byte)
  BY DEF SendDone, TypeInv, TypeOK, SenderLocal
<1>5. Oldest' = Oldest /\ Count' = Count
  BY <1>1 DEF Oldest, Count
<1>6. /\ Oldest \in Nat /\ Oldest \in 1 .. Count
      /\ lengths[Oldest] = offset
  BY <1>3, <1>4, HeadMessage DEF HeadInv
<1>7. At(Oldest, lengths[Oldest], wire)
  <2>1. offset <= Len(wire) /\ Len(wire) \in Nat
    BY <1>3, <1>4, LenProperties DEF TailInv
  <2>2. \A k \in 1 .. offset : wire[Len(wire) - offset + k] = <<Oldest, k>>
    BY <1>3, <1>4 DEF TailInv
  <2>3. Len(wire) - offset \in 0 .. Len(wire) - offset
    BY <1>4, <2>1
  <2>4. QED BY <1>6, <2>2, <2>3 DEF At
<1>8. Sent(Oldest)
  BY <1>6, <1>7, SentByIndex
<1>9. HeadInv' /\ TailInv'
  BY <1>1, <1>3, <1>4 DEF HeadInv, TailInv
<1>10. OrderInv'
  BY <1>1, <1>3, <1>5 DEF OrderInv
<1>11. ASSUME NEW m \in 1 .. Oldest PROVE Sent(m)'
  <2>1. m < Oldest \/ m = Oldest
    BY <1>6
  <2>2. m \in Nat /\ m \in 1 .. Count
    BY <1>6, <2>1, HeadMessage
  <2>3. Sent(m)
    BY <1>3, <1>8, <2>1 DEF SentInv
  <2>4. QED BY <1>1, <1>5, <2>2, <2>3, SentStays
<1>12. SentInv'
  BY <1>5, <1>11 DEF SentInv
<1>13. QED BY <1>9, <1>10, <1>12, Zenon DEF DeliveryInv

(* k_msgq_get takes a message off that is on a wire in one piece.          *)
LEMMA DeliveryGet ==
  ASSUME TypeInv, TypeInv', QueueInv, DeliveryInv, Get
  PROVE  DeliveryInv'
<1>1. /\ UNCHANGED <<lengths, dropped, wire, wires>> /\ pc = "get" /\ pc' = "free"
      /\ tx_send_queue # <<>> /\ tx_send_queue' = Tail(tx_send_queue)
  BY DEF Get, producer, tcp, TypeInv, SenderLocal
<1> SUFFICES ASSUME ~ dropped' PROVE DeliveryInv'
  BY Zenon DEF DeliveryInv
<1>2. ~ dropped
  BY <1>1
<1>3. HeadInv /\ TailInv /\ OrderInv /\ SentInv
  BY <1>2, Zenon DEF DeliveryInv
<1>4. Count' = Count /\ Count \in Nat
  BY <1>1, LengthsType DEF Count
<1>5. Len(tx_send_queue') = Len(tx_send_queue) - 1 /\ Len(tx_send_queue) \in Nat
  BY <1>1, TailByIndex, QueueType
<1>6. Oldest' = Oldest + 1
  BY <1>4, <1>5 DEF Oldest
<1>7. Oldest \in Nat /\ Oldest \in 1 .. Count
  BY <1>1, HeadMessage
<1>8. HeadInv' /\ TailInv'
  BY <1>1 DEF HeadInv, TailInv
<1>9. OrderInv'
  <2>1. ASSUME NEW i \in 1 .. Len(wire) PROVE wire[i][1] <= Oldest + 1
    <3>1. wire[i][1] <= Oldest
      BY <1>3 DEF OrderInv
    <3>2. wire[i] \in Byte
      BY ElementOfSeq DEF TypeInv, TypeOK
    <3>3. wire[i][1] \in Nat
      BY <3>2 DEF Byte
    <3>4. QED BY <1>7, <3>1, <3>3
  <2>2. QED BY <1>1, <1>3, <1>6, <2>1 DEF OrderInv
<1>10. ASSUME NEW m \in 1 .. Oldest PROVE Sent(m)'
  <2>1. m < Oldest \/ m = Oldest
    BY <1>7
  <2>2. m \in Nat /\ m \in 1 .. Count
    BY <1>7, <2>1, HeadMessage
  <2>3. Sent(m)
    BY <1>1, <1>3 DEF SentInv
  <2>4. QED BY <1>1, <1>4, <2>2, <2>3, SentStays
<1>11. SentInv'
  <2>1. \A m \in 1 .. Oldest + 1 : m < Oldest + 1 => m \in 1 .. Oldest
    BY <1>7
  <2>2. pc' # "get"
    BY <1>1
  <2>3. QED BY <1>6, <1>10, <2>1, <2>2 DEF SentInv
<1>12. QED BY <1>8, <1>9, <1>11, Zenon DEF DeliveryInv

(* A new connection: the wire starts again, the message goes from its      *)
(* start.                                                                  *)
LEMMA DeliveryRetry ==
  ASSUME TypeInv, TypeInv', QueueInv, DeliveryInv, Retry
  PROVE  DeliveryInv'
<1>1. /\ UNCHANGED <<tx_send_queue, lengths, dropped>> /\ pc' = "peek"
      /\ wire' = <<>> /\ wires' = Append(wires, wire)
  BY DEF Retry, producer
<1> SUFFICES ASSUME ~ dropped' PROVE DeliveryInv'
  BY Zenon DEF DeliveryInv
<1>2. ~ dropped
  BY <1>1
<1>3. HeadInv /\ TailInv /\ OrderInv /\ SentInv
  BY <1>2, Zenon DEF DeliveryInv
<1>4. Oldest' = Oldest /\ Count' = Count
  BY <1>1 DEF Oldest, Count
<1>5. Len(wire') = 0
  BY <1>1
<1>6. HeadInv' /\ TailInv'
  BY <1>1 DEF HeadInv, TailInv
<1>7. OrderInv'
  BY <1>5 DEF OrderInv
<1>8. ASSUME NEW m \in 1 .. Oldest, m < Oldest PROVE Sent(m)'
  <2>1. m \in Nat /\ m \in 1 .. Count /\ Sent(m)
    BY <1>3, <1>8, HeadMessage DEF SentInv
  <2>2. QED BY <1>1, <1>4, <2>1, SentStays
<1>9. pc' # "get"
  BY <1>1
<1>10. SentInv'
  BY <1>4, <1>8, <1>9 DEF SentInv
<1>11. QED BY <1>6, <1>7, <1>10, Zenon DEF DeliveryInv

UplinkInv == TypeInv /\ HeapInv /\ QueueInv /\ DeliveryInv

(* The invariant is inductive.                                             *)
LEMMA NextUplinkInv == UplinkInv /\ [Next]_vars => UplinkInv'
<1> SUFFICES ASSUME UplinkInv, [Next]_vars PROVE UplinkInv'
  OBVIOUS
<1>1. TypeInv /\ HeapInv /\ QueueInv /\ DeliveryInv
  BY DEF UplinkInv
<1>2. TypeInv' /\ HeapInv' /\ QueueInv'
  BY <1>1, NextTypeInv, NextHeapInv, NextQueueInv
<1>3. CASE OnPacketReceived
  BY <1>1, <1>2, <1>3, DeliveryReceive DEF UplinkInv
<1>4. CASE \/ Peek \/ Failed \/ Free \/ PollError \/ SendFails \/ UNCHANGED vars
  BY <1>1, <1>2, <1>4, DeliveryQuiet DEF UplinkInv
<1>5. CASE Send \/ SendDone
  BY <1>1, <1>2, <1>5, DeliverySend, DeliverySendDone DEF UplinkInv
<1>6. CASE Get \/ Retry
  BY <1>1, <1>2, <1>6, DeliveryGet, DeliveryRetry DEF UplinkInv
<1>7. QED BY <1>3, <1>4, <1>5, <1>6 DEF Next, Sender

(* Whatever the producer does and whichever calls fail, UplinkInv holds.   *)
LEMMA UplinkSafe == Spec => []UplinkInv
<1>1. Init => UplinkInv
  BY InitTypeInv, InitHeapInv, InitQueueInv, InitDeliveryInv DEF UplinkInv
<1>2. QED BY <1>1, NextUplinkInv, PTL DEF Spec

(* As long as the queue had room for every message, do_tcp_send reads the  *)
(* head of tx_send_queue, and reads it while it is allocated, although it  *)
(* works on a copy made by k_msgq_peek and on_packet_received runs between *)
(* any two calls of send.                                                  *)
THEOREM SendsTheHead == Spec => []SendsOldest
<1>1. UplinkInv => SendsOldest
  <2> SUFFICES ASSUME UplinkInv, ~ dropped, pc \in {"send", "failed", "get"}
      PROVE  /\ tx_send_queue # <<>>
             /\ send_packet = Head(tx_send_queue)
             /\ send_packet.data \in allocated
    BY Zenon DEF SendsOldest
  <2>1. TypeInv /\ HeapInv /\ HeadInv
    BY Zenon DEF UplinkInv, DeliveryInv
  <2>2. tx_send_queue # <<>> /\ send_packet = tx_send_queue[1]
    BY <2>1 DEF TypeInv, SenderLocal, HeadInv
  <2>3. /\ Len(tx_send_queue) > 0 /\ Head(tx_send_queue) = tx_send_queue[1]
        /\ Len(tx_send_queue) \in Nat
    BY <2>1, <2>2, TailByIndex, QueueType
  <2>4. tx_send_queue[1].data \in Queued
    <3>1. 1 \in 1 .. Len(tx_send_queue)
      BY <2>3
    <3>2. QED BY <3>1 DEF Queued
  <2>5. QED BY <2>1, <2>2, <2>3, <2>4 DEF HeapInv
<1>2. QED BY <1>1, UplinkSafe, PTL

(* Then no message is lost: whichever calls of send and poll fail, and     *)
(* however send splits the data, each message queued is still in the queue *)
(* or was handed to one connection in one piece.                           *)
THEOREM DeliversAll == Spec => []NothingLost
<1>1. UplinkInv => NothingLost
  <2> SUFFICES ASSUME UplinkInv, ~ dropped,
                      NEW m \in 1 .. Count - Len(tx_send_queue)
      PROVE  Sent(m)
    BY Zenon DEF NothingLost
  <2>1. TypeInv /\ QueueInv /\ SentInv
    BY Zenon DEF UplinkInv, DeliveryInv
  <2>2. /\ Len(tx_send_queue) \in Nat /\ Count \in Nat
        /\ Oldest = Count - Len(tx_send_queue) + 1
    BY <2>1, QueueType, LengthsType DEF Oldest
  <2>3. m \in 1 .. Oldest /\ m < Oldest
    BY <2>2
  <2>4. QED BY <2>1, <2>3 DEF SentInv
<1>2. QED BY <1>1, UplinkSafe, PTL

(* And none overtakes another: the numbers of the messages whose bytes a   *)
(* connection is handed never go back.                                     *)
THEOREM DeliversInOrder == Spec => []WireOrdered
<1>1. UplinkInv => WireOrdered
  BY Zenon DEF UplinkInv, DeliveryInv, OrderInv, WireOrdered
<1>2. QED BY <1>1, UplinkSafe, PTL
=============================================================================
