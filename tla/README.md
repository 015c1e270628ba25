# Verification of power_meter

TLA+ models of the firmware in `src/`, checked with TLC, and proofs about them
checked with TLAPS. Paths below are relative to the root of the repository.

Contents: [the system](#the-system) - [modules](#modules-and-the-code) -
[runs](#runs) - [findings](#findings) - [proofs](#proofs) -
[abstractions](#abstractions-and-assumptions) - [not modelled](#not-modelled) -
[plan](#plan).

## The system

A power meter on an nRF9151 (Zephyr). Four contexts run its code:

| context | runs | kind |
| --- | --- | --- |
| UART interrupt | `uart_callback` | preempts every thread |
| system work queue | `rx_process`, `fota_work_cb` (one after the other) | cooperative thread |
| `tcp_client_thread` | sending, receiving, reconnecting | preemptible thread |
| `main`, `tcp_server_thread` | LTE; one request per connection | preemptible threads |

| component | state | operations | talks to |
| --- | --- | --- | --- |
| UART receive (`src/uart_handler.c`) | `rx_slab` and the reference counter of its blocks, `rx_event_queue`, `recovery_state`, `rx_process_work` | `rx_buf_alloc/ref/unref`, `rx_enable`, `rx_recovery`, `uart_callback` (RX events), `rx_process` | driver (callbacks), SLIP decoder, image bookkeeping |
| UART transmit (`src/uart_handler.c`) | `tx_buf`, `tx_done_sem`, `mutex_tx_put` | `uart_tx_write`, `tx_start`, `uart_callback` (TX_DONE) | TCP client (caller), driver |
| SLIP (`src/slip/slip.c`) | `m_slip` | `slip_encode`, `slip_decode_add_byte` | both UART directions |
| command dispatch (`src/uart_handler.c`) | `transfer_mode` | `handle_uart_data` | upgrade, uplink |
| uplink (`src/uart_handler.c`, `src/socket_app.c`) | `tx_send_queue`, heap, `resend_count` | `on_packet_received`, `do_tcp_send`, the client's loop | TCP |
| upgrade (`src/upgrade_app.c`) | `state`, `upgrade.file_length/total_length`, `fota_work` | `apply_state`, `fota_work_cb`, `image_data_save`, FTP callbacks | FTP client, flash, reboot |
| flash (`src/dfu_lib/nrf_dfu_flash.c`) | `dfu_locked`, `ctx`, secondary slot | `dfu_flash_start`, `dfu_data_store`, `dfu_flash_finish` | mcuboot |
| connectivity (`src/main.c`) | `lte_connected_sem`, `reconnect` | `lte_handler`, `modem_connect`, main loop | TCP client |
| TCP server (`src/socket_app.c`) | sockets | `tcp_server_thread` | - |
| host script (`scripts/serial_upgrade.py`) | offset in the image | `send_firmware` | UART |

What is hard about it, and what makes each part correct:

* The receive path shares blocks between DMA, queued events and the work item,
  with counters changed from the interrupt and from the thread. Correct: a
  counter is the number of references, a block is free exactly when nobody
  refers to it, bytes are not overwritten before they are read, an event never
  waits for a wakeup that does not come, reception comes back after an error.
* The transmit path shares the indices of one ring buffer between the writer
  and the interrupt, guarded by a semaphore that the interrupt gives in any
  case. Correct: each byte goes out once, in order, and the writer returns.
* The uplink peeks at a queue whose head its producer may drop meanwhile.
  Correct: one owner for each heap block, the newest messages are kept, none is
  lost or overtaken as long as there is room.
* The upgrade counts bytes in global variables that two sources of images
  share, and every call of the flash may fail. Correct: only a whole image is
  ever requested, and a requested image is left alone.
* Framing has to be transparent on a good line and safe on a bad one, and the
  command words are searched for in a buffer that outlives the packet.
* The host script takes lines of the device's log for answers, one for each part
  the UART hands over, which is not one for each packet. Correct: it gets ahead
  by a bounded number of bytes, and gets to the end.
* `main` and the TCP client talk through a flag and a binary semaphore which the
  handler of LTE events gives too; client and server share the modem's few
  sockets. Correct: a wait for LTE ends, the link is taken down once for every
  hang-up, a connection that was given up is set up again, no socket is
  forgotten.

The hazards, each at its line, are listed in `PROJECT.json`, with the properties
that watch over them.

## Modules and the code

Each row of "map" in `PROJECT.json` names the lines a definition stands for.
Definitions commented `mutant:` stand before the definition they are a mutation
of. They are not part of the model: they are plausible bugs, each of which
breaks a property.

**UartRx** (`uart_handler.c:65-178, 264-316, 368-401`). State: the driver (`rx`,
`cur`, `nxt`, `fill`, `told`, `req`), the pool (`mem`, `slab_free`,
`ref_counter`), `rx_event_queue`, the wakeup (`recovery_state`, `submitted`,
`scheduled`) and the thread (`pc`, `rx_event`, `buf`). One action per event of the
callback: `RxRdy`, `RxBufRequest`, `RxBlockEnd` and `RxReleased`
(UART_RX_BUF_RELEASED in normal operation and while reception stops),
`RxDisabled`. `rx_process` is split at every atomic kernel call, so that the
interrupt can fall between `atomic_dec` and `k_mem_slab_free` (`UnrefEvent`,
`FreeBlock`) or between `uart_rx_enable` and `atomic_cas` (`Enable`,
`RecoveryDone`). Bytes are numbered, so that "the data is still there" is a
property of the contents of a block.

**Reception** is the abstract specification of it, with no blocks, references or
work items: bytes are announced in segments and the segments are consumed in
order, each whole and once, and every one in the end; a segment is lost only when
`QueueLen` of them wait. UartRx implements it: a segment waiting is an event in the
queue.

**UartTx** (`uart_handler.c:67-71, 216-223, 318-367, 408-450, 452-505`). The ring buffer is its
three indices, as Zephyr keeps them. `uart_tx_write` is `Put`, `Take`, `TryTake`;
`tx_start` in the thread is `Claim`, `Start` and, when `uart_tx` refuses, `Unclaim`;
`TxDone` is the interrupt with its own `tx_start` in one step. `InitDone` and
`InitFails` are the two ends of `uart_handler_init`: `tx_done_sem` starts at 0 and is
given only by the first, and `main` goes on after the second.

**Uplink** (`uart_handler.c:181-212`, `socket_app.c:41-59, 146-225`).
`OnPacketReceived` is one step, since the system work queue is cooperative and
`on_packet_received` does not block. The client thread is split at every kernel
and socket call: `Peek`, `Send` (a call that takes some bytes), `SendFails`,
`SendDone`, `Failed`, `Get`, `Free`, `Retry`. The bytes on a connection are pairs
of a message and a place in it.

**Slip** holds the encoder and one step of the decoder as operators, **Dispatch**
the search of `handle_uart_data` (`uart_handler.c:228-260`): which word counts, and
the argument of an upload with its length in a `uint8_t`. **SlipLink** joins a
framing peer to the decoding loop of `rx_process` and to Dispatch. `RxEvent` is the
test of `transfer_mode` for each event (`decoding` is its outcome), `RxByte` what becomes of a byte: of an
image it goes past the decoder. The model ends at the next boot, since nothing else clears
`transfer_mode`. **PacketChannel** is the abstract specification it implements: packets
in order, unchanged, none left out, until the line has an error or a packet told the
receiver to stop listening, which it may do from any later moment on.

**Upgrade** (`uart_handler.c:228-283`, `upgrade_app.c`, `nrf_dfu_flash.c`). The system
work queue is `work` and `pc`; an event of the receive queue is a whole command
or a part of an image. The functions of the flash library are sets of outcomes
(`Started`, `Stored`, `Requested`, `Finished`). `faults`, chosen in the initial state from
`FaultSets`, is what may go wrong in a behaviour: calls that fail, lengths that do not
match or parse, a host that does not wait. `verdict`, `running` and the contents of
the slot are history, to compare what the log claims with what is in the flash.

**SerialUpgrade** composes it with the host's script
(`scripts/serial_upgrade.py:28-91`): `ScriptStart`, `ScriptConfirm`, `ScriptWrite` and
`ScriptAck` are the points at which `send_firmware` waits; `Deliver` hands over
what is on the line, up to the end of the receive block or to the idle line; the device
appends to `log` what the script looks for. `LogLost` is a line that deferred
logging drops, and `DeviceReboots` may come before the log was printed. With
`script = "none"` another program is the host, which runs ahead, mixes commands and
reads no log.

**Connectivity** (`main.c`, `socket_app.c:70-187, 218-298`). `main`, `client` and `server`
are where the three threads are, one action for what a thread does up to its
next call that waits. `lte` and `event` are the modem and the event it is
about to deliver. `Give` is `k_sem_give`, which wakes a client that waits and
counts up to 1 otherwise; it is part of `LteHandler` and of `ModemConnected`.
`conn` is the client's socket, `sockets` how many of the modem's are in use.
`lte_lc_offline`, which takes a connection with it or fails, is used by the main loop (`Offline`)
and by `modem_connect` (`ModemConnectFails`); neither looks at its result. `rounds` and
`pausedOn` are history.
Sending, which goes on while `client = "poll"`, is in Uplink.

**MC...** modules instantiate these for TLC.

The theorems stand in modules of their own: **UartRxProof**, **UartRxOwnership**
(extends it) and **UartRxReception** (extends that) about UartRx, **UartTxProof**,
**UplinkProof**, **SlipLinkProof**, **UpgradeProof** (Upgrade and SerialUpgrade) and
**ConnectivityProof**; see [proofs](#proofs).

## Runs

| run | bounds | shows |
| --- | --- | --- |
| MCUartRx | 3 blocks of 2 bytes, queue of 2, 5 bytes, 2 line errors, a failing `uart_rx_enable` | ownership of blocks, wakeup of `rx_process`, a recovery ends, refinement of Reception; 939,000 states |
| MCUartTx | ring of 3, four packets of 1, 2, 3 or 5 bytes, at any time, `uart_handler_init` done, failed or under way | indices, token, `uart_tx_write` returns; packets one after the other go out complete, in order, once; 271,000 states |
| MCUplink | queue of 2, 3 heap blocks, 3 messages of 0 or 2 bytes, 4 failures, a partial send | heap and order of the queue; with room nothing is lost or overtaken and the queue drains; 736,000 states |
| MCSlipLink | decoder of 4 bytes, every packet of 1 byte, uploads with an argument of 1 or 2, and one that holds the word of a download behind that of a transfer (`MCPackets`), two on the line, in events of any length, then any bytes; upload lengths modulo 2 | refinement of PacketChannel, up to a transfer and past it, the decoder stays in its buffer, NUL-terminated, uploads get their argument; 1,523,000 states |
| MCUpgrade | images of 2 and 5 bytes (limit 2), parts of 1 and 4 or packets of 2 in blocks of 2, queue of 1, three commands; the script, with and without calls that fail, a host that runs ahead with FTP failing, and everything but the erase failing | only whole images are requested, a requested image stays as it is, an announced one is installed; the script's lead, and that it finishes; 1,181,000 states |
| MCConnectivity | 3 sockets, 3 clients of the server, 2 hang-ups, 3 failures or losses of LTE | waits end, one round of the link for each hang-up, sockets, the client reconnects, the server accepts; 347,000 states |

The other six runs each refute one statement of the repository; see
[findings](#findings).

`CHECK_DEADLOCK FALSE` is set where the bounded number of bytes, packets, messages
or commands is used up and the system then really rests.

Some properties are about the good case of a run that also has bad ones, and a
history variable tells them apart: `paced` (each packet fits and found the transmit
buffer empty), `dropped` (a message was dropped to make room), `good` (no line error so
far), `lost` (an event or a line of the log was dropped, or a download failed), `missed` (the reboot
overran the log). What holds in every case
has no such condition.

Why the bounds are enough: three blocks are the driver's two and one that only
events hold, so that every kind of owner exists at once; a queue of two fills up
and has an order; a block of two bytes can be announced in parts; with two line
errors a second one falls into the recovery of the first. A ring of
three wraps within a packet and is shorter than some of them. Two
messages in the queue and a third on the heap suffice for the producer to drop
the head under the sender; four failures reach the limit of `resend_count`. A
decoder of four bytes is filled by noise and not by the packets of the good line. In Upgrade the
limit of 1024 becomes 2, with images at and above it, and a queue of one loses
events. An image of 5 bytes in packets of 2 has a short last packet, and the command
before it (one byte of the block) makes a part end inside the first one. Uploads
have an argument of none, one or two bytes, and their length wraps at 2. A packet that
begins a transfer may be followed by another in the same event or in the next. Three sockets
are enough for the server to take all of them from the client, or all but one; with two
hang-ups the second can fall into the reconnection after the first, and with three
failures `lte_lc_connect` and the `lte_lc_offline` after it fail and one call is left to fail later.

Fairness. `UartRx`: the driver delivers its events, the delay of `k_work_schedule`
ends, the work queue runs; nothing is assumed of the peer. `UartTx`: the thread
runs and every `uart_tx` ends with TX_DONE (hardware flow control permitting),
one of no bytes included. `Uplink`: the loop goes round (`poll` has a time-out of
200 ms and `send` one of 3 s) and a connection can be made again. `SlipLink`: bytes
on the line arrive, and on the bad line END bytes are among them. `UartRx` as an
implementation of Reception needs the work queue only. `SerialUpgrade`: the work queue
runs, the script and the line go on, and another host goes on with an image it
has begun. `Connectivity`: the threads run (every wait of theirs but those for LTE and in
`recv` has a time-out), a modem that searches finds a network, and its events are delivered;
nothing is assumed of the clients of the server. Every one is
weak fairness of a group of actions (an interrupt or a thread that can go on does), but for the
TCP server, whose fairness is strong: it calls `accept` again and again, so it gets a socket that the
TCP client gives back for the three seconds of its sleep, time after time.

## Findings

Each is a run that expects a violation of what a comment, a doc or a message of
the repository says (quoted in `PROJECT.json`):

| run | property | what the code does |
| --- | --- | --- |
| MCUartRx_back | RxComesBack | a UART_RX_DISABLED between `uart_rx_enable` and `atomic_cas` in `rx_recovery` is swallowed: reception stays off |
| MCUartTx_repeat | SemaphoreOwnsTransmitter | `tx_done_sem` is given although TX was restarted: a writer unclaims bytes in transit and they are sent twice |
| MCUplink_deletes | DeletesWhatItSent | a message that was not sent is deleted when the queue was full |
| MCSlipLink_full | FullIsLeft | the decoder returns `-ERROR_NO_MEM`, the loop waits for `ERROR_NO_MEM` |
| MCUpgrade_corrupted | CorruptedIsDropped | the upgrade is requested before the lengths are compared |
| MCUpgrade_ahead | ConfirmsEach | the device reports parts, not packets, so the script sends the next packet before the one before was received |

What else the models show of the code, as the exceptions that properties make or
as behaviour they tolerate:

* A failing `uart_rx_enable` leaks its block (`leaked` in `RefCountAccounted`;
  `RecoveryCompletes` needs fewer failures than blocks).
* When packets are not paced, `uart_tx_write` drops the end of a packet that waited
  for space, when it finds the transmitter restarted (`PacketsIntact` without `paced`).
* After a partial `send` the whole message goes out again; `NothingLost` asks for one
  copy in one piece, not for one copy only.
* The bytes of an invalid SLIP packet stay in the buffer and are searched for
  commands with the next (`DispatchSeesPacketOnly` without `good`): a word of a broken
  packet may be obeyed later.
* The length of an upload wraps at 256, so of a longer packet only a beginning
  is sent (`UploadsArgument`). It is counted from the start of the packet: where
  "upload:" is not the first word, bytes behind the packet are sent with it.
* `dfu_flash_module` is a null pointer, equal to `DFU_UNLOCKED`, so the lock of the flash
  library locks nothing: a download during a transfer writes between the parts of its image, and
  both count in the same lengths (`mixed`, which `PendingIsWhole` excludes).
* The script gets ahead by what each part falls short of a packet (`LeadBounded`), so a
  long transfer with short parts may overflow `rx_event_queue`. A device that has
  faulted says nothing of it: a line of the log printed before makes the script
  send one packet more, which is why `LeadBounded` is about a device that runs.
* The last report may be lost to the reboot it precedes, and a part of 708 bytes or
  more has none; the script then waits for ever, in the first case with the image
  installed (`missed` in `ScriptFinishes`).
* LTE events and `modem_connect` both give `lte_connected_sem` for one connection, so a
  token is left over and the wait after the next POLLHUP may end at once. It
  does no harm as long as `main` is in its loop by then: the client sleeps for three seconds, `main` looks at
  `reconnect` every two, and what the client sets up too early is taken down before it
  is up (`OneRoundPerHangup`).
* It does when `modem_connect` has paused with the modem on. `lte_lc_connect` failed, and so did the
  `lte_lc_offline` whose result it ignores (`main.c:118`); LTE registers within the minute, the client connects, and
  when its connection ends it asks for a reconnection that `main` sees only after the pause. By then the
  client, woken by the left-over token, may have connected anew; `main` breaks that connection, the client asks
  again, at a time when `main` is not in its loop, and so on: in the model without end. `OneRoundPerHangup` is
  therefore about the time before that (`pausedOn`), and `rounds` counts only then.
* The server never closes the sockets it accepts: after a few clients it accepts
  no more and, when a socket is lost meanwhile, the TCP client cannot connect
  again (`Starved` in `ClientReconnects`). A client that connects and says nothing keeps
  the others out for as long as it likes (`HeldUp` in `PeerAccepted`).
* After `uart_handler_init` has failed a writer waits for ever once the ring is full
  (`WriterReturns`).
* `transfer_mode` is never cleared, so the first packet that begins a transfer ends the channel of
  packets until the next boot (`Stop` in PacketChannel), and after an event of an image was lost, the next
  commands are counted as the missing bytes, an upgrade is requested for what
  results, and data that comes then is written with a context that was freed
  (`PendingIsWhole` and `NoFault` without `Undisturbed`).
* A failed write is only logged; the image counts as completed. Nothing in
  the code could see it, so `PendingIsWhole` is about writes that succeed.
* A failed `boot_request_upgrade` is only logged as well, and the device reboots into the old image, so
  `AnnouncedIsInstalled` is about requests that succeed.

`FullIsLeft` and `DispatchTerminated` belong together: giving `NoRoom` its positive
value alone lets a full buffer, without a NUL, reach `strstr` (this is the mutant of
`DispatchTerminated`).

## Proofs

Every invariant the runs check is a theorem, and so is the action property
`PendingImageStable`; of the two refinements, `ImplementsChannel` and
`ImplementsReception`, the safety part is. TLC shows them on the bounds
above, the theorems hold for every value of the constants that the assumption of the
component's module allows (`ConstantsAssumption`, `SerialAssumption`,
`DispatchAssumption` and the others, which TLC evaluates in the runs): any slab, ring,
queue and heap, packets and images of any length, any number of failures.
Where a property is about the good case (`paced`, `dropped`, `good`,
`Undisturbed`), the theorem is about every behaviour and the invariant
says how the good case ends. TLC confirms each inductive invariant on the
instance of its run, but for `FrameInv`, which speaks of functions it cannot enumerate.

| module | theorems | inductive invariant |
| --- | --- | --- |
| UartRxProof | `TypeCorrect`, `RecoveryNeverAbandoned`, `NoEventStranded`, `EnabledOnlyWhenOff` | `TypeInv`, `RecoveryInv` |
| UartRxOwnership | `RefCountsAccounted`, `SlabIsAccounted` | `OwnInv` |
| UartRxReception | `ReadsWhatWasAnnounced`, `ReceptionSafe` | `OwnInv /\ ReadInv` |
| UartTxProof | `TypeCorrect`, `RingKeepsOrder`, `TokenSurvives`, `PacedPacketsIntact` | `RingInv`, `TokenNotLost` itself, `PacedInv` |
| UplinkProof | `TypeCorrect`, `HeapOwned`, `QueueHoldsNewest`, `SendsTheHead`, `DeliversAll`, `DeliversInOrder` | `UplinkInv` |
| SlipLinkProof | `TypeCorrect`, `AlwaysTerminated`, `OnlyThePacketSeen`, `UploadsReach`, `ChannelSafe` | `LastByteInv`, `LinkInv` |
| UpgradeProof | `SerialTypeCorrect`, `RequestedImageStable`, `RequestedIsWhole`, `ContextWhenStoring`, `LeadIsBounded` | `TypeInv`, `RequestInv`, `PhaseInv`, `LeadInv` |
| ConnectivityProof | `TypeCorrect`, `SocketsNotLeaked`, `RoundsNotRepeated` | `SocketInv`, `MainInv`, `RequestInv`, `RoundsInv` |

*UartRxProof.* `TypeInv` is `TypeOK` with two facts it is not inductive without:
where the driver is in its block (`told <= fill`, a running driver has a block),
and what the thread's local variables hold at each `pc`. From it
`TypeCorrect`, then `RecoveryNeverAbandoned` and `NoEventStranded`, each of which is
inductive relative to the types. `EnabledOnlyWhenOff` needs `RecoveryInv`: in a
recovery the driver stays off until the thread has called
`uart_rx_enable`, because only RxDisabled starts one and nothing else turns the
driver on.

*UartRxOwnership.* `RefCountsAccounted` and `SlabIsAccounted` follow from
`OwnInv`: `RecoveryInv`, facts about which references can exist
together (`OwnLocal`: while a block is requested the driver has no next one, the block on
its way to `uart_rx_enable` is not a leaked one, a block about to be freed counts 0), `RefCountAccounted` itself, and `SlabFree` (a block is on the free list if
and only if its counter is 0 and no free is pending). The counter is thus tied to
the references and the free list to the counter. The references in the queue are a
cardinality; two lemmas say what `Append` and `Tail` do to it.

*UartRxReception.* `UnreadIntact` says what a block holds when it is read; `ReadInv`
says why it still will. The block DMA fills holds the last bytes of the line
(`Contents`), an unread event is in a block that DMA will not write over (`Untouched`: it
is not the next block, nor the one on its way to `uart_rx_enable`, and in the current one it
lies before `told`), and the events follow one another (`Follows`). The step that could
break it is a block handed out again: `OwnInv` says that its counter is 0, so that no
event refers to it. `ReceptionSafe` maps each step to `Receive`, `Announce` (also for an
event that finds the queue full), `Consume` or none.

*UartTxProof.* `RingInv` is inductive: `RingOrdered` is about all three indices,
and `ring_buf_get_finish` of either side moves two of them. `TokenNotLost` needs
nothing but the types. `PacedInv` follows the one packet that is in the buffer: the writer
is past its last byte before anything is claimed, and what is claimed is the packet.

*UplinkProof.* `HeapInv` gives every block one owner, a place in the queue or the
thread between `k_msgq_get` and `k_free`, and no two places the same one; the drop of the
oldest message in `on_packet_received` falls between any two steps of the thread.
Without a drop the message the thread works on is the head (`HeadInv`), the bytes
taken of it are the last on the wire (`TailInv`), no later message is on the wire
(`OrderInv`), and all before it were sent whole (`SentInv`). `OnWire` compares sequences; the
lemma `SentByIndex` says the same byte by byte.

*SlipLinkProof.* `LastByteInv`: unless the buffer is full its last byte is 0, since
the decoder writes at `current_index` only; this holds on any line. On a good line, while the events go to the decoder, `FrameInv`
cuts the line into one suffix for each packet that is under way
(`Frames`) and says how far the decoder is in the first (`Arrives`): its buffer holds
that many bytes of the packet and zeros, and the line holds the encoding of the
others. `DoneInv` is what dispatch made of the packet handled last. A packet as long
as the buffer, which the decoder refuses, is in it as well: the invariant then says only that the
buffer is full. `FrozenInv` is about the time after a transfer has begun: an event goes past the decoder only with
`transfer_mode` set, and then the decoder stays as it is, with zeros behind its bytes. `ChannelSafe` follows step by step.

*UpgradeProof.* `RequestedImageStable` needs `RequestInv`: `dfu_flash_finish` gave the
context up, and only `dfu_flash_start`, which erases the slot and with it the request, brings
one back. It holds with commands inside images, both sources at once
and every failure but the erase's. `PhaseInv` is why only whole images are requested and why
`image_data_save` has a context: while no call fails, the device is in one of six phases
(`Quiet`, `Told`, `Receiving`, `Downloading`, `Stopped`, `Complete`), each of which ties the queue, the lengths
and the slot to the image under way. In `Receiving` what was stored is what was
counted, of the host's image only, and the parts in the queue continue it, with gaps only
where something was lost; an image with a gap never reaches its length, because
nothing is commanded after a loss (`Undisturbed`). `LeadInv` counts bytes: those on the line,
those queued, and a packet for every unread line that will be taken for a confirmation,
are together at most the packet the script waits for and what confirmed parts fell
short of. It holds for every fault set, lost lines and dropped events included.

*ConnectivityProof.* `SocketInv` says who may hold a socket at each place of the two
threads. `OneRoundPerHangup` needs to know where `main` is: the client has a connection only
while `main` is in its loop or about to return to it, and while `reconnect` is set the client has not come to its next
attempt (`RequestInv`, from `MainFirst` and `SleepOver`); `RoundsInv` then counts
the rounds that were made, the one asked for and the one about to be asked for. Both end with
`pausedOn`, which `MainInv` ties to a pause with the modem on.

Induction over data. The recursive definitions are recursive functions: how far `slip_encode`
has come in a packet, and `SumOf` in a sequence. What they compute for every
input is proved by taking the set of indices where it holds and the first index that is not in it
(`LeastNatural` from the well-foundedness of `<`, then `IndexInduction`), so no
induction theorem with a predicate as its parameter is needed.

What the attempts at these proofs changed in the models: in `TypeOK` of SlipLink the argument
of an upload may hold bytes from behind the buffer (`"unknown"`); `DispatchAssumption` says that the word of a reboot is none of the others;
`PendingImageStable` excludes the failing erase by itself instead of by the fault sets of the run;
`Undisturbed` says that nothing is commanded after a loss (an image with a gap is otherwise
completed by the bytes of later commands); and `LeadBounded` is about a device that runs.

Only model-checked: liveness under fairness (`RecoveryCompletes`, `WriterReturns`,
`AllTransmitted`, `QueueDrains`, `AnnouncedIsInstalled`, `ScriptFinishes`, `WaitEnds`,
`ClientReconnects`, `PeerAccepted`) and with it the fairness that `ImplementsReception` and
`ImplementsChannel` demand (all segments are consumed, all packets arrive). It rests on
`ENABLED`, which the prover does not reason about.

## Abstractions and assumptions

* `RxRdy` with a full queue takes and gives back the reference in one step of
  the interrupt, so it leaves the counter alone. `uart_rx_buf_rsp` refusing a
  block likewise.
* The delay of 20 ms is a step that may happen at any time after `k_work_schedule`.
* `on_packet_received` never sees `k_msgq_put` fail: it has just made room, and no
  other producer exists; that branch is dead.
* `tx_start` never returns 1: the build has no `CONFIG_PM_DEVICE`, and
  `pm_device_state_get` reports an active device. `mutex_tx_put` has one user.
* A `uart_tx` of no bytes is assumed to end with TX_DONE(0).
* When packets are not paced, bytes in transit may be overwritten in the ring
  after `ring_buf_get_finish(0)`; UartTx counts bytes and does not model their contents.
* Upgrade takes a command to be an event of its own, as the host script sends it. Bytes of an
  event behind the packet "transfer(...)" still go to the SLIP decoder; SlipLink has them.
* `PendingImageStable` is not claimed when the erase fails: an upgrade requested
  before stays requested while the slot is written anew.
* `lte_lc_offline` takes a TCP connection with it, which poll reports as POLLHUP or
  as an error, or fails and changes nothing; a modem that is going offline connects nothing.
* `main` has a higher priority than the client and waits nowhere between `lte_lc_offline`, or the end of its
  pause, and `lte_lc_connect` (`MainFirst`). It does wait after that, in `lte_lc_connect` and in
  `lte_lc_lte_mode_get`, and the client may connect meanwhile.
* Of the time-outs only that three seconds are more than two is used (`SleepOver`): a `main` that is in its loop, or
  that has only `lte_lc_lte_mode_get` before it, looks at `reconnect` before the client's sleep is over. This
  takes `lte_lc_lte_mode_get` to need less than a second.
* The descriptor 0 of a socket is one of the standard streams
  (`CONFIG_POSIX_API`), so `if (fd > 0)` before `close` always closes.
* A word that `handle_uart_data` searches for is one byte of the model, its
  length one; no word is part of another.
* The last part of a packet is handed over when the line is idle, whether or not more is
  written meanwhile; a part ends earlier only at the end of the receive block.
* A command of the script is taken not to be split, and the boot of the new image ends the
  behaviour of the line: what was on it is gone.
* The downlink from `recv` to `send_buffer` is the framing (Slip) and the
  transmission (UartTx); that a framed segment may be longer than `send_buffer` is plain
  from the sizes (512 in, up to 1025 out) and what lies behind it is not modelled.

## Not modelled

The contents of `send_buffer` in the downlink (see above), the second descriptor of
`poll`, which is not initialized, and the moment in `uart_handler_init` between `rx_enable`
and `k_work_init_delayable`: reception is modelled from the end of it on. What the TCP
server answers. `modem_shutdown_sem` is never given, so the shutdown in `main` is dead code. Zephyr, its drivers, the FTP client and mcuboot are not in the
repository; what the code relies on is modelled where it is used and marked
external in "map". The patch tools in `scripts/` are sequential command line
programs around external tools, without state of their own. `kill_tcp_server_thread`
and `dfu_page_erase` are never called.

## Plan

Done, in this order: UartRx with its proofs, UartTx, Uplink, Slip with SlipLink,
Upgrade; then Connectivity, SerialUpgrade, Dispatch, Reception as the abstract
receive path, and the end of `uart_handler_init` in UartTx.

Then the proofs, in the order of the table above: every invariant, the action property, and the
safety part of both refinements.

What is left:

1. For the properties of progress that only TLC shows, the safety half: a step that
   brings each of them closer, as an action property with a proof (the recovery never goes
   back to its beginning without a new error, `resend_count` and the queue of the uplink).
2. The downlink as a component of its own, with the size of `send_buffer`.
3. A refinement of Upgrade: a flash slot that is empty, being filled, or requested.
