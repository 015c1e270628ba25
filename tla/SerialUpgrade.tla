--------------------------- MODULE SerialUpgrade ---------------------------
(***************************************************************************)
(* The upgrade over the UART by the host's script (send_firmware in        *)
(* src/scripts/serial_upgrade.py), composed with the device of Upgrade.    *)
(*                                                                         *)
(* The script takes lines of the device's log for answers: one "Fetch file *)
(* length:" for the command, one "Received image:" for each packet.  The   *)
(* device prints the latter once for every part that the UART hands over:  *)
(* a part ends with the receive block, where the bytes of the command have *)
(* been before, or when the line is idle (src/uart_handler.c).             *)
(***************************************************************************)
EXTENDS Upgrade

CONSTANTS
  PacketSize,  \* PACKET_SIZE
  BlockSize,   \* bytes of a receive block
  LogLimit     \* 708 in image_data_save

ASSUME SerialAssumption ==
  PacketSize \in Nat \ {0} /\ BlockSize \in Nat \ {0, 1} /\ LogLimit \in Nat

VARIABLES
  script,   \* where send_firmware is; "none": another program is the host
  total,    \* total_size
  offset,   \* bytes the script takes to be confirmed
  wire,     \* bytes written and not yet handed over to the device
  room,     \* bytes free in the receive block in use
  log,      \* lines the script has not read
  missed,   \* history: the reboot came before the log was printed
  short     \* history: by how much the parts received so far fall short of a
            \* packet each

host_side == <<script, total, offset>>
line      == <<wire, room>>
report    == <<log, missed, short>>
serial    == <<host_side, line, report>>
allVars   == <<vars, serial>>

SerialInit ==
  /\ Init
  /\ script \in {"none", "start"}
  /\ script = "start" => faults \cap {"overrun", "mixed"} = {}
  /\ total = 0 /\ offset = 0 /\ wire = 0 /\ room = BlockSize
  /\ log = <<>> /\ missed = FALSE /\ short = 0

-----------------------------------------------------------------------------
(* send_firmware.                                                          *)

ScriptStart ==
  /\ script = "start"
  /\ \E s \in Sizes : Announce(s) /\ total' = s
  /\ script' = "confirm"
  /\ commands' = commands + 1
  /\ room' = room - 1
  /\ UNCHANGED <<pc, transfer_mode, upgrade, dfu, verdict, ftp, running,
                 offset, wire, report>>

(* A line is read while the length is waited for.                          *)
ScriptConfirm ==
  /\ script = "confirm" /\ log # <<>>
  /\ log' = Tail(log)
  /\ script' = IF Head(log) = "Fetch file length:" THEN "write" ELSE script
  /\ UNCHANGED <<vars, total, offset, line, missed, short>>

PacketLen == IF total - offset < PacketSize THEN total - offset ELSE PacketSize

ScriptWriteOn ==  \* mutant: the answer is not waited for
  /\ script = "write"
  /\ wire' = wire + PacketLen
  /\ offset' = offset + PacketLen
  /\ script' = IF offset' < total THEN "write" ELSE "done"
  /\ UNCHANGED <<vars, total, room, report>>

ScriptWrite ==
  /\ script = "write"
  /\ wire' = wire + PacketLen
  /\ script' = "ack"
  /\ UNCHANGED <<vars, total, offset, room, report>>

(* A line is read while "Received image:" is waited for.                   *)
ScriptAck ==
  /\ script = "ack" /\ log # <<>>
  /\ log' = Tail(log)
  /\ \/ /\ Head(log) = "Received image:"
        /\ offset' = offset + PacketLen
        /\ script' = IF offset' < total THEN "write" ELSE "done"
     \/ /\ Head(log) # "Received image:"
        /\ UNCHANGED <<offset, script>>
  /\ UNCHANGED <<vars, total, line, missed, short>>

Script == ScriptStart \/ ScriptConfirm \/ ScriptWrite \/ ScriptAck

-----------------------------------------------------------------------------
(* The line: a part is as long as the block has room, or is all that has   *)
(* been written before the line became idle.                               *)

Part == IF wire < room THEN wire ELSE room

Deliver ==
  /\ wire > 0
  /\ DataArrives(Part)
  /\ wire' = wire - Part
  /\ room' = IF Part = room THEN BlockSize ELSE room - Part
  /\ UNCHANGED <<host_side, report>>

(* A line of the log is dropped, of those the script has not read.         *)
LogLost ==
  /\ log # <<>>
  /\ log' = Tail(log) /\ lost' = TRUE
  /\ UNCHANGED <<rx_event_queue, work, pc, transfer_mode, upgrade, dfu, verdict,
                 host, ftp, commands, running, host_side, line, missed, short>>

-----------------------------------------------------------------------------
(* The device, as in Upgrade, and what it prints.                          *)

LogPrinted(l) == log' = IF script = "none" THEN log ELSE log \o l

ReportedPackets(len) == len >= PacketSize  \* mutant: only whole packets are reported

Reported(len) == len < LogLimit

DeviceSaves ==
  /\ SaveEvent
  /\ LET len == Head(rx_event_queue).len IN
       /\ LogPrinted(IF Reported(len) THEN <<"Received image:">> ELSE <<>>)
       /\ short' = IF script = "none" \/ len > PacketSize
                   THEN short ELSE short + (PacketSize - len)
  /\ UNCHANGED <<host_side, line, missed>>

(* rx_process logs the packet, fetch_file_length the length if it can be   *)
(* parsed.                                                                 *)
DeviceHandles ==
  /\ HandlePacket
  /\ LET e == Head(rx_event_queue) IN
     \/ /\ e.kind = "transfer" /\ file_length' = e.image[2]
        /\ LogPrinted(<<"Uart received:", "Fetch file length:">>)
     \/ /\ e.kind = "transfer" /\ "length" \in faults /\ file_length' \in Garbage
        /\ LogPrinted(<<"Uart received:", "Can not fetch file length">>)
     \/ e.kind # "transfer" /\ UNCHANGED log
  /\ UNCHANGED <<host_side, line, missed, short>>

(* The log thread has the lowest priority: what it has not printed is lost.*)
DeviceReboots ==
  /\ Reboot
  /\ log' \in {log, <<>>} /\ missed' = (missed \/ log' # log)
  /\ wire' = 0 /\ room' = BlockSize
  /\ UNCHANGED <<host_side, short>>

Device ==
  /\ \/ DeviceSaves \/ DeviceHandles \/ DeviceReboots
     \/ /\ WorkStart \/ RxEnd \/ StartDownload \/ FtpOpen \/ FtpData \/ FtpEnd
        /\ UNCHANGED serial
  /\ UNCHANGED faults

(* Another program on the host, which does not read the log.               *)
OtherHost == script = "none" /\ HostGoesOn /\ UNCHANGED serial

OtherSteps == script = "none" /\ Others /\ UNCHANGED serial

SerialNext ==
  \/ Device \/ OtherHost \/ OtherSteps
  \/ (Script \/ Deliver \/ LogLost) /\ UNCHANGED faults

SerialSpec == SerialInit /\ [][SerialNext]_allVars

(* The threads, the script and the line go on; no line need be lost.       *)
FairSerialSpec ==
  /\ SerialSpec
  /\ WF_allVars(Device) /\ WF_allVars(OtherHost)
  /\ WF_allVars(Script /\ UNCHANGED faults)
  /\ WF_allVars(Deliver /\ UNCHANGED faults)

-----------------------------------------------------------------------------
SerialTypeOK ==
  /\ TypeOK
  /\ script \in {"none", "start", "confirm", "write", "ack", "done"}
  /\ total \in Nat /\ offset \in Nat /\ offset <= total
  /\ wire \in Nat /\ room \in 1..BlockSize
  /\ log \in Seq({"Uart received:", "Fetch file length:",
                  "Can not fetch file length", "Received image:"})
  /\ missed \in BOOLEAN /\ short \in Nat

SumOf(s) ==
  LET upto[i \in 0 .. Len(s)] == IF i = 0 THEN 0 ELSE upto[i - 1] + s[i]
  IN upto[Len(s)]

(* Bytes of the image in rx_event_queue.                                   *)
Queued == SumOf([i \in 1 .. Len(rx_event_queue) |->
            IF rx_event_queue[i].kind = "data" THEN rx_event_queue[i].len ELSE 0])

(* What the script has written ahead of a device that runs is one packet,  *)
(* and what the parts that the device confirmed fell short of a packet: a  *)
(* part of a few bytes is worth a whole packet to the script.              *)
(* rx_event_queue has to hold that lead.                                   *)
LeadBounded ==
  script # "none" /\ pc # "fault" => wire + Queued <= PacketSize + short

(* The script gets through an image that is announced and long enough,     *)
(* unless a call fails or bytes or lines of the log are lost: the parts    *)
(* are never fewer than the packets, and each is reported.                 *)
ScriptFinishes ==
  script = "confirm" /\ faults = {} ~> script = "done" \/ lost \/ missed

(* "wait for device to confirm each packet before sending next packet":    *)
(* when the next one is to be sent, the device has taken all before it.    *)
ConfirmsEach == script = "write" => wire = 0 /\ Queued = 0
=============================================================================
