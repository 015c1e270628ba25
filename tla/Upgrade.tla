------------------------------ MODULE Upgrade ------------------------------
(***************************************************************************)
(* The firmware upgrade: commands and image data over the UART             *)
(* (rx_process and handle_uart_data in src/uart_handler.c), the FTP        *)
(* download and the bookkeeping of the image (src/upgrade_app.c), and the  *)
(* flash side, dfu_flash_start, dfu_data_store and dfu_flash_finish        *)
(* (src/dfu_lib/nrf_dfu_flash.c).                                          *)
(*                                                                         *)
(* rx_process_work and fota_work run one after the other on the system     *)
(* work queue, and ftp_get calls its callbacks on the thread that called   *)
(* it, so a download keeps rx_process waiting; only the UART interrupt     *)
(* runs in between, and adds to rx_event_queue.                            *)
(*                                                                         *)
(* An event of the queue is a whole command or a part of an image.  A byte *)
(* of an image is told by the image and its place in it.  faults names     *)
(* what may go wrong:                                                      *)
(*   malloc, init, erase, write, request                                   *)
(*              calls of the kernel, of the flash and of MCUboot             *)
(*   ftp        the FTP session fails                                      *)
(*   mismatch   the FTP server sends another length than it announces      *)
(*   length     a length cannot be parsed (fetch_file_length)              *)
(*   overrun    the host sends image data without waiting for the device   *)
(*   mixed      commands come at any time, also inside an image            *)
(***************************************************************************)
EXTENDS Naturals, Sequences, FiniteSets

CONSTANTS
  MinLength,    \* 1024 in image_data_save
  Sizes,        \* lengths of the images
  Chunks,       \* lengths of the parts an image arrives in
  QueueLen,     \* messages rx_event_queue holds
  Commands,     \* the commands the host may give
  MaxCommands,  \* bound: how many it gives
  Garbage,      \* what fetch_file_length's variable may hold by itself
  FaultSets     \* what may go wrong together

AllCommands == {"download", "transfer", "reboot"}
AllFaults   == {"malloc", "init", "erase", "write", "request", "ftp",
                "mismatch", "length", "overrun", "mixed"}

ASSUME ConstantsAssumption ==
  /\ MinLength \in Nat
  /\ Sizes \subseteq Nat \ {0}
  /\ Chunks \subseteq Nat \ {0}
  /\ QueueLen \in Nat \ {0}
  /\ Commands \subseteq AllCommands
  /\ MaxCommands \in Nat
  /\ Garbage \subseteq Nat
  /\ FaultSets \subseteq SUBSET AllFaults

VARIABLES
  rx_event_queue,  \* received and not yet handled
  work,            \* the system work queue
  pc,              \* what its thread is doing
  transfer_mode,
  state,           \* enum fota_state
  file_length,     \* upgrade.file_length
  total_length,    \* upgrade.total_length
  dfu,             \* nrf_dfu_flash.c and the secondary slot
  verdict,         \* history: what the log said of the image
  host,            \* the image the host is sending, and what is left of it
  ftp,             \* the same for the FTP server
  commands,        \* commands given so far
  lost,            \* history: an event or an answer was dropped, or a
                   \* download failed
  running,         \* the image the bootloader started last
  faults           \* what may go wrong in this behaviour

upgrade == <<state, file_length, total_length>>
peers   == <<host, ftp, commands, lost>>
vars == <<rx_event_queue, work, pc, transfer_mode, upgrade, dfu, verdict,
          peers, running, faults>>

Images   == {"uart", "ftp"} \X Sizes
NoImage  == <<"none", 0>>
Transfer == [image : Images \cup {NoImage}, left : Nat]
Nothing  == [image |-> NoImage, left |-> 0]

Event == [kind  : AllCommands \cup {"data"},
          image : Images \cup {NoImage}, off : Nat, len : Nat]

(* A command as it arrives: as image data it would be one wrong byte.      *)
Command(kind, image) == [kind |-> kind, image |-> image, off |-> 0, len |-> 1]

DfuT == [ctx     : {"NULL", "ready"},          \* flash_img_context
         images  : SUBSET (Images \cup {NoImage}), \* of which bytes were stored
         stored  : Nat,                        \* bytes stored since the erase
         intact  : BOOLEAN,                    \* each at its place
         pending : BOOLEAN]                    \* an upgrade is requested

Init ==
  /\ rx_event_queue = <<>> /\ work = <<>> /\ pc = "idle"
  /\ transfer_mode = FALSE
  /\ state = "IDLE" /\ file_length = 0 /\ total_length = 0
  /\ dfu = [ctx |-> "NULL", images |-> {}, stored |-> 0, intact |-> TRUE,
            pending |-> FALSE]
  /\ verdict = "none"
  /\ host = Nothing /\ ftp = Nothing /\ commands = 0 /\ lost = FALSE
  /\ running = NoImage /\ faults \in FaultSets

(* The slot holds one image, all of it and nothing else.                   *)
Whole(d) == d.intact /\ \E i \in Images : d.images = {i} /\ d.stored = i[2]

-----------------------------------------------------------------------------
(* nrf_dfu_flash.c: every outcome of a call, given what may go wrong.      *)

(* dfu_flash_start.  dfu_lock always succeeds: dfu_flash_module is NULL,   *)
(* the very value of DFU_UNLOCKED.  A failure of flash_img_init leaves no  *)
(* context but is forgotten, the result is the one of the erase.           *)
Erased(d) ==
  { [dfu |-> [d EXCEPT !.images = {}, !.stored = 0, !.intact = TRUE,
                       !.pending = FALSE], rc |-> 0] }
  \cup IF "erase" \in faults
       THEN {[dfu |-> [d EXCEPT !.intact = FALSE], rc |-> 1]} ELSE {}

StartedNoContext(d) == Erased(d)  \* mutant: without the allocation

Started(d) ==
  Erased([d EXCEPT !.ctx = "ready"])
  \cup (IF "init" \in faults THEN Erased([d EXCEPT !.ctx = "NULL"]) ELSE {})
  \cup (IF "malloc" \in faults /\ d.ctx = "NULL" THEN {[dfu |-> d, rc |-> 1]} ELSE {})

(* dfu_data_store of len bytes of an image, from off.                      *)
Stored(d, image, off, len) ==
  LET good == [d EXCEPT !.images = @ \cup {image}, !.stored = @ + len,
                        !.intact = @ /\ off = d.stored]
  IN {good} \cup IF "write" \in faults THEN {[good EXCEPT !.intact = FALSE]} ELSE {}

(* boot_request_upgrade.                                                   *)
Requested(d) ==
  {[d EXCEPT !.pending = TRUE]} \cup IF "request" \in faults THEN {d} ELSE {}

FinishedKeepsCtx(d) == Requested(d)  \* mutant: ctx is not freed

(* dfu_flash_finish.  A request that fails is only logged.                 *)
Finished(d) == Requested([d EXCEPT !.ctx = "NULL"])

-----------------------------------------------------------------------------
(* upgrade_app.c.                                                          *)

SubmittedAgain(w, item) == Append(w, item)  \* mutant: an item for every call

(* k_work_submit: an item that waits already is not added again.           *)
Submitted(w, item) ==
  IF \E i \in DOMAIN w : w[i] = item THEN w ELSE Append(w, item)

(* apply_state of UPDATE_DOWNLOAD and UPDATE_APPLY.                        *)
apply_state_only(new_state) ==  \* mutant: without k_work_submit
  state' = new_state /\ UNCHANGED work

apply_state(new_state) ==
  state' = new_state /\ work' = Submitted(work, "fota")

(* fetch_file_length: an uninitialized variable when parsing fails.        *)
FetchedLength(len) == {len} \cup IF "length" \in faults THEN Garbage ELSE {}

(* image_data_save.  What dfu_data_store returns is only logged.  It uses  *)
(* the context, so without one the processor faults.                       *)
LastEarly(len) == total_length + len + 1 >= file_length  \* mutant: a byte early

Last(len) == total_length + len >= file_length

NoContext(len) ==
  dfu.ctx = "NULL" /\ (Last(len) => file_length > MinLength)

image_data_save(image, off, len) ==
  /\ total_length' = total_length + len
  /\ \/ ~Last(len) /\ dfu' \in Stored(dfu, image, off, len)
     \/ /\ Last(len) /\ file_length > MinLength
        /\ \E d \in Stored(dfu, image, off, len) : dfu' \in Finished(d)
     \/ Last(len) /\ file_length <= MinLength /\ UNCHANGED dfu

Fault ==
  /\ pc' = "fault"
  /\ UNCHANGED <<rx_event_queue, work, transfer_mode, upgrade, dfu, verdict,
                 peers, running>>

-----------------------------------------------------------------------------
(* The UART interrupt, and the host that causes it.                        *)

Arrives(e) ==
  \/ /\ Len(rx_event_queue) < QueueLen
     /\ rx_event_queue' = Append(rx_event_queue, e)
     /\ work' = Submitted(work, "rx")
     /\ UNCHANGED lost
  \/ /\ Len(rx_event_queue) = QueueLen
     /\ lost' = TRUE
     /\ UNCHANGED <<rx_event_queue, work>>

DeviceReady == rx_event_queue = <<>> /\ pc = "idle" /\ work = <<>>

Announce(s) ==
  /\ Arrives(Command("transfer", <<"uart", s>>))
  /\ host' = [image |-> <<"uart", s>>, left |-> s]

GiveCommand ==
  /\ pc # "fault" /\ commands < MaxCommands
  /\ "mixed" \in faults \/ (DeviceReady /\ host.left = 0)
  /\ commands' = commands + 1
  /\ \/ \E c \in Commands \ {"transfer"} :
          Arrives(Command(c, NoImage)) /\ UNCHANGED host
     \/ "transfer" \in Commands /\ \E s \in Sizes : Announce(s)
  /\ UNCHANGED <<pc, transfer_mode, upgrade, dfu, verdict, ftp, running>>

DataArrives(n) ==
  /\ pc # "fault" /\ n <= host.left
  /\ Arrives([kind |-> "data", image |-> host.image,
              off |-> host.image[2] - host.left, len |-> n])
  /\ host' = [host EXCEPT !.left = @ - n]
  /\ UNCHANGED <<pc, transfer_mode, upgrade, dfu, verdict, ftp, commands, running>>

SendData ==
  /\ "overrun" \in faults \/ DeviceReady
  /\ \E n \in Chunks : DataArrives(n)

-----------------------------------------------------------------------------
(* The system work queue.                                                  *)

WorkStart ==
  /\ pc = "idle" /\ work # <<>>
  /\ pc' = Head(work)
  /\ work' = Tail(work)
  /\ UNCHANGED <<rx_event_queue, transfer_mode, upgrade, dfu, verdict, peers, running>>

(* rx_process: the queue is empty.                                         *)
RxEnd ==
  /\ pc = "rx" /\ rx_event_queue = <<>>
  /\ pc' = "idle"
  /\ UNCHANGED <<rx_event_queue, work, transfer_mode, upgrade, dfu, verdict, peers, running>>

(* rx_process in transfer mode: whatever arrives is image data.            *)
SaveEvent ==
  /\ pc = "rx" /\ rx_event_queue # <<>> /\ transfer_mode
  /\ LET e == Head(rx_event_queue) IN
     \/ NoContext(e.len) /\ Fault
     \/ /\ ~NoContext(e.len)
        /\ image_data_save(IF e.kind = "data" THEN e.image ELSE NoImage, e.off, e.len)
        /\ \/ /\ file_length = total_length'
              /\ apply_state("UPDATE_APPLY")
              /\ verdict' = "completed"
           \/ /\ file_length # total_length'
              /\ UNCHANGED <<state, work, verdict>>
        /\ rx_event_queue' = Tail(rx_event_queue)
        /\ UNCHANGED <<pc, transfer_mode, file_length, peers, running>>

(* rx_process otherwise: handle_uart_data of a packet; bytes that are not  *)
(* a packet come to nothing.                                               *)
HandlePacket ==
  /\ pc = "rx" /\ rx_event_queue # <<>> /\ ~transfer_mode
  /\ rx_event_queue' = Tail(rx_event_queue)
  /\ LET e == Head(rx_event_queue) IN
     \/ /\ e.kind = "download"
        /\ apply_state("UPDATE_DOWNLOAD")
        /\ UNCHANGED <<transfer_mode, file_length, total_length, dfu, verdict>>
     \/ /\ e.kind = "transfer"
        /\ transfer_mode' = TRUE
        /\ \E r \in Started(dfu) : dfu' = r.dfu
        /\ total_length' = 0
        /\ file_length' \in FetchedLength(e.image[2])
        /\ verdict' = "none"
        /\ UNCHANGED <<state, work>>
     \/ /\ e.kind = "reboot"
        /\ apply_state("UPDATE_APPLY")
        /\ UNCHANGED <<transfer_mode, file_length, total_length, dfu, verdict>>
     \/ /\ e.kind = "data"
        /\ UNCHANGED <<transfer_mode, upgrade, work, dfu, verdict>>
  /\ UNCHANGED <<pc, peers, running>>

(* fota_work_cb, UPDATE_DOWNLOAD: start_dfu_process up to its download.    *)
StartDownload ==
  /\ pc = "fota" /\ state = "UPDATE_DOWNLOAD"
  /\ file_length' = 0 /\ total_length' = 0
  /\ \E r \in Started(dfu) :
       /\ dfu' = r.dfu
       /\ pc' = IF r.rc = 0 THEN "open" ELSE "idle"
  /\ verdict' = "none"
  /\ UNCHANGED <<rx_event_queue, work, transfer_mode, state, peers, running>>

(* download_image_file: the session is open and ftp_get asks for the file; *)
(* the reply 150 announces its length (ftp_ctrl_callback).                 *)
FtpOpen ==
  /\ pc = "open"
  /\ \E s \in Sizes :
       /\ file_length' \in FetchedLength(s)
       /\ \E n \in {s} \cup IF "mismatch" \in faults THEN Sizes ELSE {} :
            ftp' = [image |-> <<"ftp", n>>, left |-> n]
  /\ pc' = "get"
  /\ UNCHANGED <<rx_event_queue, work, transfer_mode, state, total_length, dfu,
                 verdict, host, commands, lost, running>>

(* ftp_data_callback.                                                      *)
FtpData ==
  /\ pc = "get"
  /\ \E n \in Chunks :
       /\ n <= ftp.left
       /\ \/ NoContext(n) /\ Fault
          \/ /\ ~NoContext(n)
             /\ image_data_save(ftp.image, ftp.image[2] - ftp.left, n)
             /\ ftp' = [ftp EXCEPT !.left = @ - n]
             /\ UNCHANGED <<rx_event_queue, work, pc, transfer_mode, state,
                            file_length, verdict, host, commands, lost,
                            running>>

(* ftp_get returns 226: the file is complete or corrupted; then ftp_close. *)
FtpEnd ==
  /\ pc = "get" /\ ftp.left = 0
  /\ \/ /\ file_length = total_length
        /\ apply_state("UPDATE_APPLY")
        /\ verdict' = "completed"
     \/ /\ file_length # total_length
        /\ verdict' = "corrupted"
        /\ UNCHANGED <<state, work>>
  /\ pc' = "idle"
  /\ UNCHANGED <<rx_event_queue, transfer_mode, file_length, total_length, dfu,
                 peers, running>>

(* ftp_open, ftp_login, ftp_status or ftp_type fails ...                   *)
SessionFails ==
  /\ pc = "open" /\ "ftp" \in faults
  /\ pc' = "idle" /\ lost' = TRUE
  /\ UNCHANGED <<rx_event_queue, work, transfer_mode, upgrade, dfu, verdict,
                 host, ftp, commands, running>>

(* ... or ftp_get does: what has been stored of the image stays.           *)
GetFails ==
  /\ pc = "get" /\ "ftp" \in faults
  /\ pc' = "idle" /\ lost' = TRUE
  /\ UNCHANGED <<rx_event_queue, work, transfer_mode, upgrade, dfu, verdict,
                 host, ftp, commands, running>>

(* fota_work_cb, UPDATE_APPLY: sys_reboot.  Memory is lost; the bootloader *)
(* starts an image that was requested and that it finds whole.             *)
Reboot ==
  /\ pc = "fota" /\ state = "UPDATE_APPLY"
  /\ rx_event_queue' = <<>> /\ work' = <<>> /\ pc' = "idle"
  /\ transfer_mode' = FALSE
  /\ state' = "IDLE" /\ file_length' = 0 /\ total_length' = 0
  /\ dfu' = [dfu EXCEPT !.ctx = "NULL", !.pending = FALSE]
  /\ running' = IF dfu.pending /\ Whole(dfu)
                THEN CHOOSE i \in Images : dfu.images = {i} ELSE running
  /\ verdict' = "none"
  /\ host' = Nothing /\ ftp' = Nothing
  /\ UNCHANGED <<commands, lost>>

-----------------------------------------------------------------------------
Thread ==
  /\ \/ WorkStart \/ RxEnd \/ SaveEvent \/ HandlePacket
     \/ StartDownload \/ FtpOpen \/ FtpData \/ FtpEnd \/ Reboot
  /\ UNCHANGED faults

HostGoesOn == SendData /\ UNCHANGED faults

Others == (GiveCommand \/ SessionFails \/ GetFails) /\ UNCHANGED faults

Next == Thread \/ HostGoesOn \/ Others

Spec == Init /\ [][Next]_vars

(* The work queue runs and the host goes on with an image it has begun.    *)
FairSpec == Spec /\ WF_vars(Thread) /\ WF_vars(HostGoesOn)

-----------------------------------------------------------------------------
TypeOK ==
  /\ rx_event_queue \in Seq(Event) /\ Len(rx_event_queue) <= QueueLen
  /\ work \in Seq({"rx", "fota"}) /\ Len(work) <= 2
  /\ pc \in {"idle", "rx", "fota", "open", "get", "fault"}
  /\ transfer_mode \in BOOLEAN
  /\ state \in {"IDLE", "UPDATE_DOWNLOAD", "UPDATE_APPLY"}
  /\ file_length \in Nat /\ total_length \in Nat
  /\ dfu \in DfuT
  /\ verdict \in {"none", "completed", "corrupted"}
  /\ host \in Transfer /\ ftp \in Transfer /\ commands \in Nat /\ lost \in BOOLEAN
  /\ running \in Images \cup {NoImage}

(* No call fails and no command comes inside an image; the host may run   *)
(* ahead, and FTP fail, but nothing is commanded after what was lost: later *)
(* commands would be taken for the bytes that are missing.                 *)
Undisturbed == faults \subseteq {"overrun", "ftp"} /\ (lost => commands <= 1)

(* An upgrade is requested for a whole image only, of one origin, while no *)
(* call fails: a lost event or a failed download leads to no request       *)
(* rather than to a wrong one (the lengths image_data_save counts against  *)
(* what dfu_data_store stored).                                            *)
PendingIsWhole == dfu.pending /\ Undisturbed => Whole(dfu)

(* image_data_save never writes without a context, whatever commands       *)
(* follow one another (dfu_flash_finish gives the context up, only         *)
(* dfu_flash_start allocates it).                                          *)
NoFault == Undisturbed => pc # "fault"

(* A requested image is not touched any more, whatever fails but the erase *)
(* itself: the slot stays as it is until it is erased or the bootloader    *)
(* has taken it (dfu_flash_finish gives the context up).                   *)
PendingImageStable ==
  [][dfu.pending /\ dfu'.pending /\ "erase" \notin faults =>
       UNCHANGED <<dfu.images, dfu.stored, dfu.intact>>]_vars

(* An image that was announced is installed, whichever way it comes and    *)
(* whatever came before, unless something of it is lost (handle_uart_data, *)
(* image_data_save, apply_state and fota_work_cb together).                *)
AnnouncedIsInstalled ==
  file_length > MinLength /\ faults \subseteq {"overrun", "ftp"}
    ~> running # NoImage \/ lost

(* "File is corrupted, drop it!": what was received is not used.           *)
CorruptedIsDropped == verdict = "corrupted" => ~dfu.pending
=============================================================================
