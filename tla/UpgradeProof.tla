---------------------------- MODULE UpgradeProof ----------------------------
(***************************************************************************)
(* Theorems about Upgrade and SerialUpgrade: for images and parts of any   *)
(* length, any queue, any number of commands, and every set of faults.     *)
(***************************************************************************)
EXTENDS SerialUpgrade, SequenceTheorems, WellFoundedInduction, TLAPS

-----------------------------------------------------------------------------
(* Types.  k_work_submit leaves an item that waits where it is, so the     *)
(* work queue has one of these values.                                     *)
WorkT == {<<>>, <<"rx">>, <<"fota">>, <<"rx", "fota">>, <<"fota", "rx">>}

DeviceType ==
  /\ TypeOK
  /\ work \in WorkT
  /\ host.left <= host.image[2] /\ ftp.left <= ftp.image[2]

ScriptType ==
  /\ script \in {"none", "start", "confirm", "write", "ack", "done"}
  /\ total \in Nat /\ offset \in Nat /\ offset <= total
  /\ wire \in Nat /\ room \in 1 .. BlockSize
  /\ log \in Seq({"Uart received:", "Fetch file length:",
                  "Can not fetch file length", "Received image:"})
  /\ missed \in BOOLEAN /\ short \in Nat
  /\ script = "start" => offset = 0 /\ wire = 0 /\ room = BlockSize

TypeInv == DeviceType /\ ScriptType

-----------------------------------------------------------------------------
(* dfu_flash_finish gives the context up and only dfu_flash_start, which   *)
(* erases the slot, allocates one.                                         *)
RequestInv == "erase" \notin faults /\ dfu.pending => dfu.ctx = "NULL"

-----------------------------------------------------------------------------
(* While no call fails an upgrade goes through phases.                     *)

(* Between the bytes up to x and those from y on nothing, or what was lost.*)
Reaches(x, y) == x <= y /\ (x = y \/ lost)

Size == host.image[2]

(* Where in the image the i-th event of the queue begins.                  *)
From(i) ==
  IF i <= Len(rx_event_queue) THEN rx_event_queue[i].off ELSE Size - host.left

(* From its first event on the queue holds parts of the host's image, in   *)
(* order.                                                                  *)
PartInOrder(i) ==
  LET e == rx_event_queue[i] IN
    /\ e.kind = "data" /\ e.image = host.image /\ e.len > 0
    /\ e.off + e.len <= Size - host.left
    /\ Reaches(e.off + e.len, From(i + 1))

Parts(first) ==
  /\ host.image \in {"uart"} \X Sizes
  /\ \A i \in first .. Len(rx_event_queue) : PartInOrder(i)

RxTurn == pc \in {"idle", "rx"} /\ work \in {<<>>, <<"rx">>}

FotaTurn ==
  \/ pc \in {"idle", "rx"} /\ work \in {<<"fota">>, <<"rx", "fota">>}
  \/ pc = "fota" /\ work = <<>>

NothingComes == rx_event_queue = <<>> /\ host.left = 0

(* Nothing was asked for.                                                  *)
Quiet ==
  /\ NothingComes /\ pc = "idle" /\ work = <<>>
  /\ ~ transfer_mode /\ state = "IDLE" /\ ~ dfu.pending

(* A command waits; behind a transfer the image may be coming already.     *)
Told ==
  /\ commands > 0
  /\ RxTurn /\ ~ transfer_mode /\ state = "IDLE" /\ ~ dfu.pending
  /\ rx_event_queue # <<>>
  /\ \/ /\ rx_event_queue[1].kind \in {"download", "reboot"}
        /\ Len(rx_event_queue) = 1 /\ host.left = 0
     \/ /\ rx_event_queue[1].kind = "transfer"
        /\ rx_event_queue[1].image = host.image
        /\ Parts(2) /\ Reaches(0, From(2))

(* An image of which something is still missing.                           *)
Receiving ==
  /\ commands > 0
  /\ RxTurn /\ transfer_mode /\ state = "IDLE" /\ Parts(1)
  /\ dfu.ctx = "ready" /\ ~ dfu.pending
  /\ dfu.images \subseteq {host.image} /\ dfu.stored = total_length
  /\ file_length = Size /\ total_length < Size
  /\ Reaches(total_length, From(1))
  /\ total_length = From(1) => dfu.intact

(* The download, from the command to the end of ftp_get.                   *)
Downloading ==
  /\ commands > 0
  /\ NothingComes /\ ~ transfer_mode /\ state = "UPDATE_DOWNLOAD"
  /\ \/ FotaTurn /\ ~ dfu.pending
     \/ /\ pc = "open" /\ work = <<>>
        /\ dfu.ctx = "ready" /\ ~ dfu.pending
        /\ dfu.images = {} /\ dfu.stored = 0 /\ dfu.intact
        /\ total_length = 0
     \/ /\ pc = "get" /\ work = <<>>
        /\ ftp.image \in {"ftp"} \X Sizes
        /\ file_length = ftp.image[2]
        /\ total_length = ftp.image[2] - ftp.left
        /\ \/ /\ ftp.left > 0 /\ dfu.ctx = "ready" /\ ~ dfu.pending
              /\ dfu.images \subseteq {ftp.image} /\ dfu.stored = total_length
              /\ dfu.intact
           \/ ftp.left = 0 /\ (dfu.pending => Whole(dfu))

(* The download failed; the device waits for a command.                    *)
Stopped ==
  /\ commands > 0 /\ lost /\ NothingComes
  /\ pc = "idle" /\ work = <<>> /\ ~ transfer_mode
  /\ dfu.pending => Whole(dfu)

(* The device is about to restart.                                         *)
Complete ==
  /\ commands > 0
  /\ NothingComes /\ FotaTurn /\ state = "UPDATE_APPLY"
  /\ dfu.pending => Whole(dfu)

PhaseInv ==
  Undisturbed =>
    /\ Quiet \/ Told \/ Receiving \/ Downloading \/ Stopped \/ Complete
    /\ script = "start" => Quiet

-----------------------------------------------------------------------------
(* The work queue.                                                         *)
LEMMA WorkType ==
  ASSUME NEW w \in WorkT
  PROVE  /\ w \in Seq({"rx", "fota"}) /\ Len(w) <= 2
         /\ w # <<>> => Head(w) \in {"rx", "fota"} /\ Tail(w) \in WorkT
<1>1. CASE w = <<>>
  BY <1>1, EmptySeq
<1>2. CASE w = <<"rx">>
  BY <1>2 DEF WorkT
<1>3. CASE w = <<"fota">>
  BY <1>3 DEF WorkT
<1>4. CASE w = <<"rx", "fota">>
  BY <1>4 DEF WorkT
<1>5. CASE w = <<"fota", "rx">>
  BY <1>5 DEF WorkT
<1>6. QED BY <1>1, <1>2, <1>3, <1>4, <1>5 DEF WorkT

(* A second item of a queue.                                               *)
LEMMA AppendOne ==
  ASSUME NEW S, NEW a \in S, NEW b \in S
  PROVE  Append(<<a>>, b) = <<a, b>>
<1> DEFINE s == <<a>>
           t == Append(s, b)
           u == <<a, b>>
<1>1. s \in Seq(S) /\ Len(s) = 1 /\ s[1] = a
  OBVIOUS
<1>2. u \in Seq(S) /\ Len(u) = 2 /\ u[1] = a /\ u[2] = b
  OBVIOUS
<1> HIDE DEF s, u
<1>3. t \in Seq(S) /\ Len(t) = 2 /\ t[1] = a /\ t[2] = b
  <2>1. /\ t \in Seq(S) /\ Len(t) = Len(s) + 1
        /\ \A i \in 1 .. Len(s) : t[i] = s[i]
        /\ t[Len(s) + 1] = b
    BY <1>1, AppendProperties, ZenonT(40)
  <2> HIDE DEF t
  <2>2. QED BY <1>1, <2>1
<1> HIDE DEF t
<1>4. \A i \in 1 .. 2 : t[i] = u[i]
  BY <1>2, <1>3
<1>5. t = u
  BY <1>2, <1>3, <1>4, SeqEqual
<1>6. QED BY <1>5 DEF s, t, u

(* What k_work_submit makes of it.                                         *)
LEMMA SubmittedRx ==
  /\ Submitted(<<>>, "rx") = <<"rx">>
  /\ Submitted(<<"rx">>, "rx") = <<"rx">>
  /\ Submitted(<<"fota">>, "rx") = <<"fota", "rx">>
  /\ Submitted(<<"rx", "fota">>, "rx") = <<"rx", "fota">>
  /\ Submitted(<<"fota", "rx">>, "rx") = <<"fota", "rx">>
<1>1. Submitted(<<>>, "rx") = <<"rx">>
  BY DEF Submitted
<1>2. Submitted(<<"rx">>, "rx") = <<"rx">>
  BY DEF Submitted
<1>3. Submitted(<<"fota">>, "rx") = <<"fota", "rx">>
  <2> DEFINE w == <<"fota">>
  <2>1. Append(w, "rx") = <<"fota", "rx">>
    <3>1. "rx" \in {"rx", "fota"} /\ "fota" \in {"rx", "fota"}
      OBVIOUS
    <3>2. QED BY <3>1, AppendOne, Zenon DEF w
  <2>2. DOMAIN w = {1} /\ w[1] = "fota"
    OBVIOUS
  <2> HIDE DEF w
  <2>3. Submitted(w, "rx") = Append(w, "rx")
    BY <2>2 DEF Submitted
  <2>4. QED BY <2>1, <2>3 DEF w
<1>4. Submitted(<<"rx", "fota">>, "rx") = <<"rx", "fota">>
  BY DEF Submitted
<1>5. Submitted(<<"fota", "rx">>, "rx") = <<"fota", "rx">>
  BY DEF Submitted
<1>6. QED BY <1>1, <1>2, <1>3, <1>4, <1>5

(* The same for the item of the upgrade.                                   *)
LEMMA SubmittedFota ==
  /\ Submitted(<<>>, "fota") = <<"fota">>
  /\ Submitted(<<"fota">>, "fota") = <<"fota">>
  /\ Submitted(<<"rx">>, "fota") = <<"rx", "fota">>
  /\ Submitted(<<"rx", "fota">>, "fota") = <<"rx", "fota">>
  /\ Submitted(<<"fota", "rx">>, "fota") = <<"fota", "rx">>
<1>1. Submitted(<<>>, "fota") = <<"fota">>
  BY DEF Submitted
<1>2. Submitted(<<"fota">>, "fota") = <<"fota">>
  BY DEF Submitted
<1>3. Submitted(<<"rx">>, "fota") = <<"rx", "fota">>
  <2> DEFINE w == <<"rx">>
  <2>1. Append(w, "fota") = <<"rx", "fota">>
    <3>1. "fota" \in {"rx", "fota"} /\ "rx" \in {"rx", "fota"}
      OBVIOUS
    <3>2. QED BY <3>1, AppendOne, Zenon DEF w
  <2>2. DOMAIN w = {1} /\ w[1] = "rx"
    OBVIOUS
  <2> HIDE DEF w
  <2>3. Submitted(w, "fota") = Append(w, "fota")
    BY <2>2 DEF Submitted
  <2>4. QED BY <2>1, <2>3 DEF w
<1>4. Submitted(<<"rx", "fota">>, "fota") = <<"rx", "fota">>
  BY DEF Submitted
<1>5. Submitted(<<"fota", "rx">>, "fota") = <<"fota", "rx">>
  BY DEF Submitted
<1>6. QED BY <1>1, <1>2, <1>3, <1>4, <1>5

(* k_work_submit keeps the work queue of its type.                         *)
LEMMA SubmittedType ==
  ASSUME NEW w \in WorkT
  PROVE  Submitted(w, "rx") \in WorkT /\ Submitted(w, "fota") \in WorkT
<1>1. \/ w = <<>> \/ w = <<"rx">> \/ w = <<"fota">>
      \/ w = <<"rx", "fota">> \/ w = <<"fota", "rx">>
  BY Zenon DEF WorkT
<1>2. Submitted(w, "rx") \in WorkT
  BY <1>1, SubmittedRx, Zenon DEF WorkT
<1>3. Submitted(w, "fota") \in WorkT
  BY <1>1, SubmittedFota, Zenon DEF WorkT
<1>4. QED BY <1>2, <1>3

-----------------------------------------------------------------------------
(* nrf_dfu_flash.c, field by field.                                        *)
LEMMA ErasedFields ==
  ASSUME NEW d \in DfuT, NEW r \in Erased(d)
  PROVE  /\ r.dfu \in DfuT /\ r.dfu.ctx = d.ctx
         /\ \/ /\ r.rc = 0 /\ r.dfu.images = {} /\ r.dfu.stored = 0
               /\ r.dfu.intact /\ ~ r.dfu.pending
            \/ "erase" \in faults /\ r.rc = 1
<1>1. CASE r = [dfu |-> [d EXCEPT !.images = {}, !.stored = 0, !.intact = TRUE,
                                  !.pending = FALSE], rc |-> 0]
  <2> DEFINE e == [d EXCEPT !.images = {}, !.stored = 0, !.intact = TRUE,
                            !.pending = FALSE]
  <2>1. e.images = {} /\ e.stored = 0 /\ e.ctx = d.ctx
    BY DEF DfuT
  <2>2. e.intact = TRUE
    BY DEF DfuT
  <2>3. e.pending = FALSE
    BY DEF DfuT
  <2>4. e \in DfuT
    BY DEF DfuT
  <2>5. r.dfu = e /\ r.rc = 0
    BY <1>1
  <2> HIDE DEF e
  <2>6. QED BY <2>1, <2>2, <2>3, <2>4, <2>5
<1>2. CASE /\ "erase" \in faults
           /\ r = [dfu |-> [d EXCEPT !.intact = FALSE], rc |-> 1]
  <2> DEFINE e == [d EXCEPT !.intact = FALSE]
  <2>1. e \in DfuT /\ e.ctx = d.ctx
    BY DEF DfuT
  <2>2. r.dfu = e /\ r.rc = 1
    BY <1>2
  <2> HIDE DEF e
  <2>3. QED BY <1>2, <2>1, <2>2
<1>3. QED BY <1>1, <1>2 DEF Erased

(* dfu_flash_start: a context and an erased slot, unless a call fails.     *)
LEMMA StartedFields ==
  ASSUME dfu \in DfuT, NEW r \in Started(dfu)
  PROVE  /\ r.dfu \in DfuT
         /\ \/ /\ r.rc = 0 /\ r.dfu.images = {} /\ r.dfu.stored = 0
               /\ r.dfu.intact /\ ~ r.dfu.pending
               /\ "init" \in faults \/ r.dfu.ctx = "ready"
            \/ "erase" \in faults /\ r.rc = 1
            \/ "malloc" \in faults /\ r.dfu = dfu /\ r.rc = 1
<1> DEFINE ready == [dfu EXCEPT !.ctx = "ready"]
           null  == [dfu EXCEPT !.ctx = "NULL"]
<1>1. ready \in DfuT /\ ready.ctx = "ready"
  BY DEF DfuT
<1>2. null \in DfuT
  BY DEF DfuT
<1> HIDE DEF ready, null
<1>3. \/ r \in Erased(ready)
      \/ "init" \in faults /\ r \in Erased(null)
      \/ "malloc" \in faults /\ r = [dfu |-> dfu, rc |-> 1]
  BY DEF Started, ready, null
<1>4. CASE r \in Erased(ready)
  BY <1>1, <1>4, ErasedFields
<1>5. CASE "init" \in faults /\ r \in Erased(null)
  BY <1>2, <1>5, ErasedFields
<1>6. CASE "malloc" \in faults /\ r = [dfu |-> dfu, rc |-> 1]
  <2>1. r.dfu = dfu /\ r.rc = 1
    BY <1>6
  <2>2. QED BY <1>6, <2>1
<1>7. QED BY <1>3, <1>4, <1>5, <1>6

(* dfu_data_store: more of an image.                                       *)
LEMMA StoredFields ==
  ASSUME dfu \in DfuT, NEW image \in Images \cup {NoImage}, NEW off \in Nat,
         NEW len \in Nat, NEW s \in Stored(dfu, image, off, len)
  PROVE  /\ s \in DfuT /\ s.ctx = dfu.ctx /\ s.pending = dfu.pending
         /\ s.images = dfu.images \cup {image} /\ s.stored = dfu.stored + len
         /\ "write" \notin faults /\ dfu.intact /\ off = dfu.stored => s.intact
<1> DEFINE good == [dfu EXCEPT !.images = @ \cup {image}, !.stored = @ + len,
                               !.intact = @ /\ off = dfu.stored]
           bad == [good EXCEPT !.intact = FALSE]
<1>1. /\ dfu.images \in SUBSET (Images \cup {NoImage}) /\ dfu.stored \in Nat
      /\ dfu.ctx \in {"NULL", "ready"}
  BY DEF DfuT
<1>2. good.images = dfu.images \cup {image} /\ good.stored = dfu.stored + len
      /\ good.ctx = dfu.ctx
  BY DEF DfuT
<1>3. good.pending = dfu.pending
  BY DEF DfuT
<1>4. good.intact = (dfu.intact /\ off = dfu.stored)
  BY DEF DfuT
<1>5. good \in DfuT
  <2> DEFINE i == dfu.images \cup {image}
             n == dfu.stored + len
             b == dfu.intact /\ off = dfu.stored
  <2>1. i \in SUBSET (Images \cup {NoImage}) /\ n \in Nat
    BY <1>1
  <2>2. b \in BOOLEAN
    BY Zenon
  <2>3. good = [dfu EXCEPT !.images = i, !.stored = n, !.intact = b]
    OBVIOUS
  <2> HIDE DEF i, n, b, good
  <2>4. QED BY <2>1, <2>2, <2>3 DEF DfuT
<1> HIDE DEF good
<1>6. /\ bad \in DfuT /\ bad.images = good.images /\ bad.stored = good.stored
      /\ bad.ctx = good.ctx
  BY <1>5 DEF DfuT
<1>7. bad.pending = good.pending
  BY <1>5 DEF DfuT
<1> HIDE DEF bad
<1>8. s = good \/ ("write" \in faults /\ s = bad)
  <2>1. s \in {good} \cup IF "write" \in faults THEN {bad} ELSE {}
    BY Zenon DEF Stored, good, bad
  <2>2. QED BY <2>1
<1>9. CASE s = good
  <2>1. dfu.intact /\ off = dfu.stored => s.intact
    BY <1>4, <1>9, Zenon
  <2>2. s.pending = dfu.pending
    BY <1>3, <1>9, Zenon
  <2>3. QED BY <1>2, <1>5, <1>9, <2>1, <2>2
<1>10. CASE "write" \in faults /\ s = bad
  <2>1. s.pending = dfu.pending
    BY <1>3, <1>7, <1>10, Zenon
  <2>2. QED BY <1>2, <1>6, <1>10, <2>1
<1>11. QED BY <1>8, <1>9, <1>10

(* dfu_flash_finish: no context any more; the slot stays as it is.         *)
LEMMA FinishedFields ==
  ASSUME NEW d \in DfuT, NEW f \in Finished(d)
  PROVE  /\ f \in DfuT /\ f.ctx = "NULL"
         /\ f.images = d.images /\ f.stored = d.stored /\ f.intact = d.intact
<1> DEFINE freed == [d EXCEPT !.ctx = "NULL"]
<1>1. /\ freed \in DfuT /\ freed.ctx = "NULL" /\ freed.images = d.images
      /\ freed.stored = d.stored
  BY DEF DfuT
<1>2. freed.intact = d.intact
  BY DEF DfuT
<1> DEFINE requested == [freed EXCEPT !.pending = TRUE]
<1> HIDE DEF freed
<1>3. /\ requested \in DfuT /\ requested.ctx = freed.ctx
      /\ requested.images = freed.images /\ requested.stored = freed.stored
  BY <1>1 DEF DfuT
<1>4. requested.intact = freed.intact
  BY <1>1 DEF DfuT
<1> HIDE DEF requested
<1>5. f = requested \/ f = freed
  <2>1. f \in {requested} \cup IF "request" \in faults THEN {freed} ELSE {}
    BY Zenon DEF Finished, Requested, requested, freed
  <2>2. QED BY <2>1
<1>6. CASE f = requested
  BY <1>1, <1>2, <1>3, <1>4, <1>6, Zenon
<1>7. CASE f = freed
  BY <1>1, <1>2, <1>7, Zenon
<1>8. QED BY <1>5, <1>6, <1>7

-----------------------------------------------------------------------------
(* The steps of SerialUpgrade, as Upgrade sees them: the script's command  *)
(* and its data are those of a host, and it may lose a line of the log.    *)
StartsScript ==
  /\ script = "start"
  /\ \E s \in Sizes : Announce(s)
  /\ commands' = commands + 1
  /\ UNCHANGED <<pc, transfer_mode, upgrade, dfu, verdict, ftp, running>>

LosesLine ==
  /\ lost' = TRUE
  /\ UNCHANGED <<rx_event_queue, work, pc, transfer_mode, upgrade, dfu, verdict,
                 host, ftp, commands, running>>

HostStep == GiveCommand \/ StartsScript \/ (\E n \in Nat \ {0} : DataArrives(n))

DeviceStep ==
  \/ WorkStart \/ RxEnd \/ SaveEvent \/ HandlePacket \/ StartDownload
  \/ FtpOpen \/ FtpData \/ FtpEnd \/ SessionFails \/ GetFails \/ Reboot

UpgradeStep ==
  /\ HostStep \/ DeviceStep \/ LosesLine \/ UNCHANGED vars
  /\ UNCHANGED faults

(* Each step of the composition is one of them.                            *)
LEMMA StepIsUpgradeStep ==
  ASSUME ScriptType, [SerialNext]_allVars
  PROVE  UpgradeStep
<1>1. CASE UNCHANGED allVars
  BY <1>1 DEF allVars, vars, UpgradeStep
<1>2. CASE Device
  BY <1>2 DEF Device, DeviceSaves, DeviceHandles, DeviceReboots, UpgradeStep,
              DeviceStep
<1>3. CASE OtherHost
  <2>1. SendData /\ UNCHANGED faults
    BY <1>3 DEF OtherHost, HostGoesOn
  <2>2. PICK n \in Chunks : DataArrives(n)
    BY <2>1 DEF SendData
  <2>3. n \in Nat \ {0}
    BY ConstantsAssumption
  <2>4. QED BY <2>1, <2>2, <2>3 DEF UpgradeStep, HostStep
<1>4. CASE OtherSteps
  BY <1>4 DEF OtherSteps, Others, UpgradeStep, HostStep, DeviceStep
<1>5. CASE ScriptStart /\ UNCHANGED faults
  <2>1. StartsScript
    BY <1>5 DEF ScriptStart, StartsScript
  <2>2. QED BY <1>5, <2>1 DEF UpgradeStep, HostStep
<1>6. CASE ScriptConfirm \/ ScriptWrite \/ ScriptAck
  <2>1. UNCHANGED vars
    BY <1>6 DEF ScriptConfirm, ScriptWrite, ScriptAck
  <2>2. UNCHANGED faults
    BY <2>1 DEF vars
  <2>3. QED BY <2>1, <2>2 DEF UpgradeStep
<1>7. CASE Deliver /\ UNCHANGED faults
  <2>1. DataArrives(Part) /\ wire > 0
    BY <1>7 DEF Deliver
  <2>2. Part \in Nat \ {0}
    <3>1. wire \in Nat /\ room \in 1 .. BlockSize /\ BlockSize \in Nat
      BY SerialAssumption DEF ScriptType
    <3>2. QED BY <2>1, <3>1 DEF Part
  <2>3. QED BY <1>7, <2>1, <2>2 DEF UpgradeStep, HostStep
<1>8. CASE LogLost /\ UNCHANGED faults
  BY <1>8 DEF LogLost, LosesLine, UpgradeStep
<1>9. QED
  BY <1>1, <1>2, <1>3, <1>4, <1>5, <1>6, <1>7, <1>8 DEF SerialNext, Script

-----------------------------------------------------------------------------
(* Types of the device.                                                    *)
LEMMA ImageSize ==
  ASSUME NEW i \in Images \cup {NoImage}
  PROVE  i[2] \in Nat
<1>1. CASE i = NoImage
  BY <1>1 DEF NoImage
<1>2. CASE i \in Images
  BY <1>2, ConstantsAssumption DEF Images
<1>3. QED BY <1>1, <1>2

(* What the host and the FTP server send.                                  *)
LEMMA PeersType ==
  ASSUME DeviceType
  PROVE  /\ host.image \in Images \cup {NoImage} /\ host.left \in Nat
         /\ ftp.image \in Images \cup {NoImage} /\ ftp.left \in Nat
         /\ host.image[2] \in Nat /\ ftp.image[2] \in Nat
         /\ host.left <= host.image[2] /\ ftp.left <= ftp.image[2]
<1>1. /\ host.image \in Images \cup {NoImage} /\ host.left \in Nat
      /\ ftp.image \in Images \cup {NoImage} /\ ftp.left \in Nat
  BY DEF DeviceType, TypeOK, Transfer
<1>2. QED BY <1>1, ImageSize DEF DeviceType

(* rx_event_queue, by index.                                               *)
LEMMA EventTypes ==
  ASSUME DeviceType
  PROVE  /\ rx_event_queue \in Seq(Event) /\ Len(rx_event_queue) \in Nat
         /\ Len(rx_event_queue) <= QueueLen
         /\ \A i \in 1 .. Len(rx_event_queue) :
              /\ rx_event_queue[i] \in Event
              /\ rx_event_queue[i].kind \in AllCommands \cup {"data"}
              /\ rx_event_queue[i].image \in Images \cup {NoImage}
              /\ rx_event_queue[i].off \in Nat
              /\ rx_event_queue[i].len \in Nat
<1>1. rx_event_queue \in Seq(Event) /\ Len(rx_event_queue) <= QueueLen
  BY DEF DeviceType, TypeOK
<1>2. Len(rx_event_queue) \in Nat
  BY <1>1, LenProperties
<1>3. \A i \in 1 .. Len(rx_event_queue) : rx_event_queue[i] \in Event
  BY <1>1, ElementOfSeq
<1>4. QED BY <1>1, <1>2, <1>3 DEF Event

(* The queue without its first event.                                      *)
LEMMA EventTail ==
  ASSUME DeviceType, rx_event_queue # <<>>
  PROVE  /\ Len(rx_event_queue) > 0 /\ 1 \in 1 .. Len(rx_event_queue)
         /\ Head(rx_event_queue) = rx_event_queue[1]
         /\ Tail(rx_event_queue) \in Seq(Event)
         /\ Len(Tail(rx_event_queue)) = Len(rx_event_queue) - 1
         /\ \A i \in 1 .. Len(rx_event_queue) - 1 :
              Tail(rx_event_queue)[i] = rx_event_queue[i + 1]
<1>1. rx_event_queue \in Seq(Event) /\ Len(rx_event_queue) \in Nat
  BY EventTypes
<1>2. Len(rx_event_queue) > 0
  BY <1>1, EmptySeq
<1>3. 1 \in 1 .. Len(rx_event_queue)
  BY <1>1, <1>2
<1>4. QED BY <1>1, <1>2, <1>3, HeadTailProperties

(* What the UART interrupt does to the queues.                             *)
LEMMA ArrivesFields ==
  ASSUME DeviceType, NEW e \in Event, Arrives(e)
  PROVE  /\ rx_event_queue' \in Seq(Event) /\ Len(rx_event_queue') <= QueueLen
         /\ work' \in WorkT /\ lost' \in BOOLEAN
         /\ \/ /\ Len(rx_event_queue) < QueueLen
               /\ Len(rx_event_queue') = Len(rx_event_queue) + 1
               /\ \A i \in 1 .. Len(rx_event_queue) :
                    rx_event_queue'[i] = rx_event_queue[i]
               /\ rx_event_queue'[Len(rx_event_queue) + 1] = e
               /\ work' = Submitted(work, "rx")
               /\ lost' = lost
            \/ /\ Len(rx_event_queue) = QueueLen
               /\ rx_event_queue' = rx_event_queue /\ work' = work
               /\ lost' = TRUE
<1>1. /\ rx_event_queue \in Seq(Event) /\ Len(rx_event_queue) \in Nat
      /\ Len(rx_event_queue) <= QueueLen /\ QueueLen \in Nat
  BY EventTypes, ConstantsAssumption
<1>2. work \in WorkT /\ Submitted(work, "rx") \in WorkT
  BY SubmittedType DEF DeviceType
<1>3. lost \in BOOLEAN
  BY DEF DeviceType, TypeOK
<1>4. CASE /\ Len(rx_event_queue) < QueueLen
           /\ rx_event_queue' = Append(rx_event_queue, e)
           /\ work' = Submitted(work, "rx")
           /\ UNCHANGED lost
  <2>1. /\ rx_event_queue' \in Seq(Event)
        /\ Len(rx_event_queue') = Len(rx_event_queue) + 1
        /\ \A i \in 1 .. Len(rx_event_queue) :
             rx_event_queue'[i] = rx_event_queue[i]
        /\ rx_event_queue'[Len(rx_event_queue) + 1] = e
    BY <1>1, <1>4, AppendProperties
  <2>2. lost' = lost /\ lost' \in BOOLEAN
    BY <1>3, <1>4
  <2>3. QED BY <1>1, <1>2, <1>4, <2>1, <2>2
<1>5. CASE /\ Len(rx_event_queue) = QueueLen
           /\ lost' = TRUE
           /\ UNCHANGED <<rx_event_queue, work>>
  BY <1>1, <1>2, <1>5
<1>6. QED BY <1>4, <1>5 DEF Arrives

(* A command is an event.                                                  *)
LEMMA CommandType ==
  ASSUME NEW kind \in AllCommands, NEW image \in Images \cup {NoImage}
  PROVE  /\ Command(kind, image) \in Event
         /\ Command(kind, image).kind = kind /\ Command(kind, image).image = image
  BY DEF Command, Event

(* The host's commands ...                                                 *)
LEMMA CommandStep ==
  ASSUME DeviceType, GiveCommand \/ StartsScript
  PROVE  /\ commands' = commands + 1
         /\ UNCHANGED <<pc, transfer_mode, upgrade, dfu, verdict, ftp, running>>
         /\ \/ \E c \in AllCommands \ {"transfer"} :
                 Arrives(Command(c, NoImage)) /\ UNCHANGED host
            \/ \E s \in Sizes : Announce(s)
<1>1. CASE GiveCommand
  <2>1. \/ \E c \in Commands \ {"transfer"} :
             Arrives(Command(c, NoImage)) /\ UNCHANGED host
        \/ \E s \in Sizes : Announce(s)
    BY <1>1 DEF GiveCommand
  <2>2. Commands \subseteq AllCommands
    BY ConstantsAssumption
  <2>3. QED BY <1>1, <2>1, <2>2 DEF GiveCommand
<1>2. CASE StartsScript
  BY <1>2 DEF StartsScript
<1>3. QED BY <1>1, <1>2

(* Steps of the host keep the types: its commands ...                      *)
LEMMA CommandKeepsType ==
  ASSUME DeviceType, GiveCommand \/ StartsScript
  PROVE  DeviceType'
<1>1. /\ commands' = commands + 1
      /\ UNCHANGED <<pc, transfer_mode, upgrade, dfu, verdict, ftp, running>>
  BY CommandStep
<1>2. CASE \E c \in AllCommands \ {"transfer"} :
             Arrives(Command(c, NoImage)) /\ UNCHANGED host
  <2>1. PICK c \in AllCommands \ {"transfer"} : Arrives(Command(c, NoImage))
    BY <1>2
  <2>2. Command(c, NoImage) \in Event
    BY CommandType
  <2>3. /\ rx_event_queue' \in Seq(Event) /\ Len(rx_event_queue') <= QueueLen
        /\ work' \in WorkT /\ lost' \in BOOLEAN
    BY <2>1, <2>2, ArrivesFields
  <2>4. host' = host
    BY <1>2
  <2>5. QED
    BY <1>1, <2>3, <2>4, WorkType DEF DeviceType, TypeOK, upgrade
<1>3. CASE \E s \in Sizes : Announce(s)
  <2>1. PICK s \in Sizes : Announce(s)
    BY <1>3
  <2>2. <<"uart", s>> \in Images \cup {NoImage} /\ s \in Nat
    BY ConstantsAssumption DEF Images
  <2>3. Command("transfer", <<"uart", s>>) \in Event
    BY <2>2, CommandType DEF AllCommands
  <2>4. /\ rx_event_queue' \in Seq(Event) /\ Len(rx_event_queue') <= QueueLen
        /\ work' \in WorkT /\ lost' \in BOOLEAN
    BY <2>1, <2>3, ArrivesFields DEF Announce
  <2>5. host' \in Transfer /\ host'.left <= host'.image[2]
    <3>1. host' = [image |-> <<"uart", s>>, left |-> s]
      BY <2>1 DEF Announce
    <3>2. host'.left = s /\ host'.image[2] = s
      BY <3>1
    <3>3. QED BY <2>2, <3>1, <3>2 DEF Transfer
  <2>6. QED
    BY <1>1, <2>4, <2>5, WorkType DEF DeviceType, TypeOK, upgrade
<1>4. QED BY <1>2, <1>3, CommandStep

(* ... and its data.                                                       *)
LEMMA DataStep ==
  ASSUME DeviceType, NEW n \in Nat \ {0}, DataArrives(n)
  PROVE  \E e \in Event :
           /\ e.kind = "data" /\ e.image = host.image /\ e.len = n
           /\ e.off = host.image[2] - host.left
           /\ Arrives(e)
           /\ host'.image = host.image /\ host'.left = host.left - n
           /\ n <= host.left /\ host' \in Transfer
           /\ UNCHANGED <<pc, transfer_mode, upgrade, dfu, verdict, ftp, commands,
                          running>>
<1> DEFINE e == [kind |-> "data", image |-> host.image,
                 off |-> host.image[2] - host.left, len |-> n]
<1>1. /\ host.image \in Images \cup {NoImage} /\ host.left \in Nat
      /\ host.image[2] \in Nat /\ host.left <= host.image[2]
  BY PeersType
<1>2. n <= host.left /\ Arrives(e) /\ host' = [host EXCEPT !.left = @ - n]
  BY DEF DataArrives
<1>3. host.image[2] - host.left \in Nat /\ host.left - n \in Nat
  BY <1>1, <1>2
<1>4. host \in Transfer
  BY DEF DeviceType, TypeOK
<1>5. host'.image = host.image /\ host'.left = host.left - n /\ host' \in Transfer
  BY <1>2, <1>3, <1>4 DEF Transfer
<1>6. e \in Event
  BY <1>1, <1>3 DEF Event
<1>7. UNCHANGED <<pc, transfer_mode, upgrade, dfu, verdict, ftp, commands,
                  running>>
  BY DEF DataArrives
<1>8. e.kind = "data" /\ e.image = host.image /\ e.len = n
      /\ e.off = host.image[2] - host.left
  OBVIOUS
<1> HIDE DEF e
<1>9. QED BY <1>2, <1>5, <1>6, <1>7, <1>8

(* ... and its data ...                                                    *)
LEMMA DataKeepsType ==
  ASSUME DeviceType, NEW n \in Nat \ {0}, DataArrives(n)
  PROVE  DeviceType'
<1>1. PICK e \in Event :
        /\ Arrives(e)
        /\ host'.image = host.image /\ host'.left = host.left - n
        /\ n <= host.left /\ host' \in Transfer
        /\ UNCHANGED <<pc, transfer_mode, upgrade, dfu, verdict, ftp, commands,
                       running>>
  BY DataStep
<1>2. /\ rx_event_queue' \in Seq(Event) /\ Len(rx_event_queue') <= QueueLen
      /\ work' \in WorkT /\ lost' \in BOOLEAN
  BY <1>1, ArrivesFields
<1>3. host'.left <= host'.image[2]
  BY <1>1, PeersType
<1>4. QED
  BY <1>1, <1>2, <1>3, WorkType DEF DeviceType, TypeOK, upgrade

(* image_data_save, when the processor does not fault.                     *)
LEMMA SaveFields ==
  ASSUME DeviceType, NEW image \in Images \cup {NoImage}, NEW off \in Nat,
         NEW len \in Nat, ~ NoContext(len), image_data_save(image, off, len)
  PROVE  /\ total_length' = total_length + len /\ total_length' \in Nat
         /\ dfu' \in DfuT
         /\ \/ dfu' = dfu /\ Last(len) /\ file_length <= MinLength
            \/ /\ dfu.ctx = "ready"
               /\ \E s \in Stored(dfu, image, off, len) :
                    \/ ~ Last(len) /\ dfu' = s
                    \/ Last(len) /\ dfu' \in Finished(s)
<1>1. dfu \in DfuT /\ total_length \in Nat /\ file_length \in Nat
  BY DEF DeviceType, TypeOK
<1>2. dfu.ctx \in {"NULL", "ready"}
  BY <1>1 DEF DfuT
<1>3. MinLength \in Nat
  BY ConstantsAssumption
<1>4. total_length' = total_length + len /\ total_length' \in Nat
  BY <1>1 DEF image_data_save
<1>5. CASE Last(len) /\ file_length <= MinLength /\ UNCHANGED dfu
  BY <1>1, <1>4, <1>5
<1>6. CASE ~ Last(len) /\ dfu' \in Stored(dfu, image, off, len)
  <2>1. dfu.ctx = "ready"
    BY <1>2, <1>6 DEF NoContext
  <2>2. dfu' \in DfuT
    BY <1>1, <1>6, StoredFields
  <2>3. QED BY <1>4, <1>6, <2>1, <2>2
<1>7. CASE /\ Last(len) /\ file_length > MinLength
           /\ \E d \in Stored(dfu, image, off, len) : dfu' \in Finished(d)
  <2>1. dfu.ctx = "ready"
    BY <1>2, <1>7 DEF NoContext
  <2>2. PICK d \in Stored(dfu, image, off, len) : dfu' \in Finished(d)
    BY <1>7
  <2>3. dfu' \in DfuT
    BY <1>1, <2>2, StoredFields, FinishedFields
  <2>4. QED BY <1>4, <1>7, <2>1, <2>2, <2>3
<1>8. QED BY <1>5, <1>6, <1>7 DEF image_data_save

(* rx_process, in transfer mode and otherwise.                             *)
LEMMA SaveEventFields ==
  ASSUME DeviceType, SaveEvent, ~ Fault
  PROVE  LET e == rx_event_queue[1]
             image == IF e.kind = "data" THEN e.image ELSE NoImage
         IN
         /\ pc = "rx" /\ rx_event_queue # <<>> /\ transfer_mode
         /\ image \in Images \cup {NoImage} /\ e.off \in Nat /\ e.len \in Nat
         /\ ~ NoContext(e.len) /\ image_data_save(image, e.off, e.len)
         /\ \/ /\ file_length = total_length' /\ state' = "UPDATE_APPLY"
               /\ work' = Submitted(work, "fota") /\ verdict' = "completed"
            \/ /\ file_length # total_length'
               /\ UNCHANGED <<state, work, verdict>>
         /\ rx_event_queue' = Tail(rx_event_queue)
         /\ UNCHANGED <<pc, transfer_mode, file_length, peers, running>>
<1> DEFINE e == rx_event_queue[1]
           image == IF e.kind = "data" THEN e.image ELSE NoImage
<1>1. pc = "rx" /\ rx_event_queue # <<>> /\ transfer_mode
  BY DEF SaveEvent
<1>2. Head(rx_event_queue) = e /\ 1 \in 1 .. Len(rx_event_queue)
  BY <1>1, EventTail
<1>3. e.image \in Images \cup {NoImage} /\ e.off \in Nat /\ e.len \in Nat
  BY <1>2, EventTypes
<1>4. image \in Images \cup {NoImage}
  BY <1>3
<1>5. \/ NoContext(e.len) /\ Fault
      \/ /\ ~ NoContext(e.len) /\ image_data_save(image, e.off, e.len)
         /\ \/ /\ file_length = total_length'
               /\ apply_state("UPDATE_APPLY")
               /\ verdict' = "completed"
            \/ /\ file_length # total_length'
               /\ UNCHANGED <<state, work, verdict>>
         /\ rx_event_queue' = Tail(rx_event_queue)
         /\ UNCHANGED <<pc, transfer_mode, file_length, peers, running>>
  BY <1>2, Zenon DEF SaveEvent
<1> HIDE DEF e, image
<1>6. QED
  BY <1>1, <1>3, <1>4, <1>5 DEF apply_state, e, image

(* handle_uart_data, command by command.                                   *)
LEMMA HandlePacketFields ==
  ASSUME DeviceType, HandlePacket
  PROVE  LET e == rx_event_queue[1] IN
         /\ pc = "rx" /\ rx_event_queue # <<>> /\ ~ transfer_mode
         /\ e \in Event /\ 1 \in 1 .. Len(rx_event_queue)
         /\ rx_event_queue' = Tail(rx_event_queue)
         /\ UNCHANGED <<pc, peers, running>>
         /\ \/ /\ e.kind = "download" /\ state' = "UPDATE_DOWNLOAD"
               /\ work' = Submitted(work, "fota")
               /\ UNCHANGED <<transfer_mode, file_length, total_length, dfu,
                              verdict>>
            \/ /\ e.kind = "transfer" /\ transfer_mode' = TRUE
               /\ \E r \in Started(dfu) : dfu' = r.dfu
               /\ total_length' = 0
               /\ file_length' \in FetchedLength(e.image[2])
               /\ verdict' = "none"
               /\ UNCHANGED <<state, work>>
            \/ /\ e.kind = "reboot" /\ state' = "UPDATE_APPLY"
               /\ work' = Submitted(work, "fota")
               /\ UNCHANGED <<transfer_mode, file_length, total_length, dfu,
                              verdict>>
            \/ /\ e.kind = "data"
               /\ UNCHANGED <<transfer_mode, upgrade, work, dfu, verdict>>
<1> DEFINE e == rx_event_queue[1]
<1>1. pc = "rx" /\ rx_event_queue # <<>> /\ ~ transfer_mode
  BY DEF HandlePacket
<1>2. Head(rx_event_queue) = e /\ 1 \in 1 .. Len(rx_event_queue)
  BY <1>1, EventTail
<1>3. e \in Event
  BY <1>2, EventTypes
<1> HIDE DEF e
<1>4. QED BY <1>1, <1>2, <1>3 DEF HandlePacket, apply_state, e

(* fetch_file_length returns a length, the right one if it can be parsed.  *)
LEMMA FetchedType ==
  ASSUME NEW len \in Nat
  PROVE  /\ FetchedLength(len) \subseteq Nat
         /\ "length" \notin faults => FetchedLength(len) = {len}
  BY ConstantsAssumption DEF FetchedLength

(* So do the steps of the device: a fault, ...                             *)
LEMMA FaultKeepsType ==
  ASSUME DeviceType, Fault
  PROVE  DeviceType'
  BY DEF Fault, DeviceType, TypeOK, upgrade, peers

(* ... image data, ...                                                     *)
LEMMA SaveKeepsType ==
  ASSUME DeviceType, SaveEvent
  PROVE  DeviceType'
<1>1. CASE Fault
  BY <1>1, FaultKeepsType
<1>2. CASE ~ Fault
  <2> DEFINE e == rx_event_queue[1]
             image == IF e.kind = "data" THEN e.image ELSE NoImage
  <2>1. /\ pc = "rx" /\ rx_event_queue # <<>>
        /\ image \in Images \cup {NoImage} /\ e.off \in Nat /\ e.len \in Nat
        /\ ~ NoContext(e.len) /\ image_data_save(image, e.off, e.len)
        /\ \/ /\ state' = "UPDATE_APPLY"
              /\ work' = Submitted(work, "fota") /\ verdict' = "completed"
           \/ UNCHANGED <<state, work, verdict>>
        /\ rx_event_queue' = Tail(rx_event_queue)
        /\ UNCHANGED <<pc, transfer_mode, file_length, peers, running>>
    BY <1>2, SaveEventFields
  <2>2. dfu' \in DfuT /\ total_length' \in Nat
    BY <2>1, SaveFields
  <2> HIDE DEF e, image
  <2>3. rx_event_queue' \in Seq(Event) /\ Len(rx_event_queue') <= QueueLen
    BY <2>1, EventTail, EventTypes, ConstantsAssumption
  <2>4. work' \in WorkT
    BY <2>1, SubmittedType DEF DeviceType
  <2>5. /\ state' \in {"IDLE", "UPDATE_DOWNLOAD", "UPDATE_APPLY"}
        /\ verdict' \in {"none", "completed", "corrupted"}
    BY <2>1 DEF DeviceType, TypeOK
  <2>6. QED
    BY <2>1, <2>2, <2>3, <2>4, <2>5, WorkType DEF DeviceType, TypeOK, peers
<1>3. QED BY <1>1, <1>2

(* ... a command, ...                                                      *)
LEMMA HandleKeepsType ==
  ASSUME DeviceType, HandlePacket
  PROVE  DeviceType'
<1> DEFINE e == rx_event_queue[1]
           Quietly == UNCHANGED <<transfer_mode, file_length, total_length, dfu,
                                  verdict>>
<1>1. /\ rx_event_queue # <<>> /\ e \in Event /\ UNCHANGED <<pc, peers, running>>
      /\ rx_event_queue' = Tail(rx_event_queue)
      /\ \/ /\ state' \in {"UPDATE_DOWNLOAD", "UPDATE_APPLY"}
            /\ work' = Submitted(work, "fota") /\ Quietly
         \/ /\ transfer_mode' = TRUE
            /\ \E r \in Started(dfu) : dfu' = r.dfu
            /\ total_length' = 0
            /\ file_length' \in FetchedLength(e.image[2])
            /\ verdict' = "none"
            /\ UNCHANGED <<state, work>>
         \/ UNCHANGED <<state, work>> /\ Quietly
  BY HandlePacketFields DEF upgrade
<1> HIDE DEF e, Quietly
<1>2. rx_event_queue' \in Seq(Event) /\ Len(rx_event_queue') <= QueueLen
  BY <1>1, EventTail, EventTypes, ConstantsAssumption
<1>3. work' \in WorkT
  BY <1>1, SubmittedType DEF DeviceType
<1>4. state' \in {"IDLE", "UPDATE_DOWNLOAD", "UPDATE_APPLY"}
  BY <1>1 DEF DeviceType, TypeOK
<1>5. /\ transfer_mode' \in BOOLEAN
      /\ file_length' \in Nat /\ total_length' \in Nat /\ dfu' \in DfuT
      /\ verdict' \in {"none", "completed", "corrupted"}
  <2>1. CASE Quietly
    BY <2>1 DEF Quietly, DeviceType, TypeOK
  <2>2. CASE /\ transfer_mode' = TRUE
             /\ \E r \in Started(dfu) : dfu' = r.dfu
             /\ total_length' = 0
             /\ file_length' \in FetchedLength(e.image[2])
             /\ verdict' = "none"
    <3>1. e.image[2] \in Nat
      BY <1>1, ImageSize DEF Event
    <3>2. dfu' \in DfuT
      BY <2>2, StartedFields DEF DeviceType, TypeOK
    <3>3. QED BY <2>2, <3>1, <3>2, FetchedType
  <2>3. QED BY <1>1, <2>1, <2>2
<1>6. QED
  BY <1>1, <1>2, <1>3, <1>4, <1>5, WorkType DEF DeviceType, TypeOK, peers

(* ... the data of a download, ...                                         *)
LEMMA FtpDataKeepsType ==
  ASSUME DeviceType, FtpData
  PROVE  DeviceType'
<1>1. CASE Fault
  BY <1>1, FaultKeepsType
<1>2. CASE ~ Fault
  <2>1. PICK n \in Chunks :
          /\ n <= ftp.left /\ ~ NoContext(n)
          /\ image_data_save(ftp.image, ftp.image[2] - ftp.left, n)
          /\ ftp' = [ftp EXCEPT !.left = @ - n]
          /\ UNCHANGED <<rx_event_queue, work, pc, transfer_mode, state,
                         file_length, verdict, host, commands, lost, running>>
    BY <1>2 DEF FtpData
  <2>2. n \in Nat
    BY ConstantsAssumption
  <2>3. /\ ftp.image \in Images \cup {NoImage} /\ ftp.left \in Nat
        /\ ftp.image[2] \in Nat /\ ftp.left <= ftp.image[2]
    BY PeersType
  <2>4. ftp.image[2] - ftp.left \in Nat
    BY <2>3
  <2>5. dfu' \in DfuT /\ total_length' \in Nat
    BY <2>1, <2>2, <2>3, <2>4, SaveFields
  <2>6. ftp' \in Transfer /\ ftp'.left <= ftp'.image[2]
    <3>1. ftp.left - n \in Nat /\ ftp \in Transfer
      BY <2>1, <2>2, <2>3 DEF DeviceType, TypeOK
    <3>2. ftp' \in Transfer /\ ftp'.image = ftp.image /\ ftp'.left = ftp.left - n
      BY <2>1, <3>1 DEF Transfer
    <3>3. QED BY <2>2, <2>3, <3>2
  <2>7. QED
    BY <2>1, <2>5, <2>6 DEF DeviceType, TypeOK
<1>3. QED BY <1>1, <1>2

(* ... and the others.                                                     *)
LEMMA DeviceKeepsType ==
  ASSUME DeviceType, DeviceStep
  PROVE  DeviceType'
<1>1. CASE WorkStart
  BY <1>1, WorkType DEF WorkStart, DeviceType, TypeOK, upgrade, peers
<1>2. CASE RxEnd
  BY <1>2 DEF RxEnd, DeviceType, TypeOK, upgrade, peers
<1>3. CASE StartDownload
  <2>1. dfu' \in DfuT /\ pc' \in {"open", "idle"}
    <3>1. PICK r \in Started(dfu) :
            dfu' = r.dfu /\ pc' = IF r.rc = 0 THEN "open" ELSE "idle"
      BY <1>3 DEF StartDownload
    <3>2. QED BY <3>1, StartedFields DEF DeviceType, TypeOK
  <2>2. QED BY <1>3, <2>1 DEF StartDownload, DeviceType, TypeOK, peers
<1>4. CASE FtpOpen
  <2>1. PICK s \in Sizes :
          /\ file_length' \in FetchedLength(s)
          /\ \E n \in {s} \cup IF "mismatch" \in faults THEN Sizes ELSE {} :
               ftp' = [image |-> <<"ftp", n>>, left |-> n]
    BY <1>4 DEF FtpOpen
  <2>2. PICK n \in Sizes : ftp' = [image |-> <<"ftp", n>>, left |-> n]
    BY <2>1
  <2>3. s \in Nat /\ n \in Nat /\ <<"ftp", n>> \in Images
    BY ConstantsAssumption DEF Images
  <2>4. file_length' \in Nat
    BY <2>1, <2>3, FetchedType
  <2>5. ftp' \in Transfer /\ ftp'.left <= ftp'.image[2]
    <3>1. ftp'.left = n /\ ftp'.image[2] = n
      BY <2>2
    <3>2. QED BY <2>2, <2>3, <3>1 DEF Transfer
  <2>6. QED BY <1>4, <2>4, <2>5 DEF FtpOpen, DeviceType, TypeOK
<1>5. CASE FtpEnd
  <2>1. /\ work' \in WorkT
        /\ state' \in {"IDLE", "UPDATE_DOWNLOAD", "UPDATE_APPLY"}
        /\ verdict' \in {"none", "completed", "corrupted"}
    BY <1>5, SubmittedType DEF FtpEnd, apply_state, DeviceType, TypeOK
  <2>2. QED BY <1>5, <2>1, WorkType DEF FtpEnd, DeviceType, TypeOK, peers
<1>6. CASE SessionFails \/ GetFails
  BY <1>6 DEF SessionFails, GetFails, DeviceType, TypeOK, upgrade
<1>7. CASE Reboot
  <2>1. dfu' \in DfuT
    BY <1>7 DEF Reboot, DeviceType, TypeOK, DfuT
  <2>2. running' \in Images \cup {NoImage}
    BY <1>7 DEF Reboot, Whole, DeviceType, TypeOK
  <2>3. Nothing \in Transfer /\ Nothing.left <= Nothing.image[2]
    BY DEF Nothing, Transfer, NoImage
  <2>4. <<>> \in WorkT /\ <<>> \in Seq(Event) /\ Len(<<>>) <= QueueLen
    BY ConstantsAssumption DEF WorkT
  <2>5. QED
    BY <1>7, <2>1, <2>2, <2>3, <2>4, WorkType DEF Reboot, DeviceType, TypeOK
<1>8. QED
  BY <1>1, <1>2, <1>3, <1>4, <1>5, <1>6, <1>7, SaveKeepsType, HandleKeepsType,
     FtpDataKeepsType
  DEF DeviceStep

(* Every step keeps the types.                                             *)
LEMMA StepKeepsType ==
  ASSUME DeviceType, UpgradeStep
  PROVE  DeviceType'
<1>1. CASE LosesLine
  BY <1>1 DEF LosesLine, DeviceType, TypeOK, upgrade
<1>2. CASE UNCHANGED vars
  BY <1>2 DEF vars, DeviceType, TypeOK, upgrade, peers
<1>3. CASE HostStep
  BY <1>3, CommandKeepsType, DataKeepsType DEF HostStep
<1>4. QED BY <1>1, <1>2, <1>3, DeviceKeepsType DEF UpgradeStep

-----------------------------------------------------------------------------
(* Types of the script and of the line.                                    *)
Lines == {"Uart received:", "Fetch file length:", "Can not fetch file length",
          "Received image:"}

LengthLines == {"Fetch file length:", "Can not fetch file length"}

(* Two lines.                                                              *)
LEMMA PairType ==
  ASSUME NEW S, NEW a \in S, NEW b \in S
  PROVE  <<a, b>> \in Seq(S)
OBVIOUS

(* Lines that are read and lines that are printed.                         *)
LEMMA LogType ==
  ASSUME ScriptType
  PROVE  /\ log \in Seq(Lines)
         /\ log # <<>> => Tail(log) \in Seq(Lines)
         /\ \A l \in Seq(Lines) : log \o l \in Seq(Lines)
  BY ConcatProperties, HeadTailProperties DEF ScriptType, Lines

(* The log after something was printed.                                    *)
LEMMA PrintedType ==
  ASSUME ScriptType, NEW l \in Seq(Lines), LogPrinted(l)
  PROVE  log' \in Seq(Lines)
  BY LogType DEF LogPrinted

(* The steps of the script keep its types ...                              *)
LEMMA ScriptKeepsType ==
  ASSUME DeviceType, ScriptType,
         ScriptStart \/ ScriptConfirm \/ ScriptWrite \/ ScriptAck
  PROVE  ScriptType'
<1>1. /\ total \in Nat /\ offset \in Nat /\ offset <= total
      /\ wire \in Nat /\ room \in 1 .. BlockSize /\ BlockSize \in Nat \ {0, 1}
      /\ PacketSize \in Nat \ {0}
  BY SerialAssumption DEF ScriptType
<1>2. PacketLen \in Nat /\ offset + PacketLen <= total
  BY <1>1 DEF PacketLen
<1>3. CASE ScriptStart
  <2>1. total' \in Nat
    BY <1>3, ConstantsAssumption DEF ScriptStart
  <2>2. /\ script = "start" /\ script' = "confirm" /\ room' = room - 1
        /\ UNCHANGED <<offset, wire, log, missed, short>>
    BY <1>3 DEF ScriptStart, report
  <2>3. offset = 0 /\ room = BlockSize
    BY <2>2 DEF ScriptType
  <2>4. offset' <= total' /\ room' \in 1 .. BlockSize
    BY <1>1, <2>1, <2>2, <2>3
  <2>5. QED BY <1>1, <2>1, <2>2, <2>4 DEF ScriptType
<1>4. CASE ScriptConfirm
  <2>1. log' \in Seq(Lines)
    BY <1>4, LogType DEF ScriptConfirm
  <2>2. /\ script' \in {"confirm", "write"}
        /\ UNCHANGED <<total, offset, wire, room, missed, short>>
    BY <1>4 DEF ScriptConfirm, line
  <2>3. QED BY <1>1, <2>1, <2>2 DEF ScriptType, Lines
<1>5. CASE ScriptWrite
  <2>1. wire' \in Nat
    BY <1>1, <1>2, <1>5 DEF ScriptWrite
  <2>2. script' = "ack" /\ UNCHANGED <<total, offset, room, log, missed, short>>
    BY <1>5 DEF ScriptWrite, report
  <2>3. QED BY <1>1, <2>1, <2>2 DEF ScriptType
<1>6. CASE ScriptAck
  <2>1. log' \in Seq(Lines)
    BY <1>6, LogType DEF ScriptAck
  <2>2. /\ script' \in {"ack", "write", "done"}
        /\ offset' \in {offset, offset + PacketLen}
        /\ UNCHANGED <<total, wire, room, missed, short>>
    BY <1>6 DEF ScriptAck, line
  <2>3. offset' \in Nat /\ offset' <= total
    BY <1>1, <1>2, <2>2
  <2>4. QED BY <1>1, <2>1, <2>2, <2>3 DEF ScriptType, Lines
<1>7. QED BY <1>3, <1>4, <1>5, <1>6

(* ... and all others do.                                                  *)
LEMMA NextScriptType ==
  ASSUME DeviceType, ScriptType, [SerialNext]_allVars
  PROVE  ScriptType'
<1>1. /\ wire \in Nat /\ room \in 1 .. BlockSize /\ BlockSize \in Nat \ {0, 1}
      /\ PacketSize \in Nat \ {0} /\ short \in Nat
  BY SerialAssumption DEF ScriptType
<1>2. CASE UNCHANGED serial
  BY <1>2 DEF serial, host_side, line, report, ScriptType
<1>3. CASE DeviceSaves
  <2>1. rx_event_queue # <<>>
    BY <1>3 DEF DeviceSaves, SaveEvent
  <2>2. Head(rx_event_queue).len \in Nat
    BY <2>1, EventTail, EventTypes
  <2> DEFINE len == Head(rx_event_queue).len
  <2>3. /\ LogPrinted(IF Reported(len) THEN <<"Received image:">> ELSE <<>>)
        /\ \/ short' = short
           \/ ~ (len > PacketSize) /\ short' = short + (PacketSize - len)
        /\ UNCHANGED <<script, total, offset, wire, room, missed>>
    BY <1>3 DEF DeviceSaves, host_side, line
  <2> HIDE DEF len
  <2>4. short' \in Nat
    <3>1. len \in Nat
      BY <2>2 DEF len
    <3>2. CASE short' = short
      BY <1>1, <3>2
    <3>3. CASE ~ (len > PacketSize) /\ short' = short + (PacketSize - len)
      <4>1. PacketSize - len \in Nat
        BY <1>1, <3>1, <3>3
      <4>2. QED BY <1>1, <3>3, <4>1
    <3>4. QED BY <2>3, <3>2, <3>3
  <2>5. <<"Received image:">> \in Seq(Lines) /\ <<>> \in Seq(Lines)
    BY DEF Lines
  <2>6. log' \in Seq(Lines)
    BY <2>3, <2>5, PrintedType
  <2>7. QED BY <2>3, <2>4, <2>6 DEF ScriptType, Lines
<1>4. CASE DeviceHandles
  <2>1. /\ \/ \E l \in LengthLines : LogPrinted(<<"Uart received:", l>>)
           \/ UNCHANGED log
        /\ UNCHANGED <<script, total, offset, wire, room, missed, short>>
    BY <1>4, Zenon DEF DeviceHandles, host_side, line, LengthLines
  <2>2. ASSUME NEW l \in LengthLines PROVE <<"Uart received:", l>> \in Seq(Lines)
    <3>1. "Uart received:" \in Lines /\ l \in Lines
      BY DEF Lines, LengthLines
    <3>2. QED BY <3>1, PairType, Zenon
  <2>3. log' \in Seq(Lines)
    BY <2>1, <2>2, PrintedType, LogType
  <2>4. QED BY <2>1, <2>3 DEF ScriptType, Lines
<1>5. CASE DeviceReboots
  <2>1. log' \in Seq(Lines)
    BY <1>5, LogType, EmptySeq DEF DeviceReboots
  <2>2. missed' \in BOOLEAN
    BY <1>5, Zenon DEF DeviceReboots, ScriptType
  <2>3. /\ wire' = 0 /\ room' = BlockSize
        /\ UNCHANGED <<script, total, offset, short>>
    BY <1>5 DEF DeviceReboots, host_side
  <2>4. wire' \in Nat /\ room' \in 1 .. BlockSize
    BY <1>1, <2>3
  <2>5. QED BY <2>1, <2>2, <2>3, <2>4 DEF ScriptType, Lines
<1>6. CASE Deliver
  <2>1. /\ wire > 0 /\ wire' = wire - Part
        /\ room' = IF Part = room THEN BlockSize ELSE room - Part
        /\ UNCHANGED <<script, total, offset, log, missed, short>>
    BY <1>6 DEF Deliver, host_side, report
  <2>2. Part \in Nat /\ Part > 0 /\ Part <= wire /\ Part <= room
    BY <1>1, <2>1 DEF Part
  <2>3. wire' \in Nat
    BY <1>1, <2>1, <2>2
  <2>4. room' \in 1 .. BlockSize
    BY <1>1, <2>1, <2>2
  <2>5. script # "start"
    <3>1. script = "start" => wire = 0
      BY DEF ScriptType
    <3>2. wire # 0
      BY <2>1
    <3>3. QED BY <3>1, <3>2
  <2>6. QED BY <2>1, <2>3, <2>4, <2>5 DEF ScriptType
<1>7. CASE LogLost
  <2>1. log' \in Seq(Lines)
    BY <1>7, LogType DEF LogLost
  <2>2. UNCHANGED <<script, total, offset, wire, room, missed, short>>
    BY <1>7 DEF LogLost, host_side, line
  <2>3. QED BY <2>1, <2>2 DEF ScriptType, Lines
<1>8. CASE UNCHANGED allVars
  BY <1>2, <1>8 DEF allVars
<1>9. QED
  BY <1>2, <1>3, <1>4, <1>5, <1>6, <1>7, <1>8, ScriptKeepsType
  DEF SerialNext, Device, OtherHost, OtherSteps, Script

(* Types at the start ...                                                  *)
LEMMA InitTypeInv == SerialInit => TypeInv
<1> SUFFICES ASSUME SerialInit PROVE TypeInv
  OBVIOUS
<1>1. DeviceType
  <2>1. Init
    BY DEF SerialInit
  <2>2. <<>> \in WorkT /\ <<>> \in Seq(Event) /\ Len(<<>>) <= QueueLen
    BY ConstantsAssumption DEF WorkT
  <2>3. Nothing \in Transfer /\ Nothing.left <= Nothing.image[2]
    BY DEF Nothing, Transfer, NoImage
  <2>4. dfu \in DfuT
    BY <2>1 DEF Init, DfuT
  <2>5. QED BY <2>1, <2>2, <2>3, <2>4, WorkType DEF Init, DeviceType, TypeOK
<1>2. ScriptType
  <2>1. BlockSize \in 1 .. BlockSize
    BY SerialAssumption
  <2>2. log \in Seq({"Uart received:", "Fetch file length:",
                    "Can not fetch file length", "Received image:"})
    BY EmptySeq DEF SerialInit
  <2>3. /\ script \in {"none", "start"} /\ missed = FALSE
        /\ total = 0 /\ offset = 0 /\ wire = 0 /\ room = BlockSize /\ short = 0
    BY DEF SerialInit
  <2>4. missed \in BOOLEAN /\ room \in 1 .. BlockSize
    BY <2>1, <2>3
  <2>5. total \in Nat /\ offset \in Nat /\ offset <= total
        /\ wire \in Nat /\ short \in Nat
    BY <2>3
  <2>6. QED BY <2>2, <2>3, <2>4, <2>5 DEF ScriptType
<1>3. QED BY <1>1, <1>2 DEF TypeInv

(* ... and after every step.                                               *)
LEMMA NextTypeInv == TypeInv /\ [SerialNext]_allVars => TypeInv'
  BY StepIsUpgradeStep, StepKeepsType, NextScriptType DEF TypeInv

(* The variables of the device and of the script keep their types: work    *)
(* never holds more than the two items there are, rx_event_queue no more   *)
(* than its length, and the script is never past the end of the image.     *)
THEOREM SerialTypeCorrect == SerialSpec => []SerialTypeOK
<1>1. TypeInv => SerialTypeOK
  BY DEF TypeInv, DeviceType, ScriptType, SerialTypeOK
<1>2. QED BY <1>1, InitTypeInv, NextTypeInv, PTL DEF SerialSpec

-----------------------------------------------------------------------------
(* A requested image.                                                      *)

(* What a step may do to the slot: nothing, erase it, or write to it with  *)
(* a context.                                                              *)
LEMMA SlotStep ==
  ASSUME DeviceType, UpgradeStep, "erase" \notin faults
  PROVE  \/ dfu' = dfu
         \/ dfu.ctx = "ready" /\ dfu'.ctx = "ready" /\ dfu'.pending = dfu.pending
         \/ dfu.ctx = "ready" /\ dfu'.ctx = "NULL"
         \/ ~ dfu'.pending
<1>1. CASE SaveEvent
  <2>1. CASE Fault
    BY <2>1 DEF Fault
  <2>2. CASE ~ Fault
    <3> DEFINE e == rx_event_queue[1]
               image == IF e.kind = "data" THEN e.image ELSE NoImage
    <3>1. /\ image \in Images \cup {NoImage} /\ e.off \in Nat /\ e.len \in Nat
          /\ ~ NoContext(e.len) /\ image_data_save(image, e.off, e.len)
      BY <1>1, <2>2, SaveEventFields
    <3> HIDE DEF e, image
    <3>2. \/ dfu' = dfu
          \/ /\ dfu.ctx = "ready"
             /\ \E s \in Stored(dfu, image, e.off, e.len) :
                  dfu' = s \/ dfu' \in Finished(s)
      BY <3>1, SaveFields
    <3>3. ASSUME NEW s \in Stored(dfu, image, e.off, e.len)
          PROVE  /\ s.ctx = dfu.ctx /\ s.pending = dfu.pending
                 /\ \A f \in Finished(s) : f.ctx = "NULL"
      BY <3>1, StoredFields, FinishedFields DEF DeviceType, TypeOK
    <3>4. QED BY <3>2, <3>3
  <2>3. QED BY <2>1, <2>2
<1>2. CASE FtpData
  <2>1. CASE Fault
    BY <2>1 DEF Fault
  <2>2. CASE ~ Fault
    <3>1. PICK n \in Chunks :
            /\ ~ NoContext(n)
            /\ image_data_save(ftp.image, ftp.image[2] - ftp.left, n)
      BY <1>2, <2>2 DEF FtpData
    <3> DEFINE off == ftp.image[2] - ftp.left
    <3>2. ftp.image \in Images \cup {NoImage} /\ off \in Nat /\ n \in Nat
      BY PeersType, ConstantsAssumption
    <3> HIDE DEF off
    <3>3. \/ dfu' = dfu
          \/ /\ dfu.ctx = "ready"
             /\ \E s \in Stored(dfu, ftp.image, off, n) :
                  dfu' = s \/ dfu' \in Finished(s)
      BY <3>1, <3>2, SaveFields DEF off
    <3>4. ASSUME NEW s \in Stored(dfu, ftp.image, off, n)
          PROVE  /\ s.ctx = dfu.ctx /\ s.pending = dfu.pending
                 /\ \A f \in Finished(s) : f.ctx = "NULL"
      BY <3>2, StoredFields, FinishedFields DEF DeviceType, TypeOK
    <3>5. QED BY <3>3, <3>4
  <2>3. QED BY <2>1, <2>2
<1>3. CASE HandlePacket \/ StartDownload
  <2>1. dfu' = dfu \/ \E r \in Started(dfu) : dfu' = r.dfu
    BY <1>3, HandlePacketFields DEF StartDownload
  <2>2. ASSUME NEW r \in Started(dfu) PROVE ~ r.dfu.pending \/ r.dfu = dfu
    BY StartedFields DEF DeviceType, TypeOK
  <2>3. QED BY <2>1, <2>2
<1>4. CASE Reboot
  <2>1. dfu' = [dfu EXCEPT !.ctx = "NULL", !.pending = FALSE] /\ dfu \in DfuT
    BY <1>4 DEF Reboot, DeviceType, TypeOK
  <2>2. ~ dfu'.pending
    BY <2>1 DEF DfuT
  <2>3. QED BY <2>2
<1>5. CASE \/ HostStep \/ LosesLine \/ WorkStart \/ RxEnd \/ FtpOpen \/ FtpEnd
           \/ SessionFails \/ GetFails \/ UNCHANGED vars
  <2>1. dfu' = dfu
    BY <1>5 DEF HostStep, GiveCommand, StartsScript, DataArrives, LosesLine,
                WorkStart, RxEnd, FtpOpen, FtpEnd, SessionFails, GetFails, vars
  <2>2. QED BY <2>1
<1>6. QED BY <1>1, <1>2, <1>3, <1>4, <1>5 DEF UpgradeStep, DeviceStep

(* No upgrade is requested at the start.                                   *)
LEMMA InitRequestInv == SerialInit => RequestInv
<1> SUFFICES ASSUME SerialInit PROVE RequestInv
  OBVIOUS
<1>1. dfu.ctx = "NULL"
  BY DEF SerialInit, Init
<1>2. QED BY <1>1 DEF RequestInv

(* A requested upgrade leaves no context behind.                           *)
LEMMA NextRequestInv == TypeInv /\ RequestInv /\ [SerialNext]_allVars => RequestInv'
<1> SUFFICES ASSUME TypeInv, RequestInv, [SerialNext]_allVars,
                    "erase" \notin faults', dfu'.pending
    PROVE  dfu'.ctx = "NULL"
  BY DEF RequestInv
<1>1. UpgradeStep /\ DeviceType
  BY StepIsUpgradeStep DEF TypeInv
<1>2. "erase" \notin faults
  BY <1>1 DEF UpgradeStep
<1>3. dfu.pending => dfu.ctx = "NULL"
  BY <1>2 DEF RequestInv
<1>4. CASE dfu' = dfu
  BY <1>3, <1>4
<1>5. CASE dfu.ctx = "ready" /\ dfu'.ctx = "ready" /\ dfu'.pending = dfu.pending
  <2>1. dfu.pending
    BY <1>5
  <2>2. QED BY <1>3, <1>5, <2>1
<1>6. CASE dfu.ctx = "ready" /\ dfu'.ctx = "NULL"
  BY <1>6
<1>7. QED BY <1>1, <1>2, <1>4, <1>5, <1>6, SlotStep

(* Between boot_request_upgrade and the reboot nothing writes to the image *)
(* that was requested, in every order of commands, data and failures:      *)
(* dfu_flash_finish gave up the context without which nothing is stored.   *)
THEOREM RequestedImageStable == SerialSpec => PendingImageStable
<1>1. TypeInv /\ RequestInv /\ [SerialNext]_allVars
        => [dfu.pending /\ dfu'.pending /\ "erase" \notin faults =>
              UNCHANGED <<dfu.images, dfu.stored, dfu.intact>>]_vars
  <2> SUFFICES ASSUME TypeInv, RequestInv, [SerialNext]_allVars,
                      dfu.pending, dfu'.pending, "erase" \notin faults
      PROVE  UNCHANGED <<dfu.images, dfu.stored, dfu.intact>>
    OBVIOUS
  <2>1. UpgradeStep /\ DeviceType
    BY StepIsUpgradeStep DEF TypeInv
  <2>2. dfu.ctx = "NULL"
    BY DEF RequestInv
  <2>3. dfu' = dfu
    BY <2>1, <2>2, SlotStep
  <2>4. QED BY <2>3
<1>2. SerialSpec => []TypeInv
  BY InitTypeInv, NextTypeInv, PTL DEF SerialSpec
<1>3. SerialSpec => []RequestInv
  BY <1>2, InitRequestInv, NextRequestInv, PTL DEF SerialSpec
<1>4. QED BY <1>1, <1>2, <1>3, PTL DEF SerialSpec, PendingImageStable

-----------------------------------------------------------------------------
(* The phases of an upgrade.                                               *)

(* What has been lost stays lost, and commands are counted, so that a      *)
(* disturbed upgrade is disturbed for ever.                                *)
LEMMA HistoryGrows ==
  ASSUME DeviceType, UpgradeStep
  PROVE  /\ faults' = faults /\ (lost => lost')
         /\ commands \in Nat /\ commands' \in Nat /\ commands <= commands'
         /\ Undisturbed' => Undisturbed
<1>1. commands \in Nat /\ lost \in BOOLEAN
  BY DEF DeviceType, TypeOK
<1>2. faults' = faults
  BY DEF UpgradeStep
<1>3. /\ commands' = commands \/ commands' = commands + 1
      /\ lost => lost'
  <2>1. CASE GiveCommand \/ StartsScript
    <3>1. /\ commands' = commands + 1
          /\ \/ \E c \in AllCommands \ {"transfer"} : Arrives(Command(c, NoImage))
             \/ \E s \in Sizes : Announce(s)
      BY <2>1, CommandStep
    <3>2. lost' = lost \/ lost' = TRUE
      BY <3>1 DEF Announce, Arrives
    <3>3. QED BY <3>1, <3>2
  <2>2. CASE \E n \in Nat \ {0} : DataArrives(n)
    <3>1. commands' = commands /\ (lost' = lost \/ lost' = TRUE)
      BY <2>2 DEF DataArrives, Arrives
    <3>2. QED BY <3>1
  <2>3. CASE DeviceStep \/ LosesLine \/ UNCHANGED vars
    <3>1. commands' = commands /\ (lost' = lost \/ lost' = TRUE)
      BY <2>3 DEF DeviceStep, LosesLine, vars, peers, WorkStart, RxEnd, SaveEvent,
                  HandlePacket, StartDownload, FtpOpen, FtpData, FtpEnd,
                  SessionFails, GetFails, Reboot, Fault
    <3>2. QED BY <3>1
  <2>4. QED BY <2>1, <2>2, <2>3 DEF UpgradeStep, HostStep
<1>4. commands' \in Nat /\ commands <= commands'
  BY <1>1, <1>3
<1>5. Undisturbed' => Undisturbed
  <2>1. lost => (commands' <= 1 => commands <= 1)
    BY <1>1, <1>4
  <2>2. QED BY <1>2, <1>3, <2>1 DEF Undisturbed
<1>6. QED BY <1>1, <1>2, <1>3, <1>4, <1>5

(* What Undisturbed excludes.                                              *)
LEMMA CallsSucceed ==
  ASSUME Undisturbed
  PROVE  /\ "malloc" \notin faults /\ "init" \notin faults
         /\ "erase" \notin faults /\ "write" \notin faults
         /\ "mismatch" \notin faults /\ "length" \notin faults
         /\ "mixed" \notin faults
  BY DEF Undisturbed

(* dfu_flash_start, when every call succeeds.                              *)
LEMMA StartSucceeds ==
  ASSUME DeviceType, Undisturbed, NEW r \in Started(dfu)
  PROVE  /\ r.rc = 0 /\ r.dfu.ctx = "ready" /\ ~ r.dfu.pending
         /\ r.dfu.images = {} /\ r.dfu.stored = 0 /\ r.dfu.intact
  BY CallsSucceed, StartedFields DEF DeviceType, TypeOK

(* A host that is not mixing its commands into an image waits until the    *)
(* device has nothing to do.                                               *)
LEMMA CommandWaits ==
  ASSUME Undisturbed, GiveCommand
  PROVE  rx_event_queue = <<>> /\ pc = "idle" /\ work = <<>> /\ host.left = 0
  BY CallsSucceed DEF GiveCommand, DeviceReady

(* Commands after what was lost disturb.                                   *)
LEMMA CommandAfterLoss ==
  ASSUME DeviceType, UpgradeStep, commands > 0, lost, GiveCommand
  PROVE  ~ Undisturbed'
<1>1. commands \in Nat /\ lost'
  BY HistoryGrows
<1>2. commands' = commands + 1
  BY DEF GiveCommand
<1>3. ~ (commands' <= 1)
  BY <1>1, <1>2
<1>4. QED BY <1>1, <1>3 DEF Undisturbed

(* Where an event begins is a place in the image.                          *)
LEMMA FromType ==
  ASSUME DeviceType, NEW i \in Nat \ {0}
  PROVE  From(i) \in Nat
<1>1. host.image[2] - host.left \in Nat
  BY PeersType
<1>2. ASSUME i <= Len(rx_event_queue) PROVE rx_event_queue[i].off \in Nat
  <2>1. i \in 1 .. Len(rx_event_queue)
    BY <1>2, EventTypes
  <2>2. QED BY <2>1, EventTypes
<1>3. QED BY <1>1, <1>2 DEF From, Size

(* What the interrupt adds continues what is queued; what it drops leaves  *)
(* a gap.                                                                  *)
LEMMA DataParts ==
  ASSUME DeviceType, NEW n \in Nat \ {0}, DataArrives(n),
         NEW first \in Nat \ {0}, Parts(first)
  PROVE  /\ Parts(first)' /\ host'.image = host.image
         /\ \A i \in 1 .. Len(rx_event_queue) + 1 :
              /\ From(i)' \in Nat
              /\ From(i) <= From(i)' /\ (From(i)' = From(i) \/ lost')
<1>1. PICK e \in Event :
        /\ e.kind = "data" /\ e.image = host.image /\ e.len = n
        /\ e.off = Size - host.left
        /\ Arrives(e)
        /\ host'.image = host.image /\ host'.left = host.left - n
        /\ n <= host.left
  BY DataStep DEF Size
<1>2. /\ Size' = Size /\ Size \in Nat /\ host.left \in Nat /\ host.left <= Size
      /\ Len(rx_event_queue) \in Nat
  BY <1>1, PeersType, EventTypes DEF Size
<1> DEFINE q == rx_event_queue
           l == Len(rx_event_queue)
           end == Size - host.left
<1>3. end \in Nat /\ Size' - host'.left = end + n
  BY <1>1, <1>2
<1>4. /\ \A i \in 1 .. l : q'[i] = q[i]
      /\ \/ l' = l + 1 /\ q'[l + 1] = e /\ lost' = lost
         \/ l' = l /\ lost' = TRUE
  BY <1>1, ArrivesFields
<1>5. l \in Nat /\ l' \in Nat
  BY <1>2, <1>4
<1>k. PICK k \in Nat : k = l
  BY <1>5
<1>6. lost => lost'
  BY <1>4
<1>7. \A i \in Nat \ {0} : From(i) \in Nat
  BY FromType
<1>8. \A i \in 1 .. l : From(i) = q[i].off
  BY <1>5 DEF From
<1>9. From(k + 1) = end
  BY <1>k DEF From
<1>10. \A i \in 1 .. l : From(i)' = q[i].off
  BY <1>4, <1>5 DEF From
<1>11. CASE l' = l + 1 /\ q'[l + 1] = e /\ lost' = lost
  <2>1. From(k + 1)' = end
    BY <1>1, <1>5, <1>k, <1>11 DEF From
  <2>2. From(k + 2)' = end + n
    BY <1>3, <1>5, <1>k, <1>11 DEF From
  <2>3. \A i \in 1 .. l + 1 : From(i)' = From(i)
    BY <1>k, <1>8, <1>9, <1>10, <2>1
  <2>4. ASSUME NEW i \in first .. l' PROVE PartInOrder(i)'
    <3>1. CASE i \in first .. l
      <4>1. /\ q[i].kind = "data" /\ q[i].image = host.image /\ q[i].len > 0
            /\ q[i].off + q[i].len <= end
            /\ Reaches(q[i].off + q[i].len, From(i + 1))
        BY <3>1 DEF Parts, PartInOrder
      <4>2. i \in 1 .. l /\ i + 1 \in 1 .. l + 1
        BY <1>5, <3>1
      <4>3. q'[i] = q[i] /\ From(i + 1)' = From(i + 1)
        BY <1>4, <2>3, <4>2
      <4>4. q[i].off \in Nat /\ q[i].len \in Nat
        BY <4>2, EventTypes
      <4>5. q[i].off + q[i].len <= Size' - host'.left
        BY <1>1, <1>3, <4>1, <4>4
      <4>6. Reaches(q[i].off + q[i].len, From(i + 1))'
        BY <1>6, <4>1, <4>3 DEF Reaches
      <4>7. QED BY <1>1, <4>1, <4>3, <4>5, <4>6 DEF PartInOrder
    <3>2. CASE i = l + 1
      <4>1. q'[i] = e /\ i + 1 = k + 2
        BY <1>k, <1>11, <3>2
      <4>2. e.off + e.len = end + n /\ n > 0
        BY <1>1
      <4>3. Reaches(q[i].off + q[i].len, From(i + 1))'
        BY <1>3, <2>2, <4>1, <4>2 DEF Reaches
      <4>4. q'[i].off + q'[i].len <= Size' - host'.left
        BY <1>3, <4>1, <4>2
      <4>5. QED BY <1>1, <4>1, <4>2, <4>3, <4>4 DEF PartInOrder
    <3>3. QED BY <1>5, <1>11, <3>1, <3>2
  <2>5. \A i \in 1 .. l + 1 : From(i) <= From(i)' /\ From(i)' \in Nat
    BY <1>5, <1>7, <2>3
  <2>6. QED BY <1>1, <2>3, <2>4, <2>5 DEF Parts
<1>12. CASE l' = l /\ lost' = TRUE
  <2>1. From(k + 1)' = end + n
    BY <1>3, <1>5, <1>k, <1>12 DEF From
  <2>2. \A i \in 1 .. l + 1 : From(i) <= From(i)' /\ From(i)' \in Nat
    <3> TAKE i \in 1 .. l + 1
    <3>1. CASE i \in 1 .. l
      <4>1. From(i)' = From(i)
        BY <1>8, <1>10, <3>1
      <4>2. From(i) \in Nat
        BY <1>7
      <4>3. QED BY <4>1, <4>2
    <3>2. CASE i = k + 1
      <4>1. From(i)' = end + n /\ From(i) = end
        BY <1>9, <2>1, <3>2
      <4>2. QED BY <1>3, <4>1
    <3>3. QED BY <1>k, <3>1, <3>2
  <2>3. \A i \in 1 .. l + 1 : From(i)' \in Nat
    BY <2>2
  <2>4. ASSUME NEW i \in first .. l' PROVE PartInOrder(i)'
    <3>1. /\ q[i].kind = "data" /\ q[i].image = host.image /\ q[i].len > 0
          /\ q[i].off + q[i].len <= end
          /\ Reaches(q[i].off + q[i].len, From(i + 1))
      BY <1>12, <2>4 DEF Parts, PartInOrder
    <3>2. i \in 1 .. l /\ i + 1 \in 1 .. l + 1
      BY <1>5, <1>12, <2>4
    <3>3. q'[i] = q[i] /\ From(i + 1) <= From(i + 1)' /\ From(i + 1)' \in Nat
      BY <1>4, <2>2, <2>3, <3>2
    <3>4. q[i].off \in Nat /\ q[i].len \in Nat /\ From(i + 1) \in Nat
      BY <1>7, <3>2, EventTypes
    <3>5. q[i].off + q[i].len <= Size' - host'.left
      BY <1>1, <1>3, <3>1, <3>4
    <3>6. Reaches(q[i].off + q[i].len, From(i + 1))'
      <4>1. q[i].off + q[i].len <= From(i + 1)
        BY <3>1 DEF Reaches
      <4>2. q[i].off + q[i].len <= From(i + 1)'
        BY <3>3, <3>4, <4>1
      <4>3. QED BY <1>12, <3>3, <4>2 DEF Reaches
    <3>7. QED BY <1>1, <3>1, <3>3, <3>5, <3>6 DEF PartInOrder
  <2>5. QED BY <1>1, <1>12, <2>2, <2>4 DEF Parts
<1>13. QED BY <1>4, <1>11, <1>12

(* What is left when the first event has been handled.                     *)
LEMMA TailParts ==
  ASSUME DeviceType, rx_event_queue # <<>>, Parts(2),
         rx_event_queue' = Tail(rx_event_queue), UNCHANGED <<host, lost>>
  PROVE  Parts(1)' /\ From(1)' = From(2)
<1> DEFINE q == rx_event_queue
           l == Len(rx_event_queue)
<1>1. /\ l \in Nat /\ l > 0 /\ l' = l - 1 /\ l' \in Nat
      /\ \A i \in 1 .. l - 1 : q'[i] = q[i + 1]
  BY EventTail, EventTypes
<1>2. Size' = Size
  BY DEF Size
<1>3. ASSUME NEW i \in 1 .. l PROVE From(i)' = From(i + 1)
  <2>1. CASE i <= l'
    <3>1. i \in 1 .. l - 1 /\ i + 1 <= l
      BY <1>1, <1>3, <2>1
    <3>2. q'[i] = q[i + 1]
      BY <1>1, <3>1
    <3>3. QED BY <2>1, <3>1, <3>2 DEF From
  <2>2. CASE ~ (i <= l')
    <3>1. ~ (i + 1 <= l)
      BY <1>1, <1>3, <2>2
    <3>2. QED BY <1>2, <2>2, <3>1 DEF From
  <2>3. QED BY <2>1, <2>2
<1>4. ASSUME NEW i \in 1 .. l' PROVE PartInOrder(i)'
  <2>1. i + 1 \in 2 .. l /\ i \in 1 .. l - 1 /\ i + 1 \in 1 .. l
    BY <1>1, <1>4
  <2>2. PartInOrder(i + 1)
    BY <2>1 DEF Parts
  <2>3. q'[i] = q[i + 1]
    BY <1>1, <2>1
  <2>4. From(i + 1)' = From((i + 1) + 1)
    BY <1>3, <2>1
  <2>5. QED BY <1>2, <2>2, <2>3, <2>4 DEF PartInOrder, Reaches
<1>5. From(1)' = From(2)
  <2>1. 1 \in 1 .. l /\ 1 + 1 = 2
    BY <1>1
  <2>2. From(1)' = From(1 + 1)
    BY <1>3, <2>1
  <2>3. QED BY <2>1, <2>2
<1>6. QED BY <1>4, <1>5 DEF Parts

(* A host that has no image to send sends none.                            *)
LEMMA NoData ==
  ASSUME DeviceType, NothingComes, NEW n \in Nat \ {0}
  PROVE  ~ DataArrives(n)
<1>1. host.left = 0
  BY DEF NothingComes
<1>2. QED BY <1>1 DEF DataArrives

(* A device that nothing was asked of waits for a command.                 *)
LEMMA CommandTold ==
  ASSUME DeviceType, Quiet, GiveCommand \/ StartsScript
  PROVE  Told'
<1>1. /\ commands' = commands + 1
      /\ UNCHANGED <<pc, transfer_mode, upgrade, dfu, verdict, ftp, running>>
      /\ \/ \E c \in AllCommands \ {"transfer"} :
              Arrives(Command(c, NoImage)) /\ UNCHANGED host
         \/ \E s \in Sizes : Announce(s)
  BY CommandStep
<1>2. /\ commands' > 0
      /\ pc' = "idle" /\ ~ transfer_mode' /\ state' = "IDLE" /\ ~ dfu'.pending
  <2>1. commands' > 0
    BY <1>1 DEF DeviceType, TypeOK
  <2>2. QED BY <1>1, <2>1 DEF Quiet, upgrade
<1>3. ASSUME NEW e \in Event, Arrives(e)
      PROVE  /\ work' = <<"rx">> /\ Len(rx_event_queue') = 1
             /\ rx_event_queue'[1] = e /\ rx_event_queue' # <<>> /\ lost' = lost
  <2>1. /\ rx_event_queue = <<>> /\ Len(rx_event_queue) = 0 /\ work = <<>>
        /\ QueueLen \in Nat \ {0}
    BY ConstantsAssumption DEF Quiet, NothingComes
  <2>2. Len(rx_event_queue) < QueueLen
    BY <2>1
  <2>3. /\ Len(rx_event_queue') = Len(rx_event_queue) + 1
        /\ rx_event_queue'[Len(rx_event_queue) + 1] = e
        /\ work' = Submitted(work, "rx") /\ lost' = lost
        /\ rx_event_queue' \in Seq(Event)
    BY <1>3, <2>1, <2>2, ArrivesFields
  <2>4. work' = <<"rx">>
    BY <2>1, <2>3, SubmittedRx
  <2>5. Len(rx_event_queue') = 1 /\ rx_event_queue'[1] = e
    BY <2>1, <2>3
  <2>6. rx_event_queue' # <<>>
    <3>1. Len(rx_event_queue') # 0
      BY <2>5
    <3>2. QED BY <2>3, <3>1, EmptySeq
  <2>7. lost' = lost
    BY <2>3
  <2>8. QED BY <2>4, <2>5, <2>6, <2>7, Zenon
<1>4. CASE \E c \in AllCommands \ {"transfer"} :
             Arrives(Command(c, NoImage)) /\ UNCHANGED host
  <2>1. PICK c \in AllCommands \ {"transfer"} : Arrives(Command(c, NoImage))
    BY <1>4
  <2>2. /\ Command(c, NoImage) \in Event
        /\ Command(c, NoImage).kind \in {"download", "reboot"}
    BY CommandType DEF AllCommands
  <2>3. /\ work' = <<"rx">> /\ Len(rx_event_queue') = 1 /\ rx_event_queue' # <<>>
        /\ rx_event_queue'[1].kind \in {"download", "reboot"}
    BY <1>3, <2>1, <2>2
  <2>4. host'.left = 0
    BY <1>4 DEF Quiet, NothingComes
  <2>5. QED BY <1>2, <2>3, <2>4 DEF Told, RxTurn
<1>5. CASE \E s \in Sizes : Announce(s)
  <2>1. PICK s \in Sizes : Announce(s)
    BY <1>5
  <2> DEFINE image == <<"uart", s>>
  <2>2. /\ Arrives(Command("transfer", image))
        /\ host' = [image |-> image, left |-> s]
    BY <2>1 DEF Announce
  <2>3. s \in Nat /\ image \in Images /\ image \in {"uart"} \X Sizes /\ image[2] = s
    BY ConstantsAssumption DEF Images
  <2>4. host'.image = image /\ host'.left = s
    BY <2>2
  <2> HIDE DEF image
  <2>5. /\ Command("transfer", image) \in Event
        /\ Command("transfer", image).kind = "transfer"
        /\ Command("transfer", image).image = image
    BY <2>3, CommandType DEF AllCommands
  <2>6. /\ work' = <<"rx">> /\ Len(rx_event_queue') = 1 /\ rx_event_queue' # <<>>
        /\ rx_event_queue'[1].kind = "transfer"
        /\ rx_event_queue'[1].image = host'.image
    BY <1>3, <2>2, <2>4, <2>5
  <2>7. Parts(2)'
    BY <2>3, <2>4, <2>6 DEF Parts
  <2>8. From(2)' = 0
    BY <2>3, <2>4, <2>6 DEF From, Size
  <2>9. Reaches(0, From(2))'
    BY <2>8 DEF Reaches
  <2>10. QED BY <1>2, <2>6, <2>7, <2>9 DEF Told, RxTurn
<1>6. QED BY <1>1, <1>4, <1>5

(* Only a command rouses the device.                                       *)
LEMMA QuietStep ==
  ASSUME DeviceType, UpgradeStep, Undisturbed, Quiet
  PROVE  GiveCommand \/ StartsScript \/ Quiet'
<1>1. ~ \E n \in Nat \ {0} : DataArrives(n)
  BY NoData DEF Quiet
<1>2. ~ DeviceStep
  BY DEF Quiet, DeviceStep, WorkStart, RxEnd, SaveEvent, HandlePacket,
         StartDownload, FtpOpen, FtpData, FtpEnd, SessionFails, GetFails, Reboot
<1>3. CASE LosesLine \/ UNCHANGED vars
  BY <1>3 DEF LosesLine, vars, peers, upgrade, Quiet, NothingComes
<1>4. QED BY <1>1, <1>2, <1>3 DEF UpgradeStep, HostStep

(* From the command to the first step of what it asks for.                 *)
LEMMA ToldStep ==
  ASSUME DeviceType, UpgradeStep, ~ StartsScript, Undisturbed, Told
  PROVE  Told' \/ Receiving' \/ Downloading' \/ Complete'
<1> DEFINE q == rx_event_queue
           e == rx_event_queue[1]
<1>1. /\ commands > 0 /\ commands' > 0 /\ (lost => lost') /\ q # <<>>
      /\ pc \in {"idle", "rx"} /\ work \in {<<>>, <<"rx">>}
      /\ ~ transfer_mode /\ state = "IDLE" /\ ~ dfu.pending
  BY HistoryGrows DEF Told, RxTurn
<1>2. /\ Len(q) \in Nat /\ Len(q) > 0 /\ e \in Event /\ 1 \in 1 .. Len(q)
  BY <1>1, EventTail, EventTypes
<1>3. ~ GiveCommand
  BY <1>1, CommandWaits
<1>4. CASE LosesLine \/ UNCHANGED vars
  <2>1. /\ UNCHANGED <<rx_event_queue, work, pc, transfer_mode, state, dfu, host>>
        /\ (lost => lost')
    BY <1>4 DEF LosesLine, vars, peers, upgrade
  <2>2. Parts(2) => Parts(2)'
    BY <2>1 DEF Parts, PartInOrder, Reaches, From, Size
  <2>3. Reaches(0, From(2)) => Reaches(0, From(2))'
    BY <2>1 DEF Reaches, From, Size
  <2>4. QED BY <1>1, <2>1, <2>2, <2>3 DEF Told, RxTurn
<1>5. CASE WorkStart \/ RxEnd
  <2>1. /\ UNCHANGED <<rx_event_queue, transfer_mode, state, dfu, host, lost>>
        /\ pc' \in {"idle", "rx"} /\ work' \in {<<>>, <<"rx">>}
    <3>1. CASE WorkStart
      <4>1. work = <<"rx">>
        BY <1>1, <3>1 DEF WorkStart
      <4>2. Head(work) = "rx" /\ Tail(work) = <<>>
        BY <4>1
      <4>3. QED BY <3>1, <4>2 DEF WorkStart, upgrade, peers
    <3>2. CASE RxEnd
      BY <1>1, <3>2 DEF RxEnd, upgrade, peers
    <3>3. QED BY <1>5, <3>1, <3>2
  <2>2. Parts(2) => Parts(2)'
    BY <2>1 DEF Parts, PartInOrder, Reaches, From, Size
  <2>3. Reaches(0, From(2)) => Reaches(0, From(2))'
    BY <2>1 DEF Reaches, From, Size
  <2>4. QED BY <1>1, <2>1, <2>2, <2>3 DEF Told, RxTurn
<1>6. ASSUME NEW n \in Nat \ {0}, DataArrives(n) PROVE Told'
  <2>1. PICK d \in Event :
          /\ Arrives(d) /\ n <= host.left
          /\ UNCHANGED <<pc, transfer_mode, upgrade, dfu>>
    BY <1>6, DataStep
  <2>2. host.left \in Nat /\ host.left > 0
    BY <2>1, PeersType
  <2>3. e.kind = "transfer" /\ e.image = host.image /\ Parts(2) /\ Reaches(0, From(2))
    BY <2>2 DEF Told
  <2>4. /\ Parts(2)' /\ host'.image = host.image
        /\ \A i \in 1 .. Len(q) + 1 :
             /\ From(i)' \in Nat
             /\ From(i) <= From(i)' /\ (From(i)' = From(i) \/ lost')
    BY <1>6, <2>3, DataParts
  <2>5. q'[1] = e /\ q' # <<>> /\ work' \in {<<>>, <<"rx">>}
    <3>1. /\ \/ /\ Len(q') = Len(q) + 1
                /\ \A i \in 1 .. Len(q) : q'[i] = q[i]
                /\ work' = Submitted(work, "rx")
             \/ q' = q /\ work' = work
          /\ q' \in Seq(Event)
      BY <2>1, ArrivesFields
    <3>2. work' \in {<<>>, <<"rx">>}
      BY <1>1, <3>1, SubmittedRx
    <3>3. q'[1] = e
      BY <1>2, <3>1
    <3>4. Len(q') > 0
      BY <1>2, <3>1
    <3>5. QED BY <3>1, <3>2, <3>3, <3>4, EmptySeq
  <2>6. Reaches(0, From(2))'
    <3>1. 2 \in 1 .. Len(q) + 1 /\ 2 \in Nat \ {0}
      BY <1>2
    <3>2. From(2)' \in Nat /\ (From(2)' = From(2) \/ lost')
      BY <2>4, <3>1
    <3>3. 0 = From(2) \/ lost
      BY <2>3 DEF Reaches
    <3>4. 0 <= From(2)'
      BY <3>2
    <3>5. 0 = From(2)' \/ lost'
      BY <1>1, <3>2, <3>3
    <3>6. QED BY <3>4, <3>5 DEF Reaches
  <2>7. QED
    BY <1>1, <2>1, <2>3, <2>4, <2>5, <2>6 DEF Told, RxTurn, upgrade
<1>7. CASE HandlePacket
  <2>1. /\ pc = "rx" /\ q' = Tail(q)
        /\ UNCHANGED <<pc, peers, running>>
        /\ \/ /\ e.kind = "download" /\ state' = "UPDATE_DOWNLOAD"
              /\ work' = Submitted(work, "fota")
              /\ UNCHANGED <<transfer_mode, dfu>>
           \/ /\ e.kind = "transfer" /\ transfer_mode' = TRUE
              /\ \E r \in Started(dfu) : dfu' = r.dfu
              /\ total_length' = 0
              /\ file_length' \in FetchedLength(e.image[2])
              /\ UNCHANGED <<state, work>>
           \/ /\ e.kind = "reboot" /\ state' = "UPDATE_APPLY"
              /\ work' = Submitted(work, "fota")
              /\ UNCHANGED <<transfer_mode, dfu>>
           \/ e.kind = "data"
    BY <1>7, HandlePacketFields
  <2>2. UNCHANGED <<host, lost>>
    BY <2>1 DEF peers
  <2>3. CASE e.kind \in {"download", "reboot"}
    <3>1. Len(q) = 1 /\ host.left = 0
      BY <2>3 DEF Told
    <3>2. q' = <<>> /\ host'.left = 0
      BY <1>1, <2>1, <2>2, <3>1, EventTail, EmptySeq
    <3>3. FotaTurn'
      <4>1. work' \in {<<"fota">>, <<"rx", "fota">>}
        BY <1>1, <2>1, <2>3, SubmittedFota
      <4>2. QED BY <2>1, <4>1 DEF FotaTurn
    <3>4. ~ transfer_mode' /\ ~ dfu'.pending
          /\ state' \in {"UPDATE_DOWNLOAD", "UPDATE_APPLY"}
      BY <1>1, <2>1, <2>3
    <3>5. QED
      BY <1>1, <3>2, <3>3, <3>4 DEF Downloading, Complete, NothingComes
  <2>4. CASE e.kind = "transfer"
    <3>1. e.image = host.image /\ Parts(2) /\ Reaches(0, From(2))
      BY <2>4 DEF Told
    <3>2. Parts(1)' /\ From(1)' = From(2)
      BY <1>1, <2>1, <2>2, <3>1, TailParts
    <3>3. Size' = Size /\ Size \in Nat /\ Size > 0
      <4>1. host.image \in {"uart"} \X Sizes
        BY <3>1 DEF Parts
      <4>2. host.image[2] \in Nat \ {0}
        BY <4>1, ConstantsAssumption
      <4>3. QED BY <2>2, <4>2 DEF Size
    <3>4. /\ dfu'.ctx = "ready" /\ ~ dfu'.pending
          /\ dfu'.images = {} /\ dfu'.stored = 0 /\ dfu'.intact
      BY <2>1, <2>4, StartSucceeds
    <3>5. file_length' = Size /\ total_length' = 0
      BY <2>1, <2>4, <3>1, <3>3, CallsSucceed, FetchedType DEF Size
    <3>6. Reaches(total_length, From(1))'
      BY <2>2, <3>1, <3>2, <3>5 DEF Reaches
    <3>7. pc' = "rx" /\ work' \in {<<>>, <<"rx">>} /\ transfer_mode' /\ state' = "IDLE"
      BY <1>1, <2>1, <2>4
    <3>8. total_length' < Size'
      BY <3>3, <3>5
    <3>9. QED
      BY <1>1, <3>2, <3>3, <3>4, <3>5, <3>6, <3>7, <3>8 DEF Receiving, RxTurn
  <2>5. QED BY <2>3, <2>4 DEF Told
<1>8. ~ (\/ SaveEvent \/ StartDownload \/ FtpOpen \/ FtpData \/ FtpEnd
         \/ SessionFails \/ GetFails \/ Reboot)
  BY <1>1 DEF SaveEvent, StartDownload, FtpOpen, FtpData, FtpEnd, SessionFails,
              GetFails, Reboot
<1>9. QED
  BY <1>3, <1>4, <1>5, <1>6, <1>7, <1>8 DEF UpgradeStep, HostStep, DeviceStep

(* The part the device takes next: it belongs to the image, and with the   *)
(* last byte of the image nothing else is to come.                         *)
LEMMA NextPart ==
  ASSUME DeviceType, Receiving, rx_event_queue # <<>>
  PROVE  LET e == rx_event_queue[1] IN
         /\ e.kind = "data" /\ e.image = host.image /\ e.image \in Images
         /\ e.off \in Nat /\ e.len \in Nat \ {0} /\ total_length \in Nat
         /\ Size \in Nat /\ total_length <= e.off /\ (total_length = e.off \/ lost)
         /\ total_length = e.off => dfu.intact
         /\ e.off + e.len <= Size
         /\ From(2) \in Nat /\ e.off + e.len <= From(2)
         /\ e.off + e.len = From(2) \/ lost
         /\ Parts(2)
         /\ e.off + e.len = Size => host.left = 0 /\ Len(rx_event_queue) = 1
<1> DEFINE q == rx_event_queue
           e == rx_event_queue[1]
<1>1. 1 \in 1 .. Len(q) /\ Len(q) \in Nat
  BY EventTail, EventTypes
<1>2. /\ e.kind = "data" /\ e.image = host.image /\ e.len > 0
      /\ e.off + e.len <= Size - host.left
      /\ Reaches(e.off + e.len, From(1 + 1))
      /\ host.image \in {"uart"} \X Sizes /\ Parts(2)
  BY <1>1 DEF Receiving, Parts, PartInOrder
<1>3. e.off \in Nat /\ e.len \in Nat
  BY <1>1, EventTypes
<1>4. Size \in Nat /\ host.left \in Nat /\ host.left <= Size
  BY PeersType DEF Size
<1>5. From(1) = e.off /\ From(2) \in Nat /\ From(1 + 1) = From(2)
  BY <1>1, FromType DEF From
<1>6. e.off + e.len <= From(2) /\ (e.off + e.len = From(2) \/ lost)
  BY <1>2, <1>5 DEF Reaches
<1>7. /\ total_length \in Nat /\ total_length <= e.off
      /\ total_length = e.off \/ lost
      /\ total_length = e.off => dfu.intact
  BY <1>5 DEF Receiving, Reaches, DeviceType, TypeOK
<1>8. e.off + e.len <= Size
  BY <1>2, <1>3, <1>4
<1>9. ASSUME e.off + e.len = Size PROVE host.left = 0 /\ Len(q) = 1
  <2>1. host.left = 0
    BY <1>2, <1>3, <1>4, <1>9
  <2>2. ~ (2 <= Len(q))
    <3>1. SUFFICES ASSUME 2 <= Len(q) PROVE FALSE
      OBVIOUS
    <3>2. 2 \in 2 .. Len(q) /\ 2 \in 1 .. Len(q)
      BY <1>1, <3>1
    <3>3. /\ q[2].len > 0 /\ q[2].off + q[2].len <= Size - host.left
          /\ q[2].off \in Nat /\ q[2].len \in Nat
      BY <1>2, <3>2, EventTypes DEF Parts, PartInOrder
    <3>4. From(2) = q[2].off
      BY <3>1 DEF From
    <3>5. QED BY <1>3, <1>4, <1>6, <1>9, <2>1, <3>3, <3>4
  <2>3. Len(q) = 1
    <3> DEFINE l == Len(q)
    <3>1. l \in Nat /\ 1 \in 1 .. l /\ ~ (2 <= l)
      BY <1>1, <2>2
    <3> HIDE DEF l
    <3>2. l = 1
      BY <3>1
    <3>3. QED BY <3>2 DEF l
  <2>4. QED BY <2>1, <2>3
<1>10. e.image \in Images
  BY <1>2 DEF Images
<1>11. QED BY <1>2, <1>3, <1>4, <1>5, <1>6, <1>7, <1>8, <1>9, <1>10

(* rx_process takes it: the image goes on, or it is complete.              *)
LEMMA PartSaved ==
  ASSUME DeviceType, UpgradeStep, Undisturbed, Receiving, SaveEvent
  PROVE  Receiving' \/ Complete'
<1> DEFINE q == rx_event_queue
           e == rx_event_queue[1]
<1>1. /\ commands' > 0 /\ dfu.ctx = "ready" /\ ~ dfu.pending /\ transfer_mode
      /\ work \in {<<>>, <<"rx">>} /\ state = "IDLE"
      /\ dfu.images \subseteq {host.image} /\ dfu.stored = total_length
      /\ file_length = Size /\ total_length < Size
  BY HistoryGrows DEF Receiving, RxTurn
<1>2. q # <<>> /\ pc = "rx" /\ dfu \in DfuT
  BY DEF SaveEvent, DeviceType, TypeOK
<1>3. ~ Fault
  <2>1. ~ NoContext(Head(q).len)
    BY <1>1 DEF NoContext
  <2>2. UNCHANGED pc
    BY <2>1 DEF SaveEvent
  <2>3. QED BY <1>2, <2>2 DEF Fault
<1>4. /\ e.kind = "data" /\ e.image = host.image /\ e.image \in Images
      /\ e.off \in Nat /\ e.len \in Nat \ {0} /\ total_length \in Nat
      /\ Size \in Nat /\ total_length <= e.off /\ (total_length = e.off \/ lost)
      /\ total_length = e.off => dfu.intact
      /\ e.off + e.len <= Size
      /\ From(2) \in Nat /\ e.off + e.len <= From(2)
      /\ e.off + e.len = From(2) \/ lost
      /\ Parts(2)
      /\ e.off + e.len = Size => host.left = 0 /\ Len(q) = 1
  BY <1>2, NextPart
<1>5. /\ ~ NoContext(e.len) /\ image_data_save(e.image, e.off, e.len)
      /\ \/ /\ file_length = total_length' /\ state' = "UPDATE_APPLY"
            /\ work' = Submitted(work, "fota")
         \/ /\ file_length # total_length'
            /\ UNCHANGED <<state, work>>
      /\ q' = Tail(q)
      /\ UNCHANGED <<pc, transfer_mode, file_length, peers, running>>
  BY <1>3, <1>4, SaveEventFields
<1>6. UNCHANGED <<host, lost>> /\ Size' = Size
  BY <1>5 DEF peers, Size
<1>7. /\ total_length' = total_length + e.len
      /\ \/ dfu' = dfu /\ Last(e.len)
         \/ \E s \in Stored(dfu, e.image, e.off, e.len) :
              \/ ~ Last(e.len) /\ dfu' = s
              \/ Last(e.len) /\ dfu' \in Finished(s)
  BY <1>4, <1>5, SaveFields
<1>8. ASSUME NEW s \in Stored(dfu, e.image, e.off, e.len)
      PROVE  /\ s \in DfuT /\ s.ctx = "ready" /\ s.pending = dfu.pending
             /\ s.images = dfu.images \cup {e.image}
             /\ s.stored = total_length + e.len
             /\ total_length = e.off => s.intact
  <2>1. /\ s \in DfuT /\ s.ctx = dfu.ctx /\ s.pending = dfu.pending
        /\ s.images = dfu.images \cup {e.image} /\ s.stored = dfu.stored + e.len
        /\ dfu.intact /\ e.off = dfu.stored => s.intact
    BY <1>2, <1>4, StoredFields, CallsSucceed
  <2>2. total_length = e.off => s.intact
    BY <1>1, <1>4, <2>1
  <2>3. QED BY <1>1, <2>1, <2>2
<1> HIDE DEF e
<1>9. CASE Last(e.len)
  <2>1. total_length + e.len = Size /\ total_length = e.off /\ e.off + e.len = Size
    BY <1>1, <1>4, <1>9 DEF Last
  <2>2. q' = <<>> /\ host'.left = 0
    BY <1>2, <1>4, <1>5, <1>6, <2>1, EventTail, EmptySeq
  <2>3. state' = "UPDATE_APPLY" /\ FotaTurn'
    <3>1. state' = "UPDATE_APPLY" /\ work' = Submitted(work, "fota") /\ pc' = "rx"
      BY <1>1, <1>2, <1>5, <1>7, <2>1
    <3>2. work' \in {<<"fota">>, <<"rx", "fota">>}
      BY <1>1, <3>1, SubmittedFota
    <3>3. QED BY <3>1, <3>2 DEF FotaTurn
  <2>4. dfu'.pending => Whole(dfu')
    <3>1. CASE dfu' = dfu
      BY <1>1, <3>1
    <3>2. CASE \E s \in Stored(dfu, e.image, e.off, e.len) : dfu' \in Finished(s)
      <4>1. PICK s \in Stored(dfu, e.image, e.off, e.len) : dfu' \in Finished(s)
        BY <3>2
      <4>2. /\ dfu'.images = s.images /\ dfu'.stored = s.stored
            /\ dfu'.intact = s.intact
        BY <1>8, <4>1, FinishedFields
      <4>3. s.intact
        BY <1>8, <2>1
      <4>4. s.images = {e.image} /\ s.stored = e.image[2]
        BY <1>1, <1>4, <1>8, <2>1 DEF Size
      <4>5. dfu'.intact
        BY <4>2, <4>3
      <4>6. QED BY <1>4, <4>2, <4>4, <4>5 DEF Whole
    <3>3. QED BY <1>7, <1>9, <3>1, <3>2
  <2>5. QED BY <1>1, <2>2, <2>3, <2>4 DEF Complete, NothingComes
<1>10. CASE ~ Last(e.len)
  <2>1. total_length + e.len < Size
    BY <1>1, <1>4, <1>10 DEF Last
  <2>2. UNCHANGED <<state, work>>
    BY <1>1, <1>4, <1>5, <1>7, <2>1
  <2>3. PICK s \in Stored(dfu, e.image, e.off, e.len) : dfu' = s
    BY <1>7, <1>10
  <2>4. /\ dfu'.ctx = "ready" /\ ~ dfu'.pending
        /\ dfu'.images \subseteq {host.image}
        /\ dfu'.stored = total_length'
    BY <1>1, <1>4, <1>7, <1>8, <2>3
  <2>5. Parts(1)' /\ From(1)' = From(2)
    BY <1>2, <1>4, <1>5, <1>6, TailParts
  <2>6. Reaches(total_length, From(1))'
    <3>1. /\ total_length + e.len <= From(2)
          /\ total_length + e.len = From(2) \/ lost
      BY <1>4
    <3>2. QED BY <1>6, <1>7, <2>5, <3>1 DEF Reaches
  <2>7. total_length' = From(1)' => dfu'.intact
    <3>1. SUFFICES ASSUME total_length + e.len = From(2) PROVE dfu'.intact
      BY <1>7, <2>5
    <3>2. total_length = e.off
      BY <1>4, <3>1
    <3>3. QED BY <1>8, <2>3, <3>2
  <2>8. file_length' = Size' /\ total_length' < Size'
    BY <1>1, <1>5, <1>6, <1>7, <2>1
  <2>9. RxTurn' /\ transfer_mode' /\ state' = "IDLE" /\ host'.image = host.image
    BY <1>1, <1>2, <1>5, <1>6, <2>2 DEF RxTurn
  <2>10. QED
    BY <1>1, <2>4, <2>5, <2>6, <2>7, <2>8, <2>9 DEF Receiving
<1>11. QED BY <1>9, <1>10

(* The image goes on or is complete; a command would come after a loss.    *)
LEMMA ReceivingStep ==
  ASSUME DeviceType, UpgradeStep, ~ StartsScript, Undisturbed, Undisturbed', Receiving
  PROVE  Receiving' \/ Complete'
<1> DEFINE q == rx_event_queue
<1>1. /\ commands > 0 /\ commands' > 0 /\ (lost => lost')
      /\ pc \in {"idle", "rx"} /\ work \in {<<>>, <<"rx">>}
      /\ transfer_mode /\ state = "IDLE" /\ dfu.ctx = "ready"
      /\ total_length \in Nat /\ total_length < Size
  BY HistoryGrows DEF Receiving, RxTurn, DeviceType, TypeOK
<1>2. ~ GiveCommand
  <2>1. SUFFICES ASSUME GiveCommand PROVE FALSE
    OBVIOUS
  <2>2. q = <<>> /\ host.left = 0
    BY <2>1, CommandWaits
  <2>3. Size \in Nat
    BY PeersType DEF Size
  <2>4. From(1) = Size
    <3>1. Len(q) = 0
      BY <2>2
    <3>2. From(1) = Size - host.left
      BY <3>1 DEF From
    <3>3. QED BY <2>2, <2>3, <3>2
  <2>5. lost
    BY <1>1, <2>3, <2>4 DEF Receiving, Reaches
  <2>6. QED BY <1>1, <2>1, <2>5, CommandAfterLoss
<1>3. ASSUME UNCHANGED <<rx_event_queue, transfer_mode, state, dfu, host,
                         file_length, total_length>>,
             pc' \in {"idle", "rx"}, work' \in {<<>>, <<"rx">>}
      PROVE  Receiving'
  <2>1. Parts(1)'
    BY <1>1, <1>3 DEF Receiving, Parts, PartInOrder, Reaches, From, Size
  <2>2. Reaches(total_length, From(1))'
    BY <1>1, <1>3 DEF Receiving, Reaches, From, Size
  <2>3. total_length' = From(1)' => dfu'.intact
    BY <1>3 DEF Receiving, From, Size
  <2>4. /\ dfu'.images \subseteq {host'.image} /\ dfu'.stored = total_length'
        /\ file_length' = Size' /\ total_length' < Size'
        /\ dfu'.ctx = "ready" /\ ~ dfu'.pending
    BY <1>3 DEF Receiving, Size
  <2>5. QED BY <1>1, <1>3, <2>1, <2>2, <2>3, <2>4 DEF Receiving, RxTurn
<1>4. CASE LosesLine \/ UNCHANGED vars
  <2>1. UNCHANGED <<rx_event_queue, work, pc, transfer_mode, state, dfu, host,
                    file_length, total_length>>
    BY <1>4 DEF LosesLine, vars, peers, upgrade
  <2>2. QED BY <1>1, <1>3, <2>1
<1>5. CASE WorkStart
  <2>1. work = <<"rx">>
    BY <1>1, <1>5 DEF WorkStart
  <2>2. Head(work) = "rx" /\ Tail(work) = <<>>
    BY <2>1
  <2>3. QED BY <1>3, <1>5, <2>2 DEF WorkStart, upgrade, peers
<1>6. CASE RxEnd
  BY <1>1, <1>3, <1>6 DEF RxEnd, upgrade, peers
<1>7. ASSUME NEW n \in Nat \ {0}, DataArrives(n) PROVE Receiving'
  <2>1. PICK d \in Event :
          /\ Arrives(d)
          /\ UNCHANGED <<pc, transfer_mode, upgrade, dfu>>
    BY <1>7, DataStep
  <2>2. Parts(1) /\ 1 \in Nat \ {0}
    BY DEF Receiving
  <2>3. /\ Parts(1)' /\ host'.image = host.image
        /\ \A i \in 1 .. Len(q) + 1 :
             /\ From(i)' \in Nat
             /\ From(i) <= From(i)' /\ (From(i)' = From(i) \/ lost')
    BY <1>7, <2>2, DataParts
  <2>4. 1 \in 1 .. Len(q) + 1
    BY EventTypes
  <2>5. /\ From(1)' \in Nat /\ From(1) \in Nat
        /\ From(1) <= From(1)' /\ (From(1)' = From(1) \/ lost')
    BY <2>2, <2>3, <2>4, FromType
  <2>6. /\ total_length <= From(1) /\ (total_length = From(1) \/ lost)
        /\ total_length = From(1) => dfu.intact
    BY DEF Receiving, Reaches
  <2>7. /\ total_length <= From(1)'
        /\ total_length = From(1)' \/ lost'
        /\ total_length = From(1)' => dfu.intact
    <3>1. total_length <= From(1)'
      BY <1>1, <2>5, <2>6
    <3>2. total_length = From(1)' \/ lost'
      BY <1>1, <2>5, <2>6
    <3>3. total_length = From(1)' => total_length = From(1)
      BY <1>1, <2>5, <2>6
    <3>4. QED BY <2>6, <3>1, <3>2, <3>3
  <2>8. UNCHANGED <<transfer_mode, state, file_length, total_length, dfu, pc>>
        /\ Size' = Size
    BY <2>1, <2>3 DEF upgrade, Size
  <2>9. work' \in {<<>>, <<"rx">>}
    <3>1. work' = Submitted(work, "rx") \/ work' = work
      BY <2>1, ArrivesFields
    <3>2. QED BY <1>1, <3>1, SubmittedRx
  <2>10. Reaches(total_length, From(1))'
    BY <2>7, <2>8 DEF Reaches
  <2>11. total_length' = From(1)' => dfu'.intact
    BY <2>7, <2>8
  <2>12. /\ dfu'.ctx = "ready" /\ ~ dfu'.pending
         /\ dfu'.images \subseteq {host'.image} /\ dfu'.stored = total_length'
         /\ file_length' = Size' /\ total_length' < Size'
    BY <2>3, <2>8 DEF Receiving
  <2>13. RxTurn' /\ transfer_mode' /\ state' = "IDLE"
    BY <1>1, <2>8, <2>9 DEF RxTurn
  <2>14. QED
    BY <1>1, <2>3, <2>10, <2>11, <2>12, <2>13 DEF Receiving
<1>8. ~ (\/ HandlePacket \/ StartDownload \/ FtpOpen \/ FtpData \/ FtpEnd
         \/ SessionFails \/ GetFails \/ Reboot)
  BY <1>1 DEF HandlePacket, StartDownload, FtpOpen, FtpData, FtpEnd, SessionFails,
              GetFails, Reboot
<1>9. QED
  BY <1>2, <1>4, <1>5, <1>6, <1>7, <1>8, PartSaved
  DEF UpgradeStep, HostStep, DeviceStep

(* The work queue gets to fota_work: after rx_process_work, if that waits. *)
LEMMA FotaTurnStep ==
  ASSUME FotaTurn, WorkStart \/ RxEnd
  PROVE  FotaTurn'
<1>1. CASE WorkStart
  <2>1. pc = "idle" /\ work \in {<<"fota">>, <<"rx", "fota">>}
    BY <1>1 DEF FotaTurn, WorkStart
  <2>2. CASE work = <<"fota">>
    <3>1. Head(work) = "fota" /\ Tail(work) = <<>>
      BY <2>2
    <3>2. QED BY <1>1, <3>1 DEF FotaTurn, WorkStart
  <2>3. CASE work = <<"rx", "fota">>
    <3>1. Head(work) = "rx" /\ Tail(work) = <<"fota">>
      BY <2>3
    <3>2. QED BY <1>1, <3>1 DEF FotaTurn, WorkStart
  <2>4. QED BY <2>1, <2>2, <2>3
<1>2. CASE RxEnd
  BY <1>2 DEF FotaTurn, RxEnd
<1>3. QED BY <1>1, <1>2

(* Who waits for the device to be idle waits for fota_work.                *)
LEMMA FotaTurnWaits ==
  ASSUME FotaTurn
  PROVE  ~ (pc = "idle" /\ work = <<>>)
  BY DEF FotaTurn

(* ftp_data_callback takes the next part.                                  *)
LEMMA DataDownloaded ==
  ASSUME DeviceType, UpgradeStep, Undisturbed, Downloading, FtpData
  PROVE  Downloading'
<1>1. /\ commands' > 0 /\ NothingComes /\ ~ transfer_mode
      /\ state = "UPDATE_DOWNLOAD"
      /\ pc = "get" /\ work = <<>> /\ ftp.image \in {"ftp"} \X Sizes
      /\ file_length = ftp.image[2] /\ total_length = ftp.image[2] - ftp.left
      /\ \/ /\ ftp.left > 0 /\ dfu.ctx = "ready" /\ ~ dfu.pending
            /\ dfu.images \subseteq {ftp.image} /\ dfu.stored = total_length
            /\ dfu.intact
         \/ ftp.left = 0
  BY HistoryGrows DEF Downloading, FotaTurn, FtpData
<1>2. PICK n \in Chunks :
        /\ n <= ftp.left
        /\ \/ NoContext(n)
           \/ /\ ~ NoContext(n)
              /\ image_data_save(ftp.image, ftp.image[2] - ftp.left, n)
              /\ ftp' = [ftp EXCEPT !.left = @ - n]
              /\ UNCHANGED <<rx_event_queue, work, pc, transfer_mode, state,
                             file_length, verdict, host, commands, lost, running>>
  BY DEF FtpData
<1>3. /\ n \in Nat \ {0} /\ ftp.left \in Nat /\ ftp.image[2] \in Nat
      /\ ftp.left <= ftp.image[2] /\ ftp.image \in Images /\ ftp \in Transfer
      /\ dfu \in DfuT /\ total_length \in Nat
  BY <1>1, PeersType, ConstantsAssumption DEF Images, DeviceType, TypeOK
<1>4. /\ ftp.left > 0 /\ dfu.ctx = "ready" /\ ~ dfu.pending
      /\ dfu.images \subseteq {ftp.image} /\ dfu.stored = total_length
      /\ dfu.intact
  BY <1>1, <1>2, <1>3
<1>5. /\ ~ NoContext(n)
      /\ image_data_save(ftp.image, ftp.image[2] - ftp.left, n)
      /\ ftp' = [ftp EXCEPT !.left = @ - n]
      /\ UNCHANGED <<rx_event_queue, work, pc, transfer_mode, state,
                     file_length, verdict, host, commands, lost, running>>
  BY <1>2, <1>4 DEF NoContext
<1> DEFINE off == ftp.image[2] - ftp.left
<1>6. off \in Nat /\ off = total_length
  BY <1>1, <1>3
<1>7. ftp'.image = ftp.image /\ ftp'.left = ftp.left - n /\ ftp'.left \in Nat
  <2>1. ftp.left - n \in Nat
    BY <1>2, <1>3
  <2>2. QED BY <1>3, <1>5, <2>1 DEF Transfer
<1> HIDE DEF off
<1>8. /\ total_length' = total_length + n
      /\ \/ dfu' = dfu /\ Last(n)
         \/ \E s \in Stored(dfu, ftp.image, off, n) :
              \/ ~ Last(n) /\ dfu' = s
              \/ Last(n) /\ dfu' \in Finished(s)
  <2>1. image_data_save(ftp.image, off, n) /\ ftp.image \in Images \cup {NoImage}
    BY <1>3, <1>5 DEF off
  <2>2. n \in Nat
    BY <1>3
  <2>3. QED BY <1>5, <1>6, <2>1, <2>2, SaveFields
<1>9. ASSUME NEW s \in Stored(dfu, ftp.image, off, n)
      PROVE  /\ s \in DfuT /\ s.ctx = "ready" /\ s.pending = dfu.pending
             /\ s.images = {ftp.image} /\ s.stored = total_length + n /\ s.intact
  <2>1. /\ s \in DfuT /\ s.ctx = dfu.ctx /\ s.pending = dfu.pending
        /\ s.images = dfu.images \cup {ftp.image} /\ s.stored = dfu.stored + n
        /\ dfu.intact /\ off = dfu.stored => s.intact
    BY <1>3, <1>6, StoredFields, CallsSucceed
  <2>2. s.intact
    BY <1>4, <1>6, <2>1
  <2>3. QED BY <1>4, <2>1, <2>2
<1>10. total_length' = ftp'.image[2] - ftp'.left
  BY <1>1, <1>2, <1>3, <1>7, <1>8
<1>11. /\ pc' = "get" /\ work' = <<>> /\ ftp'.image \in {"ftp"} \X Sizes
       /\ file_length' = ftp'.image[2] /\ NothingComes' /\ ~ transfer_mode'
       /\ state' = "UPDATE_DOWNLOAD"
  BY <1>1, <1>5, <1>7 DEF NothingComes
<1>12. CASE Last(n)
  <2>1. ftp'.left = 0 /\ total_length + n = ftp.image[2]
    BY <1>1, <1>2, <1>3, <1>7, <1>12 DEF Last
  <2>2. dfu'.pending => Whole(dfu')
    <3>1. CASE dfu' = dfu
      BY <1>4, <3>1
    <3>2. CASE \E s \in Stored(dfu, ftp.image, off, n) : dfu' \in Finished(s)
      <4>1. PICK s \in Stored(dfu, ftp.image, off, n) : dfu' \in Finished(s)
        BY <3>2
      <4>2. /\ dfu'.images = s.images /\ dfu'.stored = s.stored
            /\ dfu'.intact = s.intact
        BY <1>9, <4>1, FinishedFields
      <4>3. s.intact
        BY <1>9
      <4>4. s.images = {ftp.image} /\ s.stored = ftp.image[2]
        BY <1>9, <2>1
      <4>5. dfu'.intact
        BY <4>2, <4>3
      <4>6. QED BY <1>3, <4>2, <4>4, <4>5 DEF Whole
    <3>3. QED BY <1>8, <1>12, <3>1, <3>2
  <2>3. QED BY <1>1, <1>10, <1>11, <2>1, <2>2 DEF Downloading
<1>13. CASE ~ Last(n)
  <2>1. ftp'.left > 0
    BY <1>1, <1>2, <1>3, <1>7, <1>13 DEF Last
  <2>2. PICK s \in Stored(dfu, ftp.image, off, n) : dfu' = s
    BY <1>8, <1>13
  <2>3. /\ dfu'.ctx = "ready" /\ ~ dfu'.pending
        /\ dfu'.images \subseteq {ftp'.image} /\ dfu'.stored = total_length'
    BY <1>4, <1>7, <1>8, <1>9, <2>2
  <2>4. dfu'.intact
    BY <1>9, <2>2
  <2>5. QED BY <1>1, <1>10, <1>11, <2>1, <2>3, <2>4 DEF Downloading
<1>14. QED BY <1>12, <1>13

(* A download goes on, is complete or fails.                               *)
LEMMA DownloadingStep ==
  ASSUME DeviceType, UpgradeStep, ~ StartsScript, Undisturbed, Downloading
  PROVE  Downloading' \/ Stopped' \/ Complete'
<1>1. /\ commands' > 0 /\ (lost => lost')
      /\ NothingComes /\ ~ transfer_mode /\ state = "UPDATE_DOWNLOAD"
      /\ ~ (pc = "idle" /\ work = <<>>)
      /\ pc \in {"idle", "rx", "fota"} => FotaTurn /\ ~ dfu.pending
      /\ dfu.pending => Whole(dfu)
  BY HistoryGrows, FotaTurnWaits DEF Downloading
<1>2. ~ GiveCommand
  BY <1>1, CommandWaits
<1>3. ~ \E n \in Nat \ {0} : DataArrives(n)
  BY <1>1, NoData
<1>4. CASE LosesLine \/ UNCHANGED vars
  <2>1. UNCHANGED <<rx_event_queue, work, pc, transfer_mode, state, dfu, host,
                    ftp, file_length, total_length>>
    BY <1>4 DEF LosesLine, vars, peers, upgrade
  <2>2. QED
    BY <1>1, <2>1 DEF Downloading, NothingComes, FotaTurn, Whole
<1>5. CASE WorkStart \/ RxEnd
  <2>1. FotaTurn /\ ~ dfu.pending
    BY <1>1, <1>5 DEF WorkStart, RxEnd
  <2>2. UNCHANGED <<rx_event_queue, transfer_mode, state, dfu, host>>
    BY <1>5 DEF WorkStart, RxEnd, upgrade, peers
  <2>3. FotaTurn'
    BY <1>5, <2>1, FotaTurnStep
  <2>4. QED BY <1>1, <2>1, <2>2, <2>3 DEF Downloading, NothingComes
<1>6. CASE StartDownload
  <2>1. PICK r \in Started(dfu) :
          dfu' = r.dfu /\ pc' = IF r.rc = 0 THEN "open" ELSE "idle"
    BY <1>6 DEF StartDownload
  <2>2. /\ dfu'.ctx = "ready" /\ ~ dfu'.pending
        /\ dfu'.images = {} /\ dfu'.stored = 0 /\ dfu'.intact /\ pc' = "open"
    BY <2>1, StartSucceeds
  <2>3. /\ work' = <<>> /\ total_length' = 0
        /\ UNCHANGED <<rx_event_queue, transfer_mode, state, host>>
    BY <1>1, <1>6 DEF StartDownload, FotaTurn, peers
  <2>4. QED BY <1>1, <2>2, <2>3 DEF Downloading, NothingComes
<1>7. CASE FtpOpen
  <2>1. /\ pc = "open" /\ work = <<>>
        /\ dfu.ctx = "ready" /\ ~ dfu.pending
        /\ dfu.images = {} /\ dfu.stored = 0 /\ dfu.intact
        /\ total_length = 0
    BY <1>7 DEF FtpOpen, Downloading, FotaTurn
  <2>2. PICK s \in Sizes :
          /\ file_length' \in FetchedLength(s)
          /\ ftp' = [image |-> <<"ftp", s>>, left |-> s]
    BY <1>7, CallsSucceed DEF FtpOpen
  <2>3. s \in Nat \ {0} /\ <<"ftp", s>> \in {"ftp"} \X Sizes
    BY ConstantsAssumption
  <2>4. /\ file_length' = s /\ ftp'.left = s /\ ftp'.image \in {"ftp"} \X Sizes
        /\ ftp'.image[2] = s
    BY <2>2, <2>3, CallsSucceed, FetchedType
  <2>5. /\ pc' = "get"
        /\ UNCHANGED <<rx_event_queue, work, transfer_mode, state, total_length,
                       dfu, host>>
    BY <1>7 DEF FtpOpen
  <2>6. /\ total_length' = ftp'.image[2] - ftp'.left /\ ftp'.left > 0
    BY <2>1, <2>3, <2>4, <2>5
  <2>7. /\ dfu'.ctx = "ready" /\ ~ dfu'.pending /\ dfu'.images \subseteq {ftp'.image}
        /\ dfu'.stored = total_length' /\ dfu'.intact
    BY <2>1, <2>5
  <2>8. QED
    BY <1>1, <2>1, <2>4, <2>5, <2>6, <2>7 DEF Downloading, NothingComes
<1>8. CASE FtpEnd
  <2>1. /\ pc = "get" /\ work = <<>> /\ ftp.left = 0
        /\ file_length = ftp.image[2] /\ total_length = ftp.image[2] - ftp.left
    BY <1>8 DEF FtpEnd, Downloading, FotaTurn
  <2>2. file_length = total_length
    BY <2>1, PeersType
  <2>3. /\ state' = "UPDATE_APPLY" /\ work' = Submitted(work, "fota")
        /\ pc' = "idle" /\ UNCHANGED <<rx_event_queue, dfu, host>>
    BY <1>8, <2>2 DEF FtpEnd, apply_state, peers
  <2>4. work' = <<"fota">>
    BY <2>1, <2>3, SubmittedFota
  <2>5. FotaTurn'
    BY <2>3, <2>4 DEF FotaTurn
  <2>6. QED
    BY <1>1, <2>3, <2>5 DEF Complete, NothingComes, Whole
<1>9. CASE SessionFails \/ GetFails
  <2>1. /\ pc' = "idle" /\ lost' = TRUE /\ work = <<>>
        /\ UNCHANGED <<rx_event_queue, work, transfer_mode, dfu, host>>
    BY <1>9 DEF SessionFails, GetFails, Downloading, FotaTurn
  <2>2. QED BY <1>1, <2>1 DEF Stopped, NothingComes, Whole
<1>10. ~ (SaveEvent \/ HandlePacket \/ Reboot)
  BY <1>1 DEF SaveEvent, HandlePacket, Reboot, NothingComes
<1>11. QED
  BY <1>2, <1>3, <1>4, <1>5, <1>6, <1>7, <1>8, <1>9, <1>10, DataDownloaded
  DEF UpgradeStep, HostStep, DeviceStep

(* After a download that failed nothing more is commanded.                 *)
LEMMA StoppedStep ==
  ASSUME DeviceType, UpgradeStep, ~ StartsScript, Undisturbed, Undisturbed', Stopped
  PROVE  Stopped'
<1>1. /\ commands > 0 /\ commands' > 0 /\ lost /\ lost' /\ NothingComes
      /\ pc = "idle" /\ work = <<>> /\ ~ transfer_mode
      /\ dfu.pending => Whole(dfu)
  BY HistoryGrows DEF Stopped
<1>2. ~ GiveCommand
  BY <1>1, CommandAfterLoss
<1>3. ~ \E n \in Nat \ {0} : DataArrives(n)
  BY <1>1, NoData
<1>4. ~ DeviceStep
  BY <1>1 DEF NothingComes, DeviceStep, WorkStart, RxEnd, SaveEvent, HandlePacket,
              StartDownload, FtpOpen, FtpData, FtpEnd, SessionFails, GetFails,
              Reboot
<1>5. CASE LosesLine \/ UNCHANGED vars
  <2>1. UNCHANGED <<rx_event_queue, work, pc, transfer_mode, dfu, host>>
    BY <1>5 DEF LosesLine, vars, peers, upgrade
  <2>2. QED BY <1>1, <2>1 DEF Stopped, NothingComes, Whole
<1>6. QED BY <1>2, <1>3, <1>4, <1>5 DEF UpgradeStep, HostStep

(* The device restarts.                                                    *)
LEMMA CompleteStep ==
  ASSUME DeviceType, UpgradeStep, ~ StartsScript, Undisturbed, Complete
  PROVE  Complete' \/ Quiet'
<1>1. /\ commands' > 0 /\ NothingComes /\ FotaTurn /\ state = "UPDATE_APPLY"
      /\ dfu.pending => Whole(dfu)
      /\ ~ (pc = "idle" /\ work = <<>>) /\ pc \in {"idle", "rx", "fota"}
  BY HistoryGrows, FotaTurnWaits DEF Complete, FotaTurn
<1>2. ~ GiveCommand
  BY <1>1, CommandWaits
<1>3. ~ \E n \in Nat \ {0} : DataArrives(n)
  BY <1>1, NoData
<1>4. CASE LosesLine \/ UNCHANGED vars
  <2>1. UNCHANGED <<rx_event_queue, work, pc, state, dfu, host>>
    BY <1>4 DEF LosesLine, vars, peers, upgrade
  <2>2. QED BY <1>1, <2>1 DEF Complete, NothingComes, FotaTurn, Whole
<1>5. CASE WorkStart \/ RxEnd
  <2>1. UNCHANGED <<rx_event_queue, state, dfu, host>>
    BY <1>5 DEF WorkStart, RxEnd, upgrade, peers
  <2>2. FotaTurn'
    BY <1>1, <1>5, FotaTurnStep
  <2>3. QED BY <1>1, <2>1, <2>2 DEF Complete, NothingComes, Whole
<1>6. CASE Reboot
  <2>1. dfu' = [dfu EXCEPT !.ctx = "NULL", !.pending = FALSE] /\ dfu \in DfuT
    BY <1>6 DEF Reboot, DeviceType, TypeOK
  <2>2. ~ dfu'.pending
    BY <2>1 DEF DfuT
  <2>3. host'.left = 0
    BY <1>6 DEF Reboot, Nothing
  <2>4. QED BY <1>6, <2>2, <2>3 DEF Reboot, Quiet, NothingComes
<1>7. ~ (\/ SaveEvent \/ HandlePacket \/ StartDownload \/ FtpOpen \/ FtpData
         \/ FtpEnd \/ SessionFails \/ GetFails)
  BY <1>1 DEF SaveEvent, HandlePacket, NothingComes, StartDownload, FtpOpen,
              FtpData, FtpEnd, SessionFails, GetFails
<1>8. QED
  BY <1>2, <1>3, <1>4, <1>5, <1>6, <1>7 DEF UpgradeStep, HostStep, DeviceStep

(* The script gives its command to a device that nothing was asked of.     *)
LEMMA ScriptWaits ==
  ASSUME [SerialNext]_allVars, script' = "start"
  PROVE  script = "start" /\ commands' = commands
<1>1. CASE UNCHANGED allVars
  BY <1>1 DEF allVars, vars, peers, serial, host_side
<1>2. CASE Device
  <2>1. UNCHANGED script
    BY <1>2 DEF Device, DeviceSaves, DeviceHandles, DeviceReboots, serial,
                host_side
  <2>2. UNCHANGED commands
    BY <1>2 DEF Device, DeviceSaves, DeviceHandles, DeviceReboots, WorkStart,
                RxEnd, SaveEvent, HandlePacket, StartDownload, FtpOpen, FtpData,
                FtpEnd, Reboot, Fault, peers
  <2>3. QED BY <2>1, <2>2
<1>3. CASE OtherHost \/ OtherSteps
  <2>1. script = "none" /\ UNCHANGED script
    BY <1>3 DEF OtherHost, OtherSteps, serial, host_side
  <2>2. QED BY <2>1
<1>4. CASE Script
  <2>1. script' \in {"confirm", "write", "ack", "done"} \/ script' = script
    BY <1>4 DEF Script, ScriptStart, ScriptConfirm, ScriptWrite, ScriptAck
  <2>2. script # "start"
    BY <1>4 DEF Script, ScriptStart, ScriptConfirm, ScriptWrite, ScriptAck
  <2>3. QED BY <2>1, <2>2
<1>5. CASE Deliver \/ LogLost
  BY <1>5 DEF Deliver, DataArrives, LogLost, host_side
<1>6. QED BY <1>1, <1>2, <1>3, <1>4, <1>5 DEF SerialNext

(* The device starts with nothing asked for ...                            *)
LEMMA InitPhaseInv == SerialInit => PhaseInv
<1> SUFFICES ASSUME SerialInit PROVE Quiet
  BY DEF PhaseInv
<1>1. /\ rx_event_queue = <<>> /\ host.left = 0 /\ pc = "idle" /\ work = <<>>
      /\ transfer_mode = FALSE /\ state = "IDLE"
  BY DEF SerialInit, Init, Nothing
<1>2. ~ dfu.pending
  BY DEF SerialInit, Init
<1>3. QED BY <1>1, <1>2 DEF Quiet, NothingComes

(* ... goes from phase to phase ...                                        *)
LEMMA NextPhaseInv == TypeInv /\ PhaseInv /\ [SerialNext]_allVars => PhaseInv'
<1> SUFFICES ASSUME TypeInv, PhaseInv, [SerialNext]_allVars, Undisturbed'
    PROVE  /\ \/ Quiet' \/ Told' \/ Receiving' \/ Downloading' \/ Stopped'
              \/ Complete'
           /\ script' = "start" => Quiet'
  BY DEF PhaseInv
<1>1. DeviceType /\ UpgradeStep
  BY StepIsUpgradeStep DEF TypeInv
<1>2. Undisturbed
  BY <1>1, HistoryGrows
<1>3. /\ Quiet \/ Told \/ Receiving \/ Downloading \/ Stopped \/ Complete
      /\ script = "start" => Quiet
  BY <1>2 DEF PhaseInv
<1>4. CASE Quiet
  <2>1. Quiet' \/ Told'
    BY <1>1, <1>2, <1>4, QuietStep, CommandTold
  <2>2. ASSUME script' = "start" PROVE Quiet'
    <3>1. commands' = commands /\ commands \in Nat
      BY <1>1, <2>2, ScriptWaits DEF DeviceType, TypeOK
    <3>2. ~ (GiveCommand \/ StartsScript)
      BY <3>1 DEF GiveCommand, StartsScript
    <3>3. QED BY <1>1, <1>2, <1>4, <3>2, QuietStep
  <2>3. QED BY <2>1, <2>2
<1>5. CASE ~ Quiet
  <2>1. script # "start"
    BY <1>3, <1>5
  <2>2. script' # "start" /\ ~ StartsScript
    BY <2>1, ScriptWaits DEF StartsScript
  <2>3. CASE Told
    BY <1>1, <1>2, <2>2, <2>3, ToldStep
  <2>4. CASE Receiving
    BY <1>1, <1>2, <2>2, <2>4, ReceivingStep
  <2>5. CASE Downloading
    BY <1>1, <1>2, <2>2, <2>5, DownloadingStep
  <2>6. CASE Stopped
    BY <1>1, <1>2, <2>2, <2>6, StoppedStep
  <2>7. CASE Complete
    BY <1>1, <1>2, <2>2, <2>7, CompleteStep
  <2>8. QED BY <1>3, <1>5, <2>3, <2>4, <2>5, <2>6, <2>7
<1>6. QED BY <1>4, <1>5

(* ... and is always in one of them.                                       *)
LEMMA PhaseSafe == SerialSpec => []PhaseInv
<1>1. SerialSpec => []TypeInv
  BY InitTypeInv, NextTypeInv, PTL DEF SerialSpec
<1>2. QED BY <1>1, InitPhaseInv, NextPhaseInv, PTL DEF SerialSpec

(* The bootloader is asked for whole images only: whatever parts an image  *)
(* comes in, however far the host runs ahead, and whatever rx_event_queue  *)
(* drops or the FTP session fails to bring, what image_data_save counted   *)
(* when it requested the upgrade is what dfu_data_store stored, of one     *)
(* image and in its order.                                                 *)
THEOREM RequestedIsWhole == SerialSpec => []PendingIsWhole
<1>1. PhaseInv => PendingIsWhole
  BY DEF PhaseInv, PendingIsWhole, Quiet, Told, Receiving, Downloading, Stopped,
         Complete
<1>2. QED BY <1>1, PhaseSafe, PTL

(* image_data_save is never reached without the context dfu_flash_start    *)
(* allocates: the image is complete, and transfer_mode followed by a       *)
(* reboot, before anything could be stored once more.                      *)
THEOREM ContextWhenStoring == SerialSpec => []NoFault
<1>1. PhaseInv => NoFault
  BY DEF PhaseInv, NoFault, Quiet, Told, Receiving, Downloading, Stopped,
         Complete, RxTurn, FotaTurn
<1>2. QED BY <1>1, PhaseSafe, PTL

-----------------------------------------------------------------------------
(* Sums over a sequence.  SumOf is a recursive function of how far it has  *)
(* come; what it computes is proved by taking the first index at which it  *)
(* would not.                                                              *)

(* A set of natural numbers that is not empty has a least element.         *)
LEMMA LeastNatural ==
  ASSUME NEW T, T \subseteq Nat, T # {}
  PROVE  \E n \in T : \A m \in T : n <= m
<1> DEFINE R == {ss \in Nat \X Nat : ss[1] < ss[2]}
<1>1. OpToRel(<, Nat) = R
  BY Zenon DEF OpToRel
<1>2. IsWellFoundedOn(R, Nat)
  BY <1>1, NatLessThanWellFounded, Zenon
<1>3. \A m, n \in Nat : m < n => <<m, n>> \in R
  BY DEF R
<1> HIDE DEF R
<1>4. PICK n \in T : \A m \in T : ~(<<m, n>> \in R)
  BY <1>2, WFMin
<1>5. ASSUME NEW m \in T PROVE n <= m
  <2>1. m \in Nat /\ n \in Nat
    OBVIOUS
  <2>2. ~(m < n)
    BY <1>3, <1>4, <2>1, Zenon
  <2>3. QED BY <2>1, <2>2
<1>6. QED BY <1>5

(* Induction, for a set instead of a predicate: a set of indices that      *)
(* holds 0 and with every index the next one holds all of them.            *)
LEMMA IndexInduction ==
  ASSUME NEW n \in Nat, NEW T, 0 \in T, \A k \in 0 .. n - 1 : k \in T => k + 1 \in T
  PROVE  \A k \in 0 .. n : k \in T
<1> DEFINE Missing == {k \in 0 .. n : k \notin T}
<1>1. ASSUME Missing # {} PROVE FALSE
  <2>1. Missing \subseteq Nat
    OBVIOUS
  <2> HIDE DEF Missing
  <2>2. PICK k \in Missing : \A m \in Missing : k <= m
    BY <1>1, <2>1, LeastNatural, Zenon
  <2> USE DEF Missing
  <2>3. k # 0 /\ k - 1 \in 0 .. n - 1
    OBVIOUS
  <2>4. k - 1 \in T
    BY <2>2, <2>3
  <2>5. (k - 1) + 1 \in T
    BY <2>3, <2>4, Zenon
  <2>6. QED BY <2>5
<1>2. QED BY <1>1

Upto(s) ==
  CHOOSE f : f = [i \in 0 .. Len(s) |-> IF i = 0 THEN 0 ELSE f[i - 1] + s[i]]

(* SumOf is what it has come to at the end.                                *)
LEMMA SumByUpto == \A s : SumOf(s) = Upto(s)[Len(s)]
BY DEF SumOf, Upto

(* There is such a function for every sequence.                            *)
LEMMA UptoDefined ==
  ASSUME NEW s \in Seq(Nat)
  PROVE  Upto(s) =
           [i \in 0 .. Len(s) |-> IF i = 0 THEN 0 ELSE Upto(s)[i - 1] + s[i]]
<1> DEFINE IsUpto(f, n) ==
             f = [i \in 0 .. n |-> IF i = 0 THEN 0 ELSE f[i - 1] + s[i]]
           T == {n \in Nat : \E f : IsUpto(f, n)}
<1>1. 0 \in T
  <2>1. IsUpto([i \in 0 .. 0 |-> 0], 0)
    OBVIOUS
  <2> HIDE DEF IsUpto
  <2>2. QED BY <2>1
<1>2. ASSUME NEW k \in 0 .. Len(s) - 1, k \in T PROVE k + 1 \in T
  <2> HIDE DEF IsUpto
  <2>1. PICK g : IsUpto(g, k)
    BY <1>2
  <2> DEFINE n == k + 1
             h == [i \in 0 .. n |-> IF i = n THEN g[k] + s[n] ELSE g[i]]
  <2>2. ASSUME NEW i \in 0 .. n
        PROVE  h[i] = IF i = 0 THEN 0 ELSE h[i - 1] + s[i]
    <3>1. CASE i = n
      <4>1. h[i] = g[k] + s[n]
        BY <3>1
      <4>2. i # 0 /\ h[i - 1] = g[k]
        BY <3>1
      <4>3. QED BY <3>1, <4>1, <4>2
    <3>2. CASE i # n
      <4>1. i \in 0 .. k /\ h[i] = g[i]
        BY <3>2
      <4>2. i # 0 => h[i - 1] = g[i - 1]
        BY <4>1
      <4>3. g[i] = IF i = 0 THEN 0 ELSE g[i - 1] + s[i]
        BY <2>1, <4>1, Zenon DEF IsUpto
      <4>4. QED BY <4>1, <4>2, <4>3
    <3>3. QED BY <3>1, <3>2
  <2>3. IsUpto(h, n)
    BY <2>2 DEF IsUpto
  <2>4. n \in Nat
    OBVIOUS
  <2> HIDE DEF h, n
  <2>5. n \in T
    BY <2>3, <2>4, Zenon
  <2>6. QED BY <2>5 DEF n
<1> HIDE DEF T
<1>3. Len(s) \in Nat
  BY LenProperties
<1>4. \A k \in 0 .. Len(s) : k \in T
  BY <1>1, <1>2, <1>3, IndexInduction
<1>5. Len(s) \in T
  BY <1>3, <1>4
<1>6. \E f : IsUpto(f, Len(s))
  BY <1>5, Zenon DEF T
<1>7. QED
  BY <1>6, Zenon DEF Upto

(* It goes through the sequence one number at a time.                      *)
LEMMA UptoStep ==
  ASSUME NEW s \in Seq(Nat)
  PROVE  /\ Upto(s)[0] = 0
         /\ \A k \in 0 .. Len(s) - 1 : Upto(s)[k + 1] = Upto(s)[k] + s[k + 1]
         /\ \A k \in 0 .. Len(s) : Upto(s)[k] \in Nat
<1> DEFINE f == Upto(s)
           T == {k \in 0 .. Len(s) : f[k] \in Nat}
<1>1. f = [i \in 0 .. Len(s) |-> IF i = 0 THEN 0 ELSE f[i - 1] + s[i]]
  BY UptoDefined
<1>2. Len(s) \in Nat /\ \A k \in 1 .. Len(s) : s[k] \in Nat
  BY LenProperties, ElementOfSeq
<1> HIDE DEF f
<1>3. f[0] = 0
  BY <1>1, <1>2
<1>4. ASSUME NEW k \in 0 .. Len(s) - 1 PROVE f[k + 1] = f[k] + s[k + 1]
  BY <1>1, <1>2
<1>5. 0 \in T
  BY <1>2, <1>3
<1>6. ASSUME NEW k \in 0 .. Len(s) - 1, k \in T PROVE k + 1 \in T
  <2>1. f[k] \in Nat /\ s[k + 1] \in Nat /\ k + 1 \in 0 .. Len(s)
    BY <1>2, <1>6
  <2>2. f[k + 1] \in Nat
    BY <1>4, <2>1
  <2>3. QED BY <2>1, <2>2
<1>7. \A k \in 0 .. Len(s) : k \in T
  <2> HIDE DEF T
  <2>1. QED BY <1>2, <1>5, <1>6, IndexInduction
<1>8. \A k \in 0 .. Len(s) : f[k] \in Nat
  BY <1>7
<1>9. QED BY <1>3, <1>4, <1>8 DEF f

(* The sum of nothing, and that of any sequence.                           *)
LEMMA SumType ==
  ASSUME NEW s \in Seq(Nat)
  PROVE  SumOf(s) \in Nat /\ (Len(s) = 0 => SumOf(s) = 0)
<1>1. Len(s) \in Nat
  BY LenProperties
<1>2. SumOf(s) = Upto(s)[Len(s)]
  BY SumByUpto
<1>3. Len(s) \in 0 .. Len(s)
  BY <1>1
<1>4. SumOf(s) \in Nat
  BY <1>2, <1>3, UptoStep
<1>5. Len(s) = 0 => SumOf(s) = 0
  BY <1>2, UptoStep
<1>6. QED BY <1>4, <1>5

(* A number more at the end.                                               *)
LEMMA SumExtend ==
  ASSUME NEW s \in Seq(Nat), NEW t \in Seq(Nat), Len(t) = Len(s) + 1,
         \A i \in 1 .. Len(s) : t[i] = s[i]
  PROVE  SumOf(t) = SumOf(s) + t[Len(s) + 1]
<1> DEFINE n == Len(s)
           T == {k \in 0 .. n : Upto(t)[k] = Upto(s)[k]}
<1>1. n \in Nat
  BY LenProperties
<1>2. 0 \in T
  BY <1>1, UptoStep
<1>3. ASSUME NEW k \in 0 .. n - 1, k \in T PROVE k + 1 \in T
  <2>1. /\ k + 1 \in 1 .. n /\ k + 1 \in 0 .. n /\ k \in 0 .. Len(s) - 1
        /\ k \in 0 .. Len(t) - 1
    BY <1>1
  <2>2. t[k + 1] = s[k + 1] /\ Upto(t)[k] = Upto(s)[k]
    BY <1>3, <2>1
  <2>3. /\ Upto(t)[k + 1] = Upto(t)[k] + t[k + 1]
        /\ Upto(s)[k + 1] = Upto(s)[k] + s[k + 1]
    BY <2>1, UptoStep
  <2>4. Upto(t)[k + 1] = Upto(s)[k + 1]
    BY <2>2, <2>3
  <2>5. QED BY <2>1, <2>4
<1>4. n \in T
  <2> HIDE DEF T
  <2>1. \A k \in 0 .. n : k \in T
    BY <1>1, <1>2, <1>3, IndexInduction
  <2>2. QED BY <1>1, <2>1
<1>5. Upto(t)[n] = Upto(s)[n]
  BY <1>4
<1>6. n \in 0 .. Len(t) - 1
  BY <1>1
<1>7. Upto(t)[n + 1] = Upto(t)[n] + t[n + 1]
  BY <1>6, UptoStep
<1>8. SumOf(t) = Upto(t)[n + 1] /\ SumOf(s) = Upto(s)[n]
  BY SumByUpto
<1>9. QED BY <1>5, <1>7, <1>8

(* A number less at the front.                                             *)
LEMMA SumTail ==
  ASSUME NEW s \in Seq(Nat), NEW t \in Seq(Nat), Len(s) = Len(t) + 1,
         \A i \in 1 .. Len(t) : t[i] = s[i + 1]
  PROVE  SumOf(s) = s[1] + SumOf(t)
<1> DEFINE n == Len(t)
           T == {k \in 0 .. n : Upto(s)[k + 1] = s[1] + Upto(t)[k]}
<1>1. n \in Nat
  BY LenProperties
<1>2. s[1] \in Nat
  <2>1. 1 \in 1 .. Len(s)
    BY <1>1
  <2>2. QED BY <2>1, ElementOfSeq
<1>3. 0 \in T
  <2>1. 0 \in 0 .. Len(s) - 1 /\ 0 \in 0 .. n
    BY <1>1
  <2>2. Upto(s)[0 + 1] = Upto(s)[0] + s[0 + 1]
    BY <2>1, UptoStep
  <2>3. Upto(s)[0] = 0 /\ Upto(t)[0] = 0
    BY UptoStep
  <2>4. Upto(s)[0 + 1] = s[1] + Upto(t)[0]
    BY <1>2, <2>2, <2>3
  <2>5. QED BY <2>1, <2>4
<1>4. ASSUME NEW k \in 0 .. n - 1, k \in T PROVE k + 1 \in T
  <2>1. /\ k + 1 \in 1 .. n /\ k + 1 \in 0 .. n /\ k \in 0 .. Len(t) - 1
        /\ k + 1 \in 0 .. Len(s) - 1 /\ k \in 0 .. Len(t)
    BY <1>1
  <2>2. t[k + 1] = s[(k + 1) + 1] /\ Upto(s)[k + 1] = s[1] + Upto(t)[k]
    BY <1>4, <2>1
  <2>3. /\ Upto(t)[k + 1] = Upto(t)[k] + t[k + 1]
        /\ Upto(s)[(k + 1) + 1] = Upto(s)[k + 1] + s[(k + 1) + 1]
    BY <2>1, UptoStep
  <2>4. Upto(t)[k] \in Nat /\ t[k + 1] \in Nat
    BY <2>1, UptoStep, ElementOfSeq
  <2> DEFINE a == Upto(s)[(k + 1) + 1]
             b == Upto(t)[k + 1]
  <2>5. a = s[1] + b
    BY <1>2, <2>2, <2>3, <2>4, SMTT(20)
  <2>6. QED BY <2>1, <2>5
<1>5. n \in T
  <2> HIDE DEF T
  <2>1. \A k \in 0 .. n : k \in T
    BY <1>1, <1>3, <1>4, IndexInduction
  <2>2. QED BY <1>1, <2>1
<1>6. Upto(s)[n + 1] = s[1] + Upto(t)[n]
  BY <1>5
<1>7. SumOf(s) = Upto(s)[n + 1] /\ SumOf(t) = Upto(t)[n]
  BY SumByUpto
<1>8. QED BY <1>6, <1>7

-----------------------------------------------------------------------------
(* The script's lead.  Bytes in rx_event_queue, and what the script will   *)
(* take the lines it has not read to confirm.                              *)
DataLen(e) == IF e.kind = "data" THEN e.len ELSE 0
Lens(q)    == [i \in 1 .. Len(q) |-> DataLen(q[i])]
Worth(l)   == IF l = "Received image:" THEN PacketSize ELSE 0
Worths(ls) == [i \in 1 .. Len(ls) |-> Worth(ls[i])]
Claimed    == SumOf(Worths(log))

(* What is on the line and queued, and what the unread lines confirm as    *)
(* well, is what was written for a packet that is not confirmed yet, and   *)
(* what confirmed parts fell short of.                                     *)
LeadCounted ==
  wire + Queued + Claimed <= (IF script = "ack" THEN PacketSize ELSE 0) + short

(* The script gives one command, which is not taken for image data.        *)
CommandsFirst ==
  \A i \in 1 .. Len(rx_event_queue) :
    rx_event_queue[i].kind # "data" => i = 1 /\ ~ transfer_mode

LeadInv ==
  script # "none" =>
    /\ pc # "fault" => LeadCounted
    /\ CommandsFirst
    /\ script = "start" => rx_event_queue = <<>> /\ ~ transfer_mode

(* The lengths of the events of a queue, one number for each.              *)
LEMMA LensType ==
  ASSUME NEW q \in Seq(Event)
  PROVE  /\ Lens(q) \in Seq(Nat) /\ Len(Lens(q)) = Len(q) /\ Len(q) \in Nat
         /\ \A i \in 1 .. Len(q) : Lens(q)[i] = DataLen(q[i])
<1>1. Len(q) \in Nat
  BY LenProperties
<1>2. \A i \in 1 .. Len(q) : q[i] \in Event
  BY ElementOfSeq
<1>3. \A i \in 1 .. Len(q) : DataLen(q[i]) \in Nat
  BY <1>2 DEF DataLen, Event
<1>4. Lens(q) \in [1 .. Len(q) -> Nat]
  BY <1>3 DEF Lens
<1>5. Lens(q) \in Seq(Nat) /\ Len(Lens(q)) = Len(q)
  BY <1>1, <1>4, LenProperties
<1>6. QED BY <1>1, <1>5 DEF Lens

(* Bytes of the queue, with an event more and with the first one less.     *)
LEMMA LensExtend ==
  ASSUME NEW q \in Seq(Event), NEW r \in Seq(Event), Len(r) = Len(q) + 1,
         \A i \in 1 .. Len(q) : r[i] = q[i]
  PROVE  SumOf(Lens(r)) = SumOf(Lens(q)) + DataLen(r[Len(q) + 1])
<1>1. /\ Lens(q) \in Seq(Nat) /\ Len(Lens(q)) = Len(q) /\ Len(q) \in Nat
      /\ \A i \in 1 .. Len(q) : Lens(q)[i] = DataLen(q[i])
      /\ Lens(r) \in Seq(Nat) /\ Len(Lens(r)) = Len(r)
      /\ \A i \in 1 .. Len(r) : Lens(r)[i] = DataLen(r[i])
  BY LensType
<1>2. ASSUME NEW i \in 1 .. Len(q) PROVE Lens(r)[i] = Lens(q)[i]
  <2>1. i \in 1 .. Len(r)
    BY <1>1
  <2>2. QED BY <1>1, <1>2, <2>1
<1>3. Lens(r)[Len(q) + 1] = DataLen(r[Len(q) + 1])
  BY <1>1
<1> DEFINE a == Lens(q)
           b == Lens(r)
<1>4. /\ a \in Seq(Nat) /\ b \in Seq(Nat) /\ Len(b) = Len(a) + 1
      /\ \A i \in 1 .. Len(a) : b[i] = a[i]
      /\ b[Len(a) + 1] = DataLen(r[Len(q) + 1])
  BY <1>1, <1>2, <1>3
<1> HIDE DEF a, b
<1>5. SumOf(b) = SumOf(a) + b[Len(a) + 1]
  BY <1>4, SumExtend
<1>6. QED BY <1>4, <1>5 DEF a, b

(* With its first event taken, the queue holds that many bytes less.       *)
LEMMA LensTail ==
  ASSUME NEW q \in Seq(Event), q # <<>>
  PROVE  SumOf(Lens(q)) = DataLen(q[1]) + SumOf(Lens(Tail(q)))
<1> DEFINE r == Tail(q)
           a == Lens(q)
           b == Lens(r)
<1>1. /\ r \in Seq(Event) /\ Len(q) = Len(r) + 1 /\ Len(r) \in Nat
      /\ \A i \in 1 .. Len(r) : r[i] = q[i + 1]
  <2>1. Len(q) \in Nat /\ Len(q) > 0
    BY LenProperties, EmptySeq
  <2>2. r \in Seq(Event) /\ Len(r) = Len(q) - 1
        /\ \A i \in 1 .. Len(r) : r[i] = q[i + 1]
    BY HeadTailProperties
  <2> HIDE DEF r
  <2>3. QED BY <2>1, <2>2
<1> HIDE DEF r
<1>2. /\ a \in Seq(Nat) /\ Len(a) = Len(q)
      /\ \A i \in 1 .. Len(q) : a[i] = DataLen(q[i])
      /\ b \in Seq(Nat) /\ Len(b) = Len(r)
      /\ \A i \in 1 .. Len(r) : b[i] = DataLen(r[i])
  BY <1>1, LensType
<1> HIDE DEF a, b
<1>3. ASSUME NEW i \in 1 .. Len(b) PROVE b[i] = a[i + 1]
  <2>1. i \in 1 .. Len(r) /\ i + 1 \in 1 .. Len(q)
    BY <1>1, <1>2
  <2>2. QED BY <1>1, <1>2, <2>1
<1>4. SumOf(a) = a[1] + SumOf(b)
  BY <1>1, <1>2, <1>3, SumTail
<1>5. a[1] = DataLen(q[1])
  BY <1>1, <1>2
<1>6. QED BY <1>4, <1>5 DEF a, b, r

(* The same for the lines of the log.                                      *)
LEMMA WorthsType ==
  ASSUME NEW ls \in Seq(Lines)
  PROVE  /\ Worths(ls) \in Seq(Nat) /\ Len(Worths(ls)) = Len(ls) /\ Len(ls) \in Nat
         /\ \A i \in 1 .. Len(ls) : Worths(ls)[i] = Worth(ls[i])
<1>1. Len(ls) \in Nat
  BY LenProperties
<1>2. \A i \in 1 .. Len(ls) : Worth(ls[i]) \in Nat
  BY SerialAssumption DEF Worth
<1>3. Worths(ls) \in [1 .. Len(ls) -> Nat]
  BY <1>2 DEF Worths
<1>4. Worths(ls) \in Seq(Nat) /\ Len(Worths(ls)) = Len(ls)
  BY <1>1, <1>3, LenProperties
<1>5. QED BY <1>1, <1>4 DEF Worths

(* A line that is read confirms no more.                                   *)
LEMMA WorthsTail ==
  ASSUME NEW ls \in Seq(Lines), ls # <<>>
  PROVE  SumOf(Worths(ls)) = Worth(Head(ls)) + SumOf(Worths(Tail(ls)))
<1> DEFINE r == Tail(ls)
           a == Worths(ls)
           b == Worths(r)
<1>1. /\ r \in Seq(Lines) /\ Len(ls) = Len(r) + 1 /\ Len(r) \in Nat
      /\ \A i \in 1 .. Len(r) : r[i] = ls[i + 1]
  <2>1. Len(ls) \in Nat /\ Len(ls) > 0
    BY LenProperties, EmptySeq
  <2>2. r \in Seq(Lines) /\ Len(r) = Len(ls) - 1
        /\ \A i \in 1 .. Len(r) : r[i] = ls[i + 1]
    BY HeadTailProperties
  <2> HIDE DEF r
  <2>3. QED BY <2>1, <2>2
<1>2. Head(ls) = ls[1]
  BY HeadTailProperties
<1> HIDE DEF r
<1>3. /\ a \in Seq(Nat) /\ Len(a) = Len(ls)
      /\ \A i \in 1 .. Len(ls) : a[i] = Worth(ls[i])
      /\ b \in Seq(Nat) /\ Len(b) = Len(r)
      /\ \A i \in 1 .. Len(r) : b[i] = Worth(r[i])
  BY <1>1, WorthsType
<1> HIDE DEF a, b
<1>4. ASSUME NEW i \in 1 .. Len(b) PROVE b[i] = a[i + 1]
  <2>1. i \in 1 .. Len(r) /\ i + 1 \in 1 .. Len(ls)
    BY <1>1, <1>3
  <2>2. QED BY <1>1, <1>3, <2>1
<1>5. SumOf(a) = a[1] + SumOf(b)
  BY <1>1, <1>3, <1>4, SumTail
<1>6. a[1] = Worth(Head(ls))
  BY <1>1, <1>2, <1>3
<1>7. QED BY <1>5, <1>6 DEF a, b, r

(* A line that is printed confirms what it is worth.                       *)
LEMMA WorthsExtend ==
  ASSUME NEW ls \in Seq(Lines), NEW l \in Lines
  PROVE  /\ ls \o <<l>> \in Seq(Lines)
         /\ SumOf(Worths(ls \o <<l>>)) = SumOf(Worths(ls)) + Worth(l)
<1> DEFINE r == ls \o <<l>>
           a == Worths(ls)
           b == Worths(r)
<1>1. /\ r \in Seq(Lines) /\ Len(r) = Len(ls) + 1 /\ Len(ls) \in Nat
      /\ \A i \in 1 .. Len(ls) : r[i] = ls[i]
      /\ r[Len(ls) + 1] = l
  <2> DEFINE t == <<l>>
  <2>1. t \in Seq(Lines) /\ Len(t) = 1 /\ t[1] = l
    OBVIOUS
  <2>2. Len(ls) \in Nat
    BY LenProperties
  <2> HIDE DEF t
  <2>3. ls \o t \in Seq(Lines)
        /\ Len(ls \o t) = Len(ls) + Len(t)
        /\ \A i \in 1 .. Len(ls) + Len(t) :
             (ls \o t)[i] = IF i <= Len(ls) THEN ls[i] ELSE t[i - Len(ls)]
    BY <2>1, ConcatProperties
  <2> DEFINE u == ls \o t
  <2>4. u = r
    BY DEF t
  <2>5. u \in Seq(Lines) /\ Len(u) = Len(ls) + 1
        /\ \A i \in 1 .. Len(ls) + 1 :
             u[i] = IF i <= Len(ls) THEN ls[i] ELSE t[i - Len(ls)]
    BY <2>1, <2>3
  <2> HIDE DEF u, r
  <2>6. \A i \in 1 .. Len(ls) : u[i] = ls[i]
    BY <2>2, <2>5
  <2>7. u[Len(ls) + 1] = l
    BY <2>1, <2>2, <2>5
  <2>8. QED BY <2>2, <2>4, <2>5, <2>6, <2>7
<1> HIDE DEF r
<1>2. /\ a \in Seq(Nat) /\ Len(a) = Len(ls)
      /\ \A i \in 1 .. Len(ls) : a[i] = Worth(ls[i])
      /\ b \in Seq(Nat) /\ Len(b) = Len(r)
      /\ \A i \in 1 .. Len(r) : b[i] = Worth(r[i])
  BY <1>1, WorthsType
<1> HIDE DEF a, b
<1>3. ASSUME NEW i \in 1 .. Len(a) PROVE b[i] = a[i]
  <2>1. i \in 1 .. Len(ls) /\ i \in 1 .. Len(r)
    BY <1>1, <1>2
  <2>2. QED BY <1>1, <1>2, <2>1
<1>4. SumOf(b) = SumOf(a) + b[Len(a) + 1]
  BY <1>1, <1>2, <1>3, SumExtend
<1>5. b[Len(a) + 1] = Worth(l)
  <2>1. Len(ls) + 1 \in 1 .. Len(r)
    BY <1>1
  <2>2. b[Len(ls) + 1] = Worth(l)
    BY <1>1, <1>2, <2>1
  <2>3. QED BY <1>2, <2>2
<1>6. QED BY <1>1, <1>4, <1>5 DEF a, b, r

(* The sums of the current state are numbers.                              *)
Numbers ==
  Queued \in Nat /\ Claimed \in Nat /\ wire \in Nat /\ short \in Nat

(* They are, in every state with the types above.                          *)
LEMMA LeadNumbers == TypeInv => Numbers
<1> SUFFICES ASSUME TypeInv PROVE Numbers
  OBVIOUS
<1>1. Queued = SumOf(Lens(rx_event_queue))
  BY DEF Queued, Lens, DataLen
<1>2. rx_event_queue \in Seq(Event)
  BY EventTypes DEF TypeInv
<1>3. SumOf(Lens(rx_event_queue)) \in Nat
  BY <1>2, LensType, SumType
<1>4. log \in Seq(Lines) /\ wire \in Nat /\ short \in Nat
  BY LogType DEF TypeInv, ScriptType
<1>5. Claimed \in Nat
  BY <1>4, WorthsType, SumType DEF Claimed
<1>6. QED BY <1>1, <1>3, <1>4, <1>5 DEF Numbers

(* What they are made of, before a step ...                                *)
LEMMA LeadType ==
  ASSUME TypeInv
  PROVE  /\ Queued = SumOf(Lens(rx_event_queue)) /\ Queued \in Nat
         /\ Claimed \in Nat /\ wire \in Nat /\ short \in Nat
<1>1. Queued = SumOf(Lens(rx_event_queue))
  BY DEF Queued, Lens, DataLen
<1>2. QED BY <1>1, LeadNumbers DEF Numbers

(* ... and after it.                                                       *)
LEMMA NextLeadType ==
  ASSUME TypeInv'
  PROVE  /\ Queued' = SumOf(Lens(rx_event_queue')) /\ Queued' \in Nat
         /\ Claimed' \in Nat /\ wire' \in Nat /\ short' \in Nat
<1>1. Numbers'
  BY LeadNumbers, PTL
<1>2. Queued' = SumOf(Lens(rx_event_queue'))
  BY DEF Queued, Lens, DataLen
<1>3. QED BY <1>1, <1>2 DEF Numbers

(* What a step has to keep, for a program on the host that is the script.  *)
LEMMA LeadKept ==
  ASSUME TypeInv, TypeInv', LeadInv, script # "none",
         pc' # "fault" => pc # "fault" /\ (LeadCounted => LeadCounted'),
         CommandsFirst => CommandsFirst',
         script' = "start" => rx_event_queue' = <<>> /\ ~ transfer_mode'
  PROVE  LeadInv'
BY DEF LeadInv

(* The queue and the log as they were.                                     *)
LEMMA QueueAsBefore ==
  ASSUME UNCHANGED <<rx_event_queue, transfer_mode>>
  PROVE  Queued' = Queued /\ (CommandsFirst => CommandsFirst')
<1>1. Queued' = Queued
  BY DEF Queued
<1>2. CommandsFirst => CommandsFirst'
  BY DEF CommandsFirst
<1>3. QED BY <1>1, <1>2

(* A log as it was confirms as much.                                       *)
LEMMA LogAsBefore == log' = log => Claimed' = Claimed
BY DEF Claimed

(* One event less: nothing but data is left.                               *)
LEMMA EventTaken ==
  ASSUME TypeInv, TypeInv', rx_event_queue # <<>>,
         rx_event_queue' = Tail(rx_event_queue)
  PROVE  /\ Queued = DataLen(rx_event_queue[1]) + Queued'
         /\ DataLen(rx_event_queue[1]) \in Nat
         /\ CommandsFirst => CommandsFirst'
<1>1. /\ rx_event_queue \in Seq(Event) /\ Len(rx_event_queue) \in Nat
      /\ 1 \in 1 .. Len(rx_event_queue)
      /\ Len(rx_event_queue') = Len(rx_event_queue) - 1
      /\ \A i \in 1 .. Len(rx_event_queue) - 1 :
           rx_event_queue'[i] = rx_event_queue[i + 1]
  BY EventTypes, EventTail DEF TypeInv
<1>2. Queued = DataLen(rx_event_queue[1]) + Queued'
  BY <1>1, LeadType, NextLeadType, LensTail
<1>3. rx_event_queue[1].len \in Nat
  BY <1>1, EventTypes DEF TypeInv
<1>4. DataLen(rx_event_queue[1]) \in Nat
  BY <1>3 DEF DataLen
<1>5. ASSUME CommandsFirst, NEW i \in 1 .. Len(rx_event_queue'),
             rx_event_queue'[i].kind # "data"
      PROVE  FALSE
  <2>1. i + 1 \in 1 .. Len(rx_event_queue) /\ i + 1 # 1
        /\ rx_event_queue'[i] = rx_event_queue[i + 1]
    BY <1>1
  <2>2. QED BY <1>5, <2>1 DEF CommandsFirst
<1>6. CommandsFirst => CommandsFirst'
  BY <1>5 DEF CommandsFirst
<1>7. QED BY <1>2, <1>4, <1>6

(* A sum is not less than its second summand, whatever the first one is.   *)
LEMMA SummandLess ==
  ASSUME NEW n \in Nat, NEW w \in {0, n}, NEW x \in Nat, NEW y \in Nat, x = w + y
  PROVE  y <= x
OBVIOUS

(* One line of the log less.                                               *)
LEMMA LineRead ==
  ASSUME TypeInv, TypeInv', log # <<>>, log' = Tail(log)
  PROVE  /\ Claimed = Worth(Head(log)) + Claimed'
         /\ Worth(Head(log)) \in {0, PacketSize} /\ PacketSize \in Nat
         /\ Head(log) = "Received image:" => Worth(Head(log)) = PacketSize
         /\ Claimed' <= Claimed
<1>1. log \in Seq(Lines) /\ PacketSize \in Nat
  BY LogType, SerialAssumption DEF TypeInv
<1>2. Claimed = Worth(Head(log)) + Claimed'
  BY <1>1, WorthsTail DEF Claimed
<1>3. /\ Worth(Head(log)) \in {0, PacketSize}
      /\ Head(log) = "Received image:" => Worth(Head(log)) = PacketSize
  BY DEF Worth
<1>4. Claimed \in Nat /\ Claimed' \in Nat
  BY LeadType, NextLeadType
<1>5. Claimed' <= Claimed
  BY <1>1, <1>2, <1>3, <1>4, SummandLess, Zenon
<1>6. QED BY <1>1, <1>2, <1>3, <1>5

(* A sequence of two, and two lines printed one after the other.           *)
LEMMA PairIsAppend ==
  ASSUME NEW S, NEW u \in Seq(S), Len(u) = 1, NEW b \in S,
         NEW w \in Seq(S), Len(w) = 2, w[1] = u[1], w[2] = b
  PROVE  w = u \o <<b>>
<1> DEFINE x == Append(u, b)
<1>1. x \in Seq(S) /\ Len(x) = Len(u) + 1
  BY AppendProperties
<1>2. \A i \in 1 .. Len(u) : x[i] = u[i]
  BY AppendProperties
<1>3. x[Len(u) + 1] = b
  BY AppendProperties
<1>4. x = u \o <<b>>
  BY AppendIsConcat
<1> HIDE DEF x
<1>5. \A i \in 1 .. Len(w) : w[i] = x[i]
  BY <1>1, <1>2, <1>3
<1>6. Len(w) = Len(x)
  BY <1>1
<1>7. w = x
  BY <1>1, <1>5, <1>6, SeqEqual
<1>8. QED BY <1>4, <1>7

(* Two sequences of one make the sequence of two.                          *)
LEMMA PairIsConcat ==
  ASSUME NEW S, NEW a \in S, NEW b \in S
  PROVE  <<a>> \o <<b>> = <<a, b>>
<1>1. <<a>> \in Seq(S) /\ <<a, b>> \in Seq(S)
  OBVIOUS
<1>2. Len(<<a>>) = 1 /\ Len(<<a, b>>) = 2 /\ <<a, b>>[1] = <<a>>[1] /\ <<a, b>>[2] = b
  OBVIOUS
<1>3. QED BY <1>1, <1>2, PairIsAppend

(* Printing two lines is printing one after the other.                     *)
LEMMA TwoLines ==
  ASSUME NEW S, NEW a \in S, NEW b \in S, NEW s \in Seq(S)
  PROVE  s \o <<a, b>> = (s \o <<a>>) \o <<b>>
<1>1. <<a>> \in Seq(S) /\ <<b>> \in Seq(S)
  OBVIOUS
<1>2. <<a>> \o <<b>> = <<a, b>>
  BY PairIsConcat
<1>3. (s \o <<a>>) \o <<b>> = s \o (<<a>> \o <<b>>)
  BY <1>1, ConcatAssociative
<1>4. QED BY <1>2, <1>3

(* What the device prints: a line confirms a packet, or none does.         *)
LEMMA LinesPrinted ==
  ASSUME TypeInv, script # "none"
  PROVE  /\ LogPrinted(<<>>) => Claimed' = Claimed
         /\ LogPrinted(<<"Received image:">>) => Claimed' = Claimed + PacketSize
         /\ \A l \in LengthLines :
              LogPrinted(<<"Uart received:", l>>) => Claimed' = Claimed
<1>1. log \in Seq(Lines) /\ Claimed \in Nat
  BY LogType, LeadType DEF TypeInv
<1>2. ASSUME LogPrinted(<<>>) PROVE Claimed' = Claimed
  <2>1. log' = log \o <<>>
    BY <1>2 DEF LogPrinted
  <2>2. log \o <<>> = log
    BY <1>1, ConcatEmptySeq
  <2>3. QED BY <2>1, <2>2, LogAsBefore
<1>3. ASSUME LogPrinted(<<"Received image:">>)
      PROVE  Claimed' = Claimed + PacketSize
  <2>1. log' = log \o <<"Received image:">>
    BY <1>3 DEF LogPrinted
  <2>2. "Received image:" \in Lines
    BY DEF Lines
  <2>3. QED BY <1>1, <2>1, <2>2, WorthsExtend DEF Claimed, Worth
<1>4. ASSUME NEW l \in LengthLines, LogPrinted(<<"Uart received:", l>>)
      PROVE  Claimed' = Claimed
  <2> DEFINE one == log \o <<"Uart received:">>
  <2>1. log' = log \o <<"Uart received:", l>>
    BY <1>4 DEF LogPrinted
  <2>2. /\ "Uart received:" \in Lines /\ l \in Lines
        /\ Worth("Uart received:") = 0 /\ Worth(l) = 0
    BY DEF Lines, LengthLines, Worth
  <2>3. one \in Seq(Lines) /\ SumOf(Worths(one)) = Claimed + 0
    BY <1>1, <2>2, WorthsExtend DEF Claimed
  <2>4. SumOf(Worths(one \o <<l>>)) = SumOf(Worths(one)) + 0
    BY <2>2, <2>3, WorthsExtend
  <2>5. log' = one \o <<l>>
    BY <1>1, <2>1, <2>2, TwoLines
  <2> DEFINE x == SumOf(Worths(one))
             y == SumOf(Worths(one \o <<l>>))
  <2>6. x = Claimed + 0 /\ y = x + 0
    BY <2>3, <2>4
  <2> HIDE DEF x, y
  <2>7. y = Claimed
    BY <1>1, <2>6
  <2>8. QED BY <2>5, <2>7 DEF Claimed, y
<1>5. QED BY <1>2, <1>3, <1>4

(* The parts that image_data_save reports: a line for every part, and the  *)
(* part falls short of the packet that the line confirms.                  *)
LEMMA LeadSaves ==
  ASSUME TypeInv, TypeInv', LeadInv, script # "none", DeviceSaves
  PROVE  LeadInv'
<1>1. SaveEvent /\ UNCHANGED <<script, total, offset, wire, room, missed>>
  BY DEF DeviceSaves, host_side, line
<1>2. rx_event_queue # <<>> /\ transfer_mode /\ pc = "rx"
  BY <1>1 DEF SaveEvent
<1>3. CASE Fault
  <2>1. pc' = "fault" /\ UNCHANGED <<rx_event_queue, transfer_mode>>
    BY <1>3 DEF Fault
  <2>2. CommandsFirst => CommandsFirst'
    BY <2>1, QueueAsBefore
  <2>3. script # "start"
    BY <1>2 DEF LeadInv
  <2>4. QED BY <1>1, <2>1, <2>2, <2>3, LeadKept
<1>4. CASE ~ Fault
  <2> DEFINE len == rx_event_queue[1].len
  <2>1. /\ rx_event_queue' = Tail(rx_event_queue) /\ len \in Nat
        /\ UNCHANGED <<pc, transfer_mode>>
    BY <1>1, <1>4, SaveEventFields DEF TypeInv
  <2>2. /\ Queued = DataLen(rx_event_queue[1]) + Queued'
        /\ CommandsFirst => CommandsFirst'
    BY <1>2, <2>1, EventTaken
  <2>3. script # "start" /\ CommandsFirst /\ LeadCounted
    BY <1>2 DEF LeadInv
  <2>4. 1 \in 1 .. Len(rx_event_queue) /\ Head(rx_event_queue) = rx_event_queue[1]
    BY <1>2, EventTail DEF TypeInv
  <2>5. DataLen(rx_event_queue[1]) = len
    BY <1>2, <2>3, <2>4 DEF CommandsFirst, DataLen
  <2>6. /\ LogPrinted(IF Reported(len) THEN <<"Received image:">> ELSE <<>>)
        /\ short' = IF len > PacketSize THEN short ELSE short + (PacketSize - len)
    BY <2>4 DEF DeviceSaves
  <2>7. Claimed' = Claimed \/ Claimed' = Claimed + PacketSize
    BY <2>6, LinesPrinted
  <2>8. /\ Queued' \in Nat /\ Claimed \in Nat /\ wire \in Nat /\ short \in Nat
        /\ PacketSize \in Nat
    BY LeadType, NextLeadType, SerialAssumption
  <2>9. wire + Queued + Claimed <= (IF script = "ack" THEN PacketSize ELSE 0) + short
    BY <2>3 DEF LeadCounted
  <2>10. Queued = len + Queued' /\ wire' = wire /\ script' = script
    BY <1>1, <2>2, <2>5
  <2> DEFINE bound == IF script = "ack" THEN PacketSize ELSE 0
             q == Queued
             r == Queued'
             c == Claimed
             d == Claimed'
             x == short'
  <2>11. /\ r \in Nat /\ c \in Nat /\ bound \in Nat /\ len \in Nat
         /\ q = len + r /\ wire + q + c <= bound + short
         /\ d = c \/ d = c + PacketSize
         /\ x = IF len > PacketSize THEN short ELSE short + (PacketSize - len)
    BY <2>1, <2>6, <2>7, <2>8, <2>9, <2>10
  <2>12. wire \in Nat /\ short \in Nat /\ PacketSize \in Nat
    BY <2>8
  <2> HIDE DEF len, bound, q, r, c, d, x
  <2>13. wire + r + d <= bound + x
    <3>1. len > PacketSize => d <= c + len /\ x = short
      BY <2>11, <2>12
    <3>2. ~ (len > PacketSize) => x + len = short + PacketSize /\ d <= c + PacketSize
      BY <2>11, <2>12
    <3>3. QED BY <2>11, <2>12, <3>1, <3>2
  <2>14. LeadCounted'
    BY <2>10, <2>13 DEF LeadCounted, bound, r, d, x
  <2>15. QED BY <1>1, <2>1, <2>2, <2>3, <2>14, LeadKept
<1>5. QED BY <1>3, <1>4

(* Arithmetic of the lead: w bytes on the line, q in the queue, c that the *)
(* log confirms, within b and the shortfall s.                             *)
LEMMA LessClaimed ==
  ASSUME NEW w \in Nat, NEW q \in Nat, NEW c \in Nat, NEW b \in Nat, NEW s \in Nat,
         NEW d \in Nat, w + q + c <= b + s, d <= c
  PROVE  w + q + d <= b + s
OBVIOUS

(* A part of n bytes leaves the queue ...                                  *)
LEMMA LessQueued ==
  ASSUME NEW w \in Nat, NEW q \in Nat, NEW c \in Nat, NEW b \in Nat, NEW s \in Nat,
         NEW n \in Nat, NEW r \in Nat, w + q + c <= b + s, q = n + r
  PROVE  w + r + c <= b + s
OBVIOUS

(* ... or leaves the line, for the queue or for nowhere, ...               *)
LEMMA FromLineToQueue ==
  ASSUME NEW w \in Nat, NEW q \in Nat, NEW c \in Nat, NEW b \in Nat, NEW s \in Nat,
         NEW p \in Nat, w + q + c <= b + s, p <= w
  PROVE  (w - p) + (q + p) + c <= b + s /\ (w - p) + q + c <= b + s
OBVIOUS

(* ... or all that is on its way is dropped, ...                           *)
LEMMA OnlyClaimed ==
  ASSUME NEW w \in Nat, NEW q \in Nat, NEW c \in Nat, NEW b \in Nat, NEW s \in Nat,
         NEW d \in Nat, w + q + c <= b + s, d <= c
  PROVE  0 + 0 + d <= b + s
OBVIOUS

(* ... or the line that confirms the packet of n bytes is read.            *)
LEMMA PacketClaimed ==
  ASSUME NEW w \in Nat, NEW q \in Nat, NEW c \in Nat, NEW n \in Nat, NEW s \in Nat,
         NEW d \in Nat, w + q + c <= n + s, c = n + d
  PROVE  w + q + d <= 0 + s
OBVIOUS

(* An event more, unless the queue is full.                                *)
LEMMA EventAdded ==
  ASSUME TypeInv, TypeInv', NEW e \in Event, Arrives(e)
  PROVE  /\ \/ /\ Len(rx_event_queue') = Len(rx_event_queue) + 1
               /\ \A i \in 1 .. Len(rx_event_queue) :
                    rx_event_queue'[i] = rx_event_queue[i]
               /\ rx_event_queue'[Len(rx_event_queue) + 1] = e
            \/ rx_event_queue' = rx_event_queue
         /\ Queued' = Queued + DataLen(e) \/ Queued' = Queued
<1>1. rx_event_queue \in Seq(Event) /\ Len(rx_event_queue) \in Nat
  BY EventTypes DEF TypeInv
<1>2. /\ rx_event_queue' \in Seq(Event)
      /\ \/ /\ Len(rx_event_queue') = Len(rx_event_queue) + 1
            /\ \A i \in 1 .. Len(rx_event_queue) :
                 rx_event_queue'[i] = rx_event_queue[i]
            /\ rx_event_queue'[Len(rx_event_queue) + 1] = e
         \/ rx_event_queue' = rx_event_queue
  BY ArrivesFields DEF TypeInv
<1>3. CASE rx_event_queue' = rx_event_queue
  BY <1>3, LeadType, NextLeadType
<1>4. CASE /\ Len(rx_event_queue') = Len(rx_event_queue) + 1
           /\ \A i \in 1 .. Len(rx_event_queue) :
                rx_event_queue'[i] = rx_event_queue[i]
           /\ rx_event_queue'[Len(rx_event_queue) + 1] = e
  <2>1. SumOf(Lens(rx_event_queue')) = SumOf(Lens(rx_event_queue)) + DataLen(e)
    BY <1>1, <1>2, <1>4, LensExtend
  <2>2. QED BY <1>2, <2>1, LeadType, NextLeadType
<1>5. QED BY <1>2, <1>3, <1>4

(* The other steps of the device.                                          *)
LEMMA LeadDevice ==
  ASSUME TypeInv, TypeInv', LeadInv, script # "none", Device
  PROVE  LeadInv'
<1> DEFINE bound == IF script = "ack" THEN PacketSize ELSE 0
<1>1. /\ Queued \in Nat /\ Claimed \in Nat /\ wire \in Nat /\ short \in Nat
      /\ Queued' \in Nat /\ Claimed' \in Nat /\ wire' \in Nat /\ short' \in Nat
      /\ bound \in Nat
  BY LeadType, NextLeadType, SerialAssumption
<1>2. CASE /\ WorkStart \/ RxEnd \/ StartDownload \/ FtpOpen \/ FtpData \/ FtpEnd
           /\ UNCHANGED serial
  <2>1. /\ UNCHANGED <<rx_event_queue, transfer_mode>>
        /\ pc' # "fault" => pc # "fault"
    BY <1>2 DEF WorkStart, RxEnd, StartDownload, FtpOpen, FtpData, FtpEnd, Fault
  <2>2. UNCHANGED <<script, wire, log, short>>
    BY <1>2 DEF serial, host_side, line, report
  <2>3. Queued' = Queued /\ Claimed' = Claimed /\ (CommandsFirst => CommandsFirst')
    BY <2>1, <2>2, QueueAsBefore, LogAsBefore
  <2>4. LeadCounted => LeadCounted'
    BY <2>2, <2>3 DEF LeadCounted
  <2>5. script' = "start" => rx_event_queue' = <<>> /\ ~ transfer_mode'
    BY <2>1, <2>2 DEF LeadInv
  <2>6. QED BY <2>1, <2>3, <2>4, <2>5, LeadKept
<1>3. CASE DeviceHandles
  <2>1. HandlePacket /\ UNCHANGED <<script, wire, short>>
    BY <1>3 DEF DeviceHandles, host_side, line
  <2>2. /\ rx_event_queue # <<>> /\ rx_event_queue' = Tail(rx_event_queue)
        /\ UNCHANGED pc
    BY <2>1 DEF HandlePacket
  <2>3. /\ Queued = DataLen(rx_event_queue[1]) + Queued'
        /\ DataLen(rx_event_queue[1]) \in Nat
        /\ CommandsFirst => CommandsFirst'
    BY <2>2, EventTaken
  <2>4. Claimed' = Claimed
    <3>1. UNCHANGED log \/ \E l \in LengthLines : LogPrinted(<<"Uart received:", l>>)
      BY <1>3, Zenon DEF DeviceHandles, LengthLines
    <3>2. QED BY <3>1, LinesPrinted, LogAsBefore
  <2>5. LeadCounted => LeadCounted'
    <3> DEFINE w == DataLen(rx_event_queue[1])
    <3>1. w \in Nat /\ Queued = w + Queued'
      BY <2>3
    <3> HIDE DEF w
    <3> SUFFICES ASSUME LeadCounted PROVE LeadCounted'
      OBVIOUS
    <3>2. wire + Queued + Claimed <= bound + short
      BY DEF LeadCounted
    <3> HIDE DEF bound
    <3>3. wire + Queued' + Claimed <= bound + short
      BY <1>1, <3>1, <3>2, LessQueued, Zenon
    <3>4. QED BY <2>1, <2>4, <3>3 DEF LeadCounted, bound
  <2>6. script # "start"
    BY <2>2 DEF LeadInv
  <2>7. QED BY <2>1, <2>2, <2>3, <2>5, <2>6, LeadKept
<1>4. CASE DeviceReboots
  <2>1. /\ rx_event_queue' = <<>> /\ transfer_mode' = FALSE
        /\ wire' = 0 /\ UNCHANGED <<script, short>> /\ log' \in {log, <<>>}
        /\ pc = "fota"
    BY <1>4 DEF DeviceReboots, Reboot, host_side
  <2>2. Queued' = 0
    <3>1. <<>> \in Seq(Event) /\ Len(<<>>) = 0
      BY EmptySeq
    <3>2. Lens(<<>>) \in Seq(Nat) /\ Len(Lens(<<>>)) = 0
      BY <3>1, LensType
    <3>3. QED BY <2>1, <3>2, NextLeadType, SumType
  <2>3. Claimed' <= Claimed
    <3>1. CASE log' = log
      BY <1>1, <3>1, LogAsBefore
    <3>2. CASE log' = <<>>
      <4>1. <<>> \in Seq(Lines) /\ Len(<<>>) = 0
        BY EmptySeq
      <4>2. Worths(<<>>) \in Seq(Nat) /\ Len(Worths(<<>>)) = 0
        BY <4>1, WorthsType
      <4>3. Claimed' = 0
        BY <3>2, <4>2, SumType DEF Claimed
      <4>4. QED BY <1>1, <4>3
    <3>3. QED BY <2>1, <3>1, <3>2
  <2>4. LeadCounted => LeadCounted'
    <3> SUFFICES ASSUME LeadCounted PROVE LeadCounted'
      OBVIOUS
    <3>1. wire + Queued + Claimed <= bound + short
      BY DEF LeadCounted
    <3> HIDE DEF bound
    <3>2. wire' + Queued' + Claimed' <= bound + short
      <4>1. wire' = 0 /\ Queued' = 0
        BY <2>1, <2>2
      <4>2. 0 + 0 + Claimed' <= bound + short
        BY <1>1, <2>3, <3>1, OnlyClaimed, Zenon
      <4>3. QED BY <4>1, <4>2, Zenon
    <3>3. QED BY <2>1, <3>2 DEF LeadCounted, bound
  <2>5. CommandsFirst'
    BY <2>1, EmptySeq DEF CommandsFirst
  <2>6. QED BY <2>1, <2>4, <2>5, LeadKept
<1>5. CASE DeviceSaves
  BY <1>5, LeadSaves
<1>6. QED BY <1>2, <1>3, <1>4, <1>5 DEF Device

(* The script: what it writes is a packet that it then waits for, and a    *)
(* line it takes for the answer confirms no more than that packet.         *)
LEMMA LeadScript ==
  ASSUME TypeInv, TypeInv', LeadInv, script # "none", Script
  PROVE  LeadInv'
<1>1. /\ Queued \in Nat /\ Claimed \in Nat /\ wire \in Nat /\ short \in Nat
      /\ Queued' \in Nat /\ Claimed' \in Nat /\ wire' \in Nat /\ short' \in Nat
      /\ PacketSize \in Nat
  BY LeadType, NextLeadType, SerialAssumption
<1>2. CASE ScriptStart
  <2>1. PICK s \in Sizes : Announce(s)
    BY <1>2 DEF ScriptStart
  <2> DEFINE e == Command("transfer", <<"uart", s>>)
  <2>2. Arrives(e)
    BY <2>1 DEF Announce
  <2>3. e \in Event /\ e.kind = "transfer"
    BY CommandType DEF Images, AllCommands
  <2>4. /\ script = "start" /\ script' = "confirm" /\ rx_event_queue = <<>>
        /\ ~ transfer_mode /\ UNCHANGED <<pc, transfer_mode, wire, log, short>>
    BY <1>2 DEF ScriptStart, LeadInv, report
  <2> HIDE DEF e
  <2>5. Len(rx_event_queue) = 0
    BY <2>4, EmptySeq
  <2>6. /\ Len(rx_event_queue') = Len(rx_event_queue) + 1
           \/ Len(rx_event_queue') = Len(rx_event_queue)
        /\ Queued' = Queued + DataLen(e) \/ Queued' = Queued
    BY <2>2, <2>3, EventAdded
  <2>7. Queued' = Queued
    <3>1. DataLen(e) = 0
      BY <2>3 DEF DataLen
    <3>2. Queued' = Queued + 0 \/ Queued' = Queued
      BY <2>6, <3>1
    <3>3. QED BY <1>1, <3>2
  <2>8. CommandsFirst'
    <3> DEFINE n == Len(rx_event_queue')
    <3>1. n = 0 + 1 \/ n = 0
      BY <2>5, <2>6, Zenon
    <3> HIDE DEF n
    <3>2. \A i \in 1 .. n : i = 1
      BY <3>1
    <3>3. QED BY <2>4, <3>2 DEF CommandsFirst, n
  <2>9. Claimed' = Claimed
    BY <2>4, LogAsBefore
  <2>10. LeadCounted => LeadCounted'
    BY <2>4, <2>7, <2>9 DEF LeadCounted
  <2>11. QED BY <2>4, <2>8, <2>10, LeadKept
<1>3. CASE ScriptConfirm \/ ScriptWrite \/ ScriptAck
  <2>1. /\ UNCHANGED <<rx_event_queue, transfer_mode, pc, short>>
        /\ script # "start" /\ script' # "start"
    BY <1>3 DEF ScriptConfirm, ScriptWrite, ScriptAck, vars, report
  <2>2. Queued' = Queued /\ (CommandsFirst => CommandsFirst')
    BY <2>1, QueueAsBefore
  <2>3. ASSUME LeadCounted PROVE LeadCounted'
    <3>1. CASE ScriptConfirm
      <4>1. /\ log # <<>> /\ log' = Tail(log) /\ wire' = wire
            /\ script = "confirm" /\ script' \in {"confirm", "write"}
        BY <3>1 DEF ScriptConfirm, line
      <4>2. Claimed' <= Claimed
        BY <4>1, LineRead
      <4>3. wire + Queued + Claimed <= 0 + short
        BY <2>3, <4>1 DEF LeadCounted
      <4>4. wire + Queued + Claimed' <= 0 + short
        BY <1>1, <4>2, <4>3, LessClaimed
      <4>5. QED BY <2>1, <2>2, <4>1, <4>4 DEF LeadCounted
    <3>2. CASE ScriptWrite
      <4>1. /\ wire' = wire + PacketLen /\ log' = log
            /\ script = "write" /\ script' = "ack"
        BY <3>2 DEF ScriptWrite, report
      <4>2. PacketLen \in Nat /\ PacketLen <= PacketSize
        <5>1. total \in Nat /\ offset \in Nat /\ offset <= total
          BY DEF TypeInv, ScriptType
        <5>2. QED BY <1>1, <5>1 DEF PacketLen
      <4>3. wire + Queued + Claimed <= 0 + short
        BY <2>3, <4>1 DEF LeadCounted
      <4>4. Claimed' = Claimed
        BY <4>1, LogAsBefore
      <4>5. wire' + Queued + Claimed <= PacketSize + short
        BY <1>1, <4>1, <4>2, <4>3
      <4>6. QED BY <2>1, <2>2, <4>1, <4>4, <4>5 DEF LeadCounted
    <3>3. CASE ScriptAck
      <4>1. /\ log # <<>> /\ log' = Tail(log) /\ wire' = wire /\ script = "ack"
            /\ \/ Head(log) = "Received image:" /\ script' \in {"write", "done"}
               \/ script' = "ack"
        BY <3>3 DEF ScriptAck, line
      <4>2. wire + Queued + Claimed <= PacketSize + short
        BY <2>3, <4>1 DEF LeadCounted
      <4>3. CASE Head(log) = "Received image:" /\ script' \in {"write", "done"}
        <5>1. Claimed = PacketSize + Claimed'
          BY <4>1, <4>3, LineRead
        <5>2. wire + Queued + Claimed' <= 0 + short
          BY <1>1, <4>2, <5>1, PacketClaimed, Zenon
        <5>3. QED BY <2>1, <2>2, <4>1, <4>3, <5>2 DEF LeadCounted
      <4>4. CASE script' = "ack"
        <5>1. Claimed' <= Claimed
          BY <4>1, LineRead
        <5>2. wire + Queued + Claimed' <= PacketSize + short
          BY <1>1, <4>2, <5>1, LessClaimed, Zenon
        <5>3. QED BY <2>1, <2>2, <4>1, <4>4, <5>2 DEF LeadCounted
      <4>5. QED BY <4>1, <4>3, <4>4
    <3>4. QED BY <1>3, <3>1, <3>2, <3>3
  <2>4. QED BY <2>1, <2>2, <2>3, LeadKept
<1>4. QED BY <1>2, <1>3 DEF Script

(* The line hands over what is on it, or loses it where the queue is full. *)
LEMMA LeadDeliver ==
  ASSUME TypeInv, TypeInv', LeadInv, script # "none", Deliver \/ LogLost
  PROVE  LeadInv'
<1> DEFINE bound == IF script = "ack" THEN PacketSize ELSE 0
<1>1. /\ Queued \in Nat /\ Claimed \in Nat /\ wire \in Nat /\ short \in Nat
      /\ Queued' \in Nat /\ Claimed' \in Nat /\ bound \in Nat
  BY LeadType, NextLeadType, SerialAssumption
<1>2. CASE Deliver
  <2>1. /\ wire > 0 /\ DataArrives(Part) /\ wire' = wire - Part
        /\ UNCHANGED <<script, log, short>>
    BY <1>2 DEF Deliver, host_side, report
  <2>2. Part \in Nat \ {0} /\ Part <= wire
    <3>1. room \in 1 .. BlockSize /\ BlockSize \in Nat
      BY SerialAssumption DEF TypeInv, ScriptType
    <3>2. QED BY <1>1, <2>1, <3>1 DEF Part
  <2>3. PICK e \in Event :
          /\ e.kind = "data" /\ e.len = Part /\ Arrives(e)
          /\ UNCHANGED <<pc, transfer_mode>>
    BY <2>1, <2>2, DataStep DEF TypeInv
  <2>4. rx_event_queue \in Seq(Event) /\ Len(rx_event_queue) \in Nat
    BY EventTypes DEF TypeInv
  <2>5. \/ /\ Len(rx_event_queue') = Len(rx_event_queue) + 1
           /\ \A i \in 1 .. Len(rx_event_queue) :
                rx_event_queue'[i] = rx_event_queue[i]
           /\ rx_event_queue'[Len(rx_event_queue) + 1] = e
        \/ rx_event_queue' = rx_event_queue
    BY <2>3, EventAdded
  <2>6. Queued' = Queued + Part \/ Queued' = Queued
    <3>1. DataLen(e) = Part
      BY <2>3 DEF DataLen
    <3>2. QED BY <2>3, <3>1, EventAdded
  <2>7. ASSUME CommandsFirst, NEW i \in 1 .. Len(rx_event_queue'),
               rx_event_queue'[i].kind # "data"
        PROVE  i = 1 /\ ~ transfer_mode'
    <3>1. i \in 1 .. Len(rx_event_queue) /\ rx_event_queue'[i] = rx_event_queue[i]
      BY <2>3, <2>4, <2>5, <2>7
    <3>2. QED BY <2>3, <2>7, <3>1 DEF CommandsFirst
  <2>8. CommandsFirst => CommandsFirst'
    BY <2>7 DEF CommandsFirst
  <2>9. Claimed' = Claimed
    BY <2>1, LogAsBefore
  <2>10. LeadCounted => LeadCounted'
    <3> SUFFICES ASSUME LeadCounted PROVE LeadCounted'
      OBVIOUS
    <3>1. wire + Queued + Claimed <= bound + short
      BY DEF LeadCounted
    <3> HIDE DEF bound
    <3>2. wire' + Queued' + Claimed <= bound + short
      <4>1. /\ wire' = wire - Part /\ Part \in Nat /\ Part <= wire
            /\ Queued' = Queued + Part \/ Queued' = Queued
        BY <2>1, <2>2, <2>6
      <4>2. /\ (wire - Part) + (Queued + Part) + Claimed <= bound + short
            /\ (wire - Part) + Queued + Claimed <= bound + short
        BY <1>1, <3>1, <4>1, FromLineToQueue, Zenon
      <4>3. QED BY <4>1, <4>2, Zenon
    <3>3. QED BY <2>1, <2>9, <3>2 DEF LeadCounted, bound
  <2>11. script # "start"
    <3>1. script = "start" => wire = 0
      BY DEF TypeInv, ScriptType
    <3>2. wire # 0
      BY <1>1, <2>1
    <3>3. QED BY <3>1, <3>2
  <2>12. QED BY <2>1, <2>3, <2>8, <2>10, <2>11, LeadKept
<1>3. CASE LogLost
  <2>1. /\ log # <<>> /\ log' = Tail(log)
        /\ UNCHANGED <<rx_event_queue, transfer_mode, pc, script, wire, short>>
    BY <1>3 DEF LogLost, host_side, line
  <2>2. Claimed' <= Claimed
    BY <2>1, LineRead
  <2>3. Queued' = Queued /\ (CommandsFirst => CommandsFirst')
    BY <2>1, QueueAsBefore
  <2>4. LeadCounted => LeadCounted'
    <3> SUFFICES ASSUME LeadCounted PROVE LeadCounted'
      OBVIOUS
    <3>1. wire + Queued + Claimed <= bound + short
      BY DEF LeadCounted
    <3> HIDE DEF bound
    <3>2. wire + Queued + Claimed' <= bound + short
      BY <1>1, <2>2, <3>1, LessClaimed, Zenon
    <3>3. QED BY <2>1, <2>3, <3>2 DEF LeadCounted, bound
  <2>5. script' = "start" => rx_event_queue' = <<>> /\ ~ transfer_mode'
    BY <2>1 DEF LeadInv
  <2>6. QED BY <2>1, <2>3, <2>4, <2>5, LeadKept
<1>4. QED BY <1>2, <1>3

(* LeadInv at the start ...                                                *)
LEMMA InitLeadInv == SerialInit => LeadInv
<1> SUFFICES ASSUME SerialInit PROVE LeadInv
  OBVIOUS
<1>1. /\ rx_event_queue = <<>> /\ transfer_mode = FALSE /\ log = <<>>
      /\ wire = 0 /\ short = 0 /\ script # "ack"
  BY DEF SerialInit, Init
<1>2. /\ <<>> \in Seq(Event) /\ <<>> \in Seq(Lines) /\ Len(<<>>) = 0
  BY EmptySeq
<1>3. /\ Lens(<<>>) \in Seq(Nat) /\ Len(Lens(<<>>)) = 0
      /\ Worths(<<>>) \in Seq(Nat) /\ Len(Worths(<<>>)) = 0
  BY <1>2, LensType, WorthsType
<1>4. SumOf(Lens(rx_event_queue)) = 0 /\ Claimed = 0
  BY <1>1, <1>3, SumType DEF Claimed
<1>5. Queued = 0
  BY <1>4, InitTypeInv, LeadType
<1>6. LeadCounted
  BY <1>1, <1>4, <1>5 DEF LeadCounted
<1>7. CommandsFirst
  BY <1>1, <1>2 DEF CommandsFirst
<1>8. QED BY <1>1, <1>6, <1>7 DEF LeadInv

(* ... and after every step.                                               *)
LEMMA NextLeadInv == TypeInv /\ LeadInv /\ [SerialNext]_allVars => LeadInv'
<1> SUFFICES ASSUME TypeInv, LeadInv, [SerialNext]_allVars PROVE LeadInv'
  OBVIOUS
<1>1. TypeInv'
  BY NextTypeInv
<1>2. CASE script = "none"
  <2>1. script' = "none"
    BY <1>2 DEF SerialNext, Device, DeviceSaves, DeviceHandles, DeviceReboots,
                OtherHost, OtherSteps, Script, ScriptStart, ScriptConfirm,
                ScriptWrite, ScriptAck, Deliver, LogLost, serial, allVars, host_side
  <2>2. QED BY <2>1 DEF LeadInv
<1>3. CASE script # "none"
  <2>1. CASE UNCHANGED allVars
    <3>1. UNCHANGED <<rx_event_queue, transfer_mode, pc, script, wire, log, short>>
      BY <2>1 DEF allVars, vars, serial, host_side, line, report
    <3>2. Queued' = Queued /\ Claimed' = Claimed /\ (CommandsFirst => CommandsFirst')
      BY <3>1, QueueAsBefore, LogAsBefore
    <3>3. LeadCounted => LeadCounted'
      BY <3>1, <3>2 DEF LeadCounted
    <3>4. script' = "start" => rx_event_queue' = <<>> /\ ~ transfer_mode'
      BY <1>3, <3>1 DEF LeadInv
    <3>5. QED BY <1>1, <1>3, <3>1, <3>2, <3>3, <3>4, LeadKept
  <2>2. QED
    BY <1>1, <1>3, <2>1, LeadDevice, LeadScript, LeadDeliver
    DEF SerialNext, OtherHost, OtherSteps
<1>4. QED BY <1>2, <1>3

(* However the device and the script are interleaved, whatever lines are   *)
(* lost and whichever calls fail: what the script has sent ahead of a      *)
(* device that runs is a packet and what confirmed parts fell short of.    *)
THEOREM LeadIsBounded == SerialSpec => []LeadBounded
<1>1. TypeInv /\ LeadInv => LeadBounded
  <2> SUFFICES ASSUME TypeInv, LeadInv, script # "none", pc # "fault"
               PROVE  wire + Queued <= PacketSize + short
    BY DEF LeadBounded
  <2> DEFINE bound == IF script = "ack" THEN PacketSize ELSE 0
  <2>1. wire + Queued + Claimed <= bound + short
    BY DEF LeadInv, LeadCounted
  <2>2. /\ Queued \in Nat /\ Claimed \in Nat /\ wire \in Nat /\ short \in Nat
        /\ PacketSize \in Nat /\ bound \in Nat /\ bound <= PacketSize
    BY LeadType, SerialAssumption
  <2> HIDE DEF bound
  <2>3. QED BY <2>1, <2>2
<1>2. QED
  BY <1>1, InitTypeInv, NextTypeInv, InitLeadInv, NextLeadInv, PTL DEF SerialSpec
=============================================================================
