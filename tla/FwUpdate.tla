------------------------------ MODULE FwUpdate ------------------------------
(***************************************************************************)
(* Firmware update: the upload state machine of the recovery build         *)
(* (components/lccore/fwupdate_core.c), its esp_ota port                   *)
(* (main/fwup_port.c), and the boot selector (main/ota_ops.c), through     *)
(* restarts and power losses at any moment.                                *)
(*                                                                         *)
(* Sizes and offsets count AES blocks.  Plaintext is a sequence of blocks, *)
(* and the Fletcher32 of a stream is the stream itself.  A packet is in    *)
(* order (index = packet_index_prev + 1) or it is not.  The comm task      *)
(* handles one packet at a time, so each outcome of a handler is one step. *)
(***************************************************************************)
EXTENDS Integers, Sequences

CONSTANTS
  Images,     \* application images
  ImageLen,   \* the length of an image, appended SHA-256 included
  OtaLen,     \* the size of partition ota_0
  MinSize,    \* FWUP_MIN_SIZE
  ChunkLen    \* FWUP_CHUNK_SIZE

ASSUME SizeAssumption ==
  /\ ImageLen \in Nat \ {0}
  /\ OtaLen \in Nat
  /\ MinSize \in Nat \ {0}
  /\ ChunkLen \in Nat \ {0}
  /\ ImageLen <= OtaLen

VARIABLES
  \* g_fw
  state, size, announced, bytes, status, stream,
  quiet,      \* FWUP_TIMEOUT_MS have passed since last_rx_ms
  \* fwup_port.c and ota_ops.c
  open,       \* s_open: an esp_ota handle is held
  wrote,      \* how much was written through that handle
  bootSet,    \* s_boot_set_this_session
  \* flash, which survives a restart
  ota0,       \* the contents of ota_0
  selector,   \* the partition otadata selects
  rollback,   \* the rollback state of ota_0 in otadata
  \* the card
  running     \* the build that runs

coreVars == <<state, size, announced, bytes, status, stream, quiet>>
portVars == <<open, wrote>>
bootVars == <<selector, rollback, running>>
vars     == <<coreVars, portVars, bootSet, ota0, bootVars>>
-----------------------------------------------------------------------------
Pos   == 1..OtaLen
Blank == <<"blank", 0>>   \* erased, or damaged
Pad   == <<"pad", 0>>     \* the 0xFF padding of the container
Block == (Images \X (1..ImageLen)) \cup {Blank, Pad}

(* The plaintext of image i, padded to n blocks. *)
Content(i, k)   == IF k <= ImageLen THEN <<i, k>> ELSE Pad
Container(i, n) == [k \in 1..n |-> Content(i, k)]

(* What esp_ota_end, esp_ota_set_boot_partition and the second-stage       *)
(* bootloader accept: the image's own digest, whatever follows it.         *)
Holds(i) == \A k \in 1..ImageLen : ota0[k] = <<i, k>>
Bootable == \E i \in Images : Holds(i)

Init ==
  /\ state = "idle" /\ size = 0 /\ announced = <<>> /\ bytes = 0
  /\ status = "ok" /\ stream = <<>> /\ quiet = FALSE
  /\ open = FALSE /\ wrote = 0 /\ bootSet = FALSE
  /\ ota0 \in {[k \in Pos |-> Blank]} \cup {Container(i, OtaLen) : i \in Images}
  /\ \/ selector = "factory" /\ running = "recovery"
     \/ selector = "ota_0" /\ Bootable /\ running = "app"
  /\ rollback = "valid"
-----------------------------------------------------------------------------
(* fwup_reset_var, which keeps firm_size and the announced checksum *)
ResetVar ==
  /\ state' = "idle"
  /\ bytes' = 0
  /\ status' = "ok"
  /\ stream' = <<>>
  /\ quiet' = FALSE

(* A START refused before it reaches the flash: its size is bad, or the    *)
(* cipher cannot be set up.                                                *)
StartRefused(n, sum) ==
  /\ running = "recovery"
  /\ state = "idle"
  /\ ResetVar
  /\ size' = n
  /\ announced' = sum
  /\ UNCHANGED <<portVars, bootSet, ota0, bootVars>>

(* Mutants of Start: the handle of an abandoned upload is taken up again,  *)
(* or makes esp_ota_begin fail.                                            *)
StartReusesHandle(n, sum, ok) ==
  /\ running = "recovery"
  /\ state = "idle"
  /\ n >= MinSize
  /\ bytes' = 0 /\ status' = "ok" /\ stream' = <<>> /\ quiet' = FALSE
  /\ size' = n
  /\ announced' = sum
  /\ open' = (open \/ (ok /\ n <= OtaLen))
  /\ wrote' = IF open THEN wrote ELSE 0
  /\ state' = IF open' THEN "upload" ELSE "idle"
  /\ UNCHANGED <<bootSet, ota0, bootVars>>

StartKeepsHandle(n, sum, ok) ==
  /\ running = "recovery"
  /\ state = "idle"
  /\ n >= MinSize
  /\ bytes' = 0 /\ status' = "ok" /\ stream' = <<>> /\ quiet' = FALSE
  /\ size' = n
  /\ announced' = sum
  /\ open' = (open \/ (ok /\ n <= OtaLen))
  /\ wrote' = IF open THEN wrote ELSE 0
  /\ state' = IF open' /\ ~open THEN "upload" ELSE "idle"
  /\ UNCHANGED <<bootSet, ota0, bootVars>>

(* START.  fwp_flash_begin first drops the handle an earlier upload left   *)
(* open; it fails when the image exceeds ota_0 or esp_ota_begin does.      *)
Start(n, sum, ok) ==
  /\ running = "recovery"
  /\ state = "idle"
  /\ n >= MinSize
  /\ bytes' = 0 /\ status' = "ok" /\ stream' = <<>> /\ quiet' = FALSE
  /\ size' = n
  /\ announced' = sum
  /\ open' = (ok /\ n <= OtaLen)
  /\ wrote' = 0
  /\ state' = IF open' THEN "upload" ELSE "idle"
  /\ UNCHANGED <<bootSet, ota0, bootVars>>

(* A packet out of order (a START during an upload is one), too long, not  *)
(* a multiple of the block, or that the cipher rejects.                    *)
StepRefused ==
  /\ state = "upload"
  /\ state' = "idle"
  /\ UNCHANGED <<size, announced, bytes, status, stream, quiet, portVars,
                 bootSet, ota0, bootVars>>

(* A packet in order after firm_size bytes were received. *)
StepOverrun ==
  /\ state = "upload"
  /\ bytes >= size
  /\ ResetVar
  /\ UNCHANGED <<size, announced, portVars, bootSet, ota0, bootVars>>

(* ota_0 after data was written at offset wrote and the flash was erased   *)
(* up to e: sectors are larger than chunks.                                *)
Programmed(data, e) ==
  [k \in Pos |-> IF k <= wrote THEN ota0[k]
                 ELSE IF k <= wrote + Len(data) THEN data[k - wrote]
                 ELSE IF k <= e THEN Blank ELSE ota0[k]]

(* Mutant: a chunk that runs past the partition is counted as written. *)
StepUnbounded(data, e) ==
  /\ state = "upload"
  /\ bytes < size
  /\ Len(data) <= ChunkLen
  /\ open
  /\ stream' = stream \o data
  /\ ota0' = Programmed(data, e)
  /\ wrote' = wrote + Len(data)
  /\ bytes' = bytes + Len(data)
  /\ quiet' = FALSE
  /\ UNCHANGED <<state, size, announced, status, open, bootSet, bootVars>>

(* A STEP is decrypted, summed and programmed.  The announced size is      *)
(* checked before the chunk, so the last chunk may run past it.            *)
StepWritten(data, e) ==
  /\ state = "upload"
  /\ bytes < size
  /\ Len(data) <= ChunkLen
  /\ open
  /\ wrote + Len(data) <= OtaLen
  /\ stream' = stream \o data
  /\ ota0' = Programmed(data, e)
  /\ wrote' = wrote + Len(data)
  /\ bytes' = bytes + Len(data)
  /\ quiet' = FALSE
  /\ UNCHANGED <<state, size, announced, status, open, bootSet, bootVars>>

(* esp_ota_write fails, with part of the chunk programmed. *)
StepFailed(data, n, e) ==
  /\ state = "upload"
  /\ bytes < size
  /\ Len(data) <= ChunkLen
  /\ n <= Len(data) /\ wrote + n <= OtaLen
  /\ stream' = stream \o data
  /\ ota0' = Programmed(SubSeq(data, 1, n), e)
  /\ state' = "idle"
  /\ UNCHANGED <<size, announced, bytes, status, quiet, portVars, bootSet,
                 bootVars>>

(* FINISH with the wrong size or sum.  The handle stays open. *)
FinishMismatch ==
  /\ state = "upload"
  /\ bytes # size \/ stream # announced
  /\ ResetVar
  /\ UNCHANGED <<size, announced, portVars, bootSet, ota0, bootVars>>

(* FINISH of an image that esp_ota_end rejects, or that cannot be made the *)
(* one to boot.                                                            *)
FinishRejected ==
  /\ state = "upload"
  /\ bytes = size /\ stream = announced
  /\ ResetVar
  /\ open' = FALSE
  /\ UNCHANGED <<size, announced, wrote, bootSet, ota0, bootVars>>

(* Mutant: FINISH does not compare the sums. *)
FinishUnsummed ==
  /\ state = "upload"
  /\ bytes = size
  /\ open
  /\ Bootable
  /\ open' = FALSE
  /\ selector' = "ota_0"
  /\ rollback' = "new"
  /\ bootSet' = TRUE
  /\ state' = "idle"
  /\ UNCHANGED <<size, announced, bytes, status, stream, quiet, wrote, ota0, running>>

FinishAccepted ==
  /\ state = "upload"
  /\ bytes = size /\ stream = announced
  /\ open
  /\ Bootable
  /\ open' = FALSE
  /\ selector' = "ota_0"
  /\ rollback' = "new"
  /\ bootSet' = TRUE
  /\ state' = "idle"
  /\ UNCHANGED <<size, announced, bytes, status, stream, quiet, wrote, ota0, running>>

(* fwup_tick: time passes without a packet, and the upload is dropped. *)
Silence ==
  /\ state = "upload"
  /\ ~quiet
  /\ quiet' = TRUE
  /\ UNCHANGED <<state, size, announced, bytes, status, stream, portVars,
                 bootSet, ota0, bootVars>>

(* Mutant: the watchdog is armed by the first chunk, not by START. *)
TickAfterData ==
  /\ state = "upload"
  /\ quiet
  /\ bytes > 0
  /\ state' = "idle"
  /\ status' = "timeout"
  /\ UNCHANGED <<size, announced, bytes, stream, quiet, portVars, bootSet,
                 ota0, bootVars>>

Tick ==
  /\ state = "upload"
  /\ quiet
  /\ state' = "idle"
  /\ status' = "timeout"
  /\ UNCHANGED <<size, announced, bytes, stream, quiet, portVars, bootSet,
                 ota0, bootVars>>

(* fwup_session_reset, on both edges of a control session *)
SessionReset ==
  /\ running = "recovery"
  /\ ResetVar
  /\ size' = 0
  /\ open' = FALSE
  /\ UNCHANGED <<announced, wrote, bootSet, ota0, bootVars>>
-----------------------------------------------------------------------------
(* A restart clears the memory.  The second-stage bootloader starts the    *)
(* selected ota_0 if it is bootable and was not left unconfirmed by an     *)
(* earlier start, else the factory recovery build.                         *)
Restart(sel, rb) ==
  /\ state' = "idle" /\ size' = 0 /\ announced' = <<>> /\ bytes' = 0
  /\ status' = "ok" /\ stream' = <<>> /\ quiet' = FALSE
  /\ open' = FALSE /\ wrote' = 0 /\ bootSet' = FALSE
  /\ selector' = sel
  /\ running' = IF sel = "ota_0" /\ rb \in {"new", "valid"} /\ Bootable
                THEN "app" ELSE "recovery"
  /\ rollback' = IF sel # "ota_0" THEN "valid"
                 ELSE IF rb = "pending" THEN "aborted"
                 ELSE IF rb = "new" /\ Bootable THEN "pending"
                 ELSE rb
  /\ UNCHANGED ota0

PowerLoss == Restart(selector, rollback)

(* ota_enter_recovery; ok when the selector could be written *)
EnterRecovery(ok) ==
  IF ok THEN Restart("factory", "valid") ELSE Restart(selector, rollback)

(* ota_reboot *)
Reboot(ok) ==
  IF running = "recovery" /\ ~bootSet /\ Bootable /\ ok
  THEN Restart("ota_0", "new")
  ELSE Restart(selector, rollback)

(* mark_valid_cb *)
MarkValid ==
  /\ running = "app"
  /\ rollback = "pending"
  /\ rollback' = "valid"
  /\ UNCHANGED <<coreVars, portVars, bootSet, ota0, selector, running>>

(* The chunks a host may send next: of some image, or damaged. *)
Chunk ==
  {[k \in 1..n |-> Content(i, bytes + k)] : i \in Images, n \in 0..ChunkLen}
    \cup {<<Blank>>}

(* The checksum announced for n blocks may be of any image, or wrong. *)
Sum(n) == {Container(i, n) : i \in Images} \cup {<<>>}

UploadStep ==
  \/ \E n \in 0..(OtaLen + 1) : \E sum \in Sum(n) :
       \/ StartRefused(n, sum)
       \/ \E ok \in BOOLEAN : Start(n, sum, ok)
  \/ StepRefused \/ StepOverrun
  \/ \E data \in Chunk, e \in 0..OtaLen :
       \/ StepWritten(data, e)
       \/ \E n \in 0..ChunkLen : StepFailed(data, n, e)
  \/ FinishMismatch \/ FinishRejected \/ FinishAccepted
  \/ Silence \/ Tick
  \/ SessionReset

BootStep ==
  \/ PowerLoss
  \/ \E ok \in BOOLEAN : EnterRecovery(ok) \/ Reboot(ok)
  \/ MarkValid

Next == UploadStep \/ BootStep

Spec == Init /\ [][Next]_vars

(* The comm task runs fwup_tick in every turn, and time passes. *)
FairSpec == Spec /\ WF_vars(Silence) /\ WF_vars(Tick)
-----------------------------------------------------------------------------
CoreOK ==
  /\ state \in {"idle", "upload"}
  /\ size \in Nat
  /\ announced \in Seq(Block)
  /\ bytes \in Nat
  /\ status \in {"ok", "timeout"}
  /\ stream \in Seq(Block)
  /\ quiet \in BOOLEAN

PortOK ==
  /\ open \in BOOLEAN
  /\ wrote \in 0..OtaLen

BootOK ==
  /\ selector \in {"factory", "ota_0"}
  /\ rollback \in {"new", "pending", "valid", "aborted"}
  /\ running \in {"recovery", "app"}

TypeOK ==
  /\ CoreOK
  /\ PortOK
  /\ bootSet \in BOOLEAN
  /\ ota0 \in [Pos -> Block]
  /\ BootOK

(* What is summed is what is in the flash: during an upload the handle is  *)
(* open, and everything received since START was programmed, in order,     *)
(* from the start of ota_0, whatever earlier uploads left behind.          *)
UploadIsInFlash ==
  state = "upload" =>
    /\ open
    /\ status = "ok"
    /\ wrote = bytes
    /\ Len(stream) = bytes
    /\ \A k \in 1..bytes : ota0[k] = stream[k]

(* The boot selector is switched by FW_UPDATE only to what the host        *)
(* announced: ota_0 then holds the announced plaintext, block for block    *)
(* (fwupdate_core.h:21-23).                                                *)
AcceptedIsAnnounced ==
  [][bootSet' /\ ~bootSet =>
       /\ Len(announced) = size
       /\ \A k \in 1..size : ota0'[k] = announced[k]]_vars

(* An upload that its host abandons ends (fwup_tick), whatever it left     *)
(* half done: no later START is refused for ever.                          *)
AbandonedUploadEnds ==
  <>[][\A data \in Chunk, e \in 0..OtaLen : ~StepWritten(data, e)]_vars
    => (state = "upload" ~> state = "idle")

(* One step of a host that follows the update procedure with image i: jump *)
(* to the bootloader, upload the container, finish, reboot.                *)
Updater(i) ==
  \/ running = "app" /\ ~Holds(i) /\ EnterRecovery(TRUE)
  \/ ~(bootSet /\ Holds(i)) /\ Start(OtaLen, Container(i, OtaLen), TRUE)
  \/ \E n \in 1..ChunkLen :
       /\ bytes + n <= size
       /\ StepWritten([k \in 1..n |-> Content(i, bytes + k)], bytes + n)
  \/ bytes >= size /\ (FinishMismatch \/ FinishAccepted)
  \/ running = "recovery" /\ state = "idle" /\ bootSet /\ Holds(i) /\ Reboot(TRUE)

(* No history of failed, damaged, overlong or interrupted uploads, of      *)
(* rollbacks and of power losses puts the card beyond repair: a host that  *)
(* then runs the update procedure undisturbed gets its image running.      *)
RepairIsPossible ==
  \A i \in Images :
    <>[][Updater(i) \/ MarkValid]_vars /\ WF_vars(Updater(i))
      => <>(running = "app" /\ Holds(i))
=============================================================================
