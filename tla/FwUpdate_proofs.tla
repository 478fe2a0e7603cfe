--------------------------- MODULE FwUpdate_proofs ---------------------------
(***************************************************************************)
(* Theorems about the firmware update for every set of images and every    *)
(* size of image, partition and chunk.                                     *)
(***************************************************************************)
EXTENDS FwUpdate, SequenceTheorems, TLAPS

LEMMA ContentType ==
  ASSUME NEW i \in Images, NEW k \in Nat \ {0}
  PROVE  Content(i, k) \in Block
BY SizeAssumption DEF Content, Block

LEMMA ContainerType ==
  ASSUME NEW i \in Images, NEW n \in Nat
  PROVE  Container(i, n) \in Seq(Block)
<1>1. \A k \in 1..n : Content(i, k) \in Block
  BY ContentType
<1> QED
  BY <1>1, IsASeq DEF Container

LEMMA ChunkType ==
  ASSUME bytes \in Nat, NEW data \in Chunk
  PROVE  data \in Seq(Block)
<1>1. ASSUME NEW i \in Images, NEW n \in 0..ChunkLen,
             data = [k \in 1..n |-> Content(i, bytes + k)]
      PROVE  data \in Seq(Block)
  <2>1. n \in Nat
    BY SizeAssumption
  <2>2. \A k \in 1..n : Content(i, bytes + k) \in Block
    BY ContentType, <2>1
  <2>3. [k \in 1..n |-> Content(i, bytes + k)] \in Seq(Block)
    BY <2>1, <2>2, IsASeq
  <2> QED
    BY <1>1, <2>3
<1>2. CASE data = <<Blank>>
  BY <1>2 DEF Block
<1> QED
  BY <1>1, <1>2 DEF Chunk

(* What a step leaves alone keeps its type. *)
LEMMA CoreKept == CoreOK /\ UNCHANGED coreVars => CoreOK'
BY DEF CoreOK, coreVars

LEMMA PortKept == PortOK /\ UNCHANGED portVars => PortOK'
BY DEF PortOK, portVars

LEMMA BootKept == BootOK /\ UNCHANGED bootVars => BootOK'
BY DEF BootOK, bootVars

LEMMA ResetVarType ==
  ASSUME CoreOK, ResetVar, size' \in Nat, announced' \in Seq(Block)
  PROVE  CoreOK' /\ state' = "idle"
<1>1. stream' \in Seq(Block)
  BY DEF ResetVar
<1> QED
  BY <1>1 DEF ResetVar, CoreOK

LEMMA ProgrammedType ==
  ASSUME TypeOK, NEW data \in Seq(Block), NEW e \in 0..OtaLen
  PROVE  Programmed(data, e) \in [Pos -> Block]
<1> SUFFICES ASSUME NEW k \in Pos, ~(k <= wrote), k <= wrote + Len(data)
             PROVE  data[k - wrote] \in Block
  BY DEF Programmed, TypeOK, Block
<1>1. k - wrote \in 1..Len(data)
  BY SizeAssumption DEF Pos, TypeOK, PortOK
<1> QED
  BY <1>1

LEMMA RestartType ==
  ASSUME TypeOK, NEW sel \in {"factory", "ota_0"},
         NEW rb \in {"new", "pending", "valid", "aborted"}, Restart(sel, rb)
  PROVE  TypeOK' /\ state' = "idle"
<1>1. announced' \in Seq(Block) /\ stream' \in Seq(Block)
  BY DEF Restart
<1>2. CoreOK'
  BY <1>1 DEF Restart, CoreOK
<1>3. PortOK'
  <2>1. open' \in BOOLEAN
    BY DEF Restart
  <2>2. wrote' \in 0..OtaLen
    BY SizeAssumption DEF Restart
  <2> QED
    BY <2>1, <2>2 DEF PortOK
<1>4. BootOK'
  BY DEF Restart, BootOK
<1> QED
  BY <1>2, <1>3, <1>4 DEF Restart, TypeOK

(* The stream that is summed is the stream that is in the flash, and every *)
(* variable stays in its type.                                             *)
THEOREM UploadCorrect == Spec => [](TypeOK /\ UploadIsInFlash)
<1>1. Init => TypeOK /\ UploadIsInFlash
  <2> SUFFICES ASSUME Init PROVE TypeOK /\ UploadIsInFlash
    OBVIOUS
  <2>1. ota0 \in [Pos -> Block]
    <3>1. CASE ota0 = [k \in Pos |-> Blank]
      BY <3>1 DEF Block
    <3>2. ASSUME NEW i \in Images, ota0 = Container(i, OtaLen)
          PROVE  ota0 \in [Pos -> Block]
      BY <3>2, SizeAssumption, ContentType DEF Container, Pos
    <3> QED
      BY <3>1, <3>2 DEF Init
  <2>2. announced \in Seq(Block) /\ stream \in Seq(Block)
    BY DEF Init
  <2>3. CoreOK /\ PortOK /\ BootOK
    <3>1. CoreOK
      BY <2>2 DEF Init, CoreOK
    <3>2. open \in BOOLEAN
      BY DEF Init
    <3>3. wrote \in 0..OtaLen
      BY SizeAssumption DEF Init
    <3>4. PortOK
      BY <3>2, <3>3 DEF PortOK
    <3> QED
      BY <3>1, <3>4 DEF Init, BootOK
  <2> QED
    BY <2>1, <2>3 DEF Init, TypeOK, UploadIsInFlash
<1>2. TypeOK /\ UploadIsInFlash /\ [Next]_vars => (TypeOK /\ UploadIsInFlash)'
  <2> SUFFICES ASSUME TypeOK, UploadIsInFlash, [Next]_vars
               PROVE  TypeOK' /\ UploadIsInFlash'
    OBVIOUS
  <2> USE CoreKept, PortKept, BootKept
  <2>1. ASSUME NEW n \in 0..(OtaLen + 1), NEW sum \in Sum(n)
        PROVE  n \in Nat /\ sum \in Seq(Block)
    <3>1. n \in Nat
      BY SizeAssumption
    <3>2. <<>> \in Seq(Block)
      OBVIOUS
    <3> QED
      BY <2>1, <3>1, <3>2, ContainerType DEF Sum
  <2>2. ASSUME NEW n \in 0..(OtaLen + 1), NEW sum \in Sum(n),
               StartRefused(n, sum)
        PROVE  TypeOK' /\ UploadIsInFlash'
    <3>1. CoreOK' /\ state' = "idle"
      BY <2>1, <2>2, ResetVarType DEF StartRefused, TypeOK
    <3> QED
      BY <2>2, <3>1 DEF StartRefused, TypeOK, UploadIsInFlash
  <2>3. ASSUME NEW n \in 0..(OtaLen + 1), NEW sum \in Sum(n),
               NEW ok \in BOOLEAN, Start(n, sum, ok)
        PROVE  TypeOK' /\ UploadIsInFlash'
    <3>0. CoreOK'
      <4>1. announced' \in Seq(Block) /\ stream' \in Seq(Block) /\ size' \in Nat
        BY <2>1, <2>3 DEF Start
      <4> QED
        BY <2>3, <4>1 DEF Start, CoreOK
    <3>1. TypeOK'
      BY <2>3, <3>0, SizeAssumption DEF Start, PortOK, TypeOK
    <3>2. UploadIsInFlash'
      BY <2>3 DEF Start, UploadIsInFlash
    <3> QED
      BY <3>1, <3>2
  <2>4. CASE StepRefused
    BY <2>4 DEF StepRefused, CoreOK, TypeOK, UploadIsInFlash
  <2>5. CASE StepOverrun
    <3>1. CoreOK' /\ state' = "idle"
      BY <2>5, ResetVarType DEF StepOverrun, CoreOK, TypeOK
    <3> QED
      BY <2>5, <3>1 DEF StepOverrun, TypeOK, UploadIsInFlash
  <2>6. ASSUME NEW data \in Chunk, NEW e \in 0..OtaLen, StepWritten(data, e)
        PROVE  TypeOK' /\ UploadIsInFlash'
    <3>1. data \in Seq(Block)
      BY ChunkType DEF TypeOK, CoreOK
    <3>2. Len(data) \in Nat /\ stream \o data \in Seq(Block)
      BY <3>1 DEF TypeOK, CoreOK
    <3>3. ota0' \in [Pos -> Block]
      BY <2>6, <3>1, ProgrammedType DEF StepWritten
    <3>4. TypeOK'
      <4>1. CoreOK'
        <5>1. bytes' \in Nat /\ stream' \in Seq(Block)
          BY <2>6, <3>2 DEF StepWritten, TypeOK, CoreOK
        <5> QED
          BY <2>6, <5>1 DEF StepWritten, TypeOK, CoreOK
      <4>2. PortOK'
        BY <2>6, <3>2, SizeAssumption DEF StepWritten, TypeOK, PortOK
      <4> QED
        BY <2>6, <3>3, <4>1, <4>2 DEF StepWritten, TypeOK
    <3>5. /\ wrote = bytes /\ Len(stream) = bytes /\ open /\ status = "ok"
          /\ \A k \in 1..bytes : ota0[k] = stream[k]
      BY <2>6 DEF StepWritten, UploadIsInFlash
    <3>6. wrote' = bytes' /\ Len(stream') = bytes'
      <4>1. Len(stream \o data) = Len(stream) + Len(data)
        BY <3>1 DEF TypeOK, CoreOK
      <4> QED
        BY <2>6, <3>5, <4>1 DEF StepWritten
    <3>7. ASSUME NEW k \in 1..bytes'
          PROVE  ota0'[k] = stream'[k]
      <4>1. k \in Pos /\ bytes \in Nat /\ bytes' = bytes + Len(data)
        BY <2>6, <3>2, <3>5, <3>7, SizeAssumption
        DEF StepWritten, TypeOK, CoreOK, PortOK, Pos
      <4>2. CASE k <= bytes
        BY <2>6, <3>1, <3>5, <4>1, <4>2
        DEF StepWritten, Programmed, TypeOK, CoreOK
      <4>3. CASE ~(k <= bytes)
        <5>1. k - bytes \in 1..Len(data)
          BY <3>2, <4>1, <4>3
        <5>2. ota0'[k] = data[k - bytes]
          BY <2>6, <3>2, <3>5, <4>1, <4>3 DEF StepWritten, Programmed
        <5>3. stream'[k] = data[k - bytes]
          BY <2>6, <3>1, <3>5, <4>1, <4>3, <5>1
          DEF StepWritten, TypeOK, CoreOK
        <5> QED
          BY <5>2, <5>3
      <4> QED
        BY <4>2, <4>3
    <3>8. UploadIsInFlash'
      BY <2>6, <3>5, <3>6, <3>7 DEF StepWritten, UploadIsInFlash
    <3> QED
      BY <3>4, <3>8
  <2>7. ASSUME NEW data \in Chunk, NEW n \in 0..ChunkLen, NEW e \in 0..OtaLen,
               StepFailed(data, n, e)
        PROVE  TypeOK' /\ UploadIsInFlash'
    <3>1. data \in Seq(Block) /\ n \in Nat
      BY ChunkType, SizeAssumption DEF TypeOK, CoreOK
    <3>2. SubSeq(data, 1, n) \in Seq(Block)
      BY <2>7, <3>1 DEF StepFailed
    <3>3. ota0' \in [Pos -> Block]
      BY <2>7, <3>2, ProgrammedType DEF StepFailed
    <3>4. stream \o data \in Seq(Block)
      BY <3>1 DEF TypeOK, CoreOK
    <3>5. CoreOK' /\ state' = "idle"
      BY <2>7, <3>4 DEF StepFailed, TypeOK, CoreOK
    <3> QED
      BY <2>7, <3>3, <3>5 DEF StepFailed, TypeOK, UploadIsInFlash
  <2>8. CASE FinishMismatch
    <3>1. CoreOK' /\ state' = "idle"
      BY <2>8, ResetVarType DEF FinishMismatch, CoreOK, TypeOK
    <3> QED
      BY <2>8, <3>1 DEF FinishMismatch, TypeOK, UploadIsInFlash
  <2>9. CASE FinishRejected
    <3>1. CoreOK' /\ state' = "idle"
      BY <2>9, ResetVarType DEF FinishRejected, CoreOK, TypeOK
    <3> QED
      BY <2>9, <3>1 DEF FinishRejected, PortOK, TypeOK, UploadIsInFlash
  <2>10. CASE FinishAccepted
    BY <2>10 DEF FinishAccepted, CoreOK, PortOK, BootOK, TypeOK,
                 UploadIsInFlash
  <2>11. CASE Silence \/ Tick
    BY <2>11 DEF Silence, Tick, CoreOK, portVars, TypeOK, UploadIsInFlash
  <2>12. CASE SessionReset
    <3>1. CoreOK' /\ state' = "idle"
      BY <2>12, ResetVarType DEF SessionReset, CoreOK, TypeOK
    <3> QED
      BY <2>12, <3>1 DEF SessionReset, PortOK, TypeOK, UploadIsInFlash
  <2>13. CASE BootStep
    <3>1. CASE MarkValid
      BY <2>13, <3>1 DEF MarkValid, coreVars, portVars, BootOK, TypeOK,
                         UploadIsInFlash
    <3>2. CASE ~MarkValid
      <4>1. PICK sel \in {"factory", "ota_0"},
                 rb \in {"new", "pending", "valid", "aborted"} :
              Restart(sel, rb)
        BY <2>13, <3>2 DEF BootStep, PowerLoss, EnterRecovery, Reboot, TypeOK,
                            BootOK
      <4> QED
        BY <4>1, RestartType DEF UploadIsInFlash
    <3> QED
      BY <3>1, <3>2
  <2>14. CASE UNCHANGED vars
    BY <2>14 DEF vars, coreVars, portVars, TypeOK, UploadIsInFlash
  <2> QED
    BY <2>2, <2>3, <2>4, <2>5, <2>6, <2>7, <2>8, <2>9, <2>10, <2>11, <2>12,
       <2>13, <2>14 DEF Next, UploadStep
<1> QED
  BY <1>1, <1>2, PTL DEF Spec

(* FW_UPDATE switches the boot selector only to the announced plaintext. *)
THEOREM AcceptedIsAnnouncedHolds == Spec => AcceptedIsAnnounced
<1>1. TypeOK /\ UploadIsInFlash /\ [Next]_vars
        => [bootSet' /\ ~bootSet =>
              /\ Len(announced) = size
              /\ \A k \in 1..size : ota0'[k] = announced[k]]_vars
  <2> SUFFICES ASSUME TypeOK, UploadIsInFlash, [Next]_vars, bootSet', ~bootSet
               PROVE  /\ Len(announced) = size
                      /\ \A k \in 1..size : ota0'[k] = announced[k]
    OBVIOUS
  <2>1. FinishAccepted
    BY DEF Next, UploadStep, BootStep, vars, StartRefused, Start, StepRefused,
           StepOverrun, StepWritten, StepFailed, FinishMismatch,
           FinishRejected, Silence, Tick, SessionReset, PowerLoss,
           EnterRecovery, Reboot, Restart, MarkValid
  <2>2. bytes = size /\ stream = announced /\ state = "upload" /\ ota0' = ota0
    BY <2>1 DEF FinishAccepted
  <2> QED
    BY <2>2 DEF UploadIsInFlash
<1> QED
  BY <1>1, UploadCorrect, PTL DEF Spec, AcceptedIsAnnounced

(* The types of the update core, the port and the boot record, and the     *)
(* bounds a transfer keeps: no byte is counted that was not received.      *)
THEOREM TypeCorrect == Spec => []TypeOK
<1>1. TypeOK /\ UploadIsInFlash => TypeOK
  OBVIOUS
<1> QED
  BY <1>1, UploadCorrect, PTL

(* The application that runs is whole in ota_0, confirmed or in its one    *)
(* unconfirmed start, and no upload writes to the flash it runs from: only *)
(* the recovery build takes a START, and the bootloader starts ota_0 only  *)
(* with an image that is whole (fwupdate_core.c, ota_ops.c).               *)
AppIsWhole ==
  running = "app" =>
    /\ Bootable
    /\ state = "idle"
    /\ ~bootSet
    /\ selector = "ota_0"
    /\ rollback \in {"pending", "valid"}

LEMMA RestartKeepsAppWhole ==
  ASSUME NEW sel, NEW rb, Restart(sel, rb)
  PROVE  AppIsWhole'
<1>1. ota0' = ota0 /\ state' = "idle" /\ ~bootSet' /\ selector' = sel
  BY DEF Restart
<1>2. Bootable' <=> Bootable
  BY <1>1 DEF Bootable, Holds
<1>3. running' = "app" => sel = "ota_0" /\ rb \in {"new", "valid"} /\ Bootable
  BY DEF Restart
<1>4. running' = "app" => rollback' \in {"pending", "valid"}
  BY <1>3 DEF Restart
<1> QED
  BY <1>1, <1>2, <1>3, <1>4 DEF AppIsWhole

(* Through failed, refused and abandoned uploads, power losses and         *)
(* rollbacks, the card runs no application but one that is whole.          *)
THEOREM AppIsWholeHolds == Spec => []AppIsWhole
<1>1. Init => AppIsWhole
  BY DEF Init, AppIsWhole
<1>2. AppIsWhole /\ [Next]_vars => AppIsWhole'
  <2> SUFFICES ASSUME AppIsWhole, [Next]_vars PROVE AppIsWhole'
    OBVIOUS
  <2>1. CASE UploadStep
    <3>1. running' = running /\ (running = "recovery" \/ state = "upload")
      BY <2>1 DEF UploadStep, StartRefused, Start, StepRefused, StepOverrun,
                  StepWritten, StepFailed, FinishMismatch, FinishRejected,
                  FinishAccepted, Silence, Tick, SessionReset, bootVars
    <3> QED
      BY <3>1 DEF AppIsWhole
  <2>2. CASE MarkValid
    BY <2>2 DEF MarkValid, coreVars, AppIsWhole, Bootable, Holds
  <2>3. CASE BootStep /\ ~MarkValid
    <3>1. PICK sel, rb : Restart(sel, rb)
      BY <2>3 DEF BootStep, PowerLoss, EnterRecovery, Reboot
    <3> QED
      BY <3>1, RestartKeepsAppWhole
  <2>4. CASE UNCHANGED vars
    BY <2>4 DEF vars, coreVars, bootVars, AppIsWhole, Bootable, Holds
  <2> QED
    BY <2>1, <2>2, <2>3, <2>4 DEF Next
<1> QED
  BY <1>1, <1>2, PTL DEF Spec
=============================================================================
