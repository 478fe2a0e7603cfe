------------------------- MODULE Rs485Worker_proofs -------------------------
(***************************************************************************)
(* Theorems about the RS-485 worker for every population and every failure *)
(* threshold.                                                              *)
(***************************************************************************)
EXTENDS Rs485Worker, TLAPS

LEMMA OutputsInChannel ==
  ASSUME NEW d \in Device
  PROVE  /\ Outputs(d) \subseteq Channel
         /\ Channel \subseteq Nat
BY PopulationAssumption DEF Outputs, Channel, Device

LEMMA ChangedInOutputs ==
  ASSUME NEW d \in Device, NEW T
  PROVE  Changed(d, T) \subseteq Outputs(d)
BY DEF Changed

(* What a step leaves alone keeps its type. *)
LEMMA SharedKept == SharedOK /\ UNCHANGED sharedVars => SharedOK'
BY DEF SharedOK, sharedVars

LEMMA ImageKept == ImageOK /\ UNCHANGED imageVars => ImageOK'
BY DEF ImageOK, imageVars

LEMMA LinkKept == LinkOK /\ UNCHANGED linkVars => LinkOK'
BY DEF LinkOK, linkVars

LEMMA WorldKept == WorldOK /\ UNCHANGED physVars => WorldOK'
BY DEF WorldOK, physVars

(* The parts of a step that change state keep its type. *)
LEMMA PublishType ==
  ASSUME SharedOK,
         NEW image \in SUBSET Channel, NEW sampled \in SUBSET Input,
         NEW valid \in BOOLEAN, NEW link \in BOOLEAN,
         SharedPublish(image, sampled, valid, link),
         UNCHANGED <<enabled, notified>>
  PROVE  SharedOK'
<1>1. st' \in BackendState
  BY DEF SharedPublish, BackendState
<1>2. desired' \in SUBSET Channel
  BY DEF SharedPublish, SharedOK
<1> QED
  BY <1>1, <1>2 DEF SharedOK

(* The failure counter of a module stays within its threshold. *)
LEMMA UpdateLinkType ==
  ASSUME LinkOK, NEW d \in Device, NEW ok \in BOOLEAN, UpdateLink(d, ok),
         NEW b \in BOOLEAN, blocked' = [blocked EXCEPT ![d] = b]
  PROVE  LinkOK'
BY LinkFailuresAssumption DEF LinkOK, UpdateLink

LEMMA ReadCoilsType ==
  ASSUME ImageOK, WorldOK, NEW d \in Device, ReadCoils(d)
  PROVE  relays' \in SUBSET Channel
BY DEF ImageOK, WorldOK, ReadCoils

LEMMA DriveType ==
  ASSUME WorldOK, ControlOK, pc = "write"
  PROVE  Drive(op) \in SUBSET Channel
<1>1. op.chan \in Channel
  BY OutputsInChannel DEF ControlOK
<1> QED
  BY <1>1 DEF Drive, WorldOK

(* The types of the worker, with the facts they rest on: the write under    *)
(* way is of a relay of its module, and no count passes its limit.         *)
THEOREM TypeCorrect == Spec => []TypeOK
<1> USE DEF PollWaveshareOutputs, PollM31Outputs, PollM31Inputs, PollComplete
<1>1. Init => TypeOK
  <2> SUFFICES ASSUME Init PROVE TypeOK
    OBVIOUS
  <2>1. NoState \in BackendState
    BY DEF NoState, BackendState
  <2>2. SharedOK
    BY <2>1 DEF Init, SharedOK
  <2>3. ImageOK
    BY DEF Init, ImageOK
  <2>4. LinkOK
    BY LinkFailuresAssumption DEF Init, LinkOK
  <2>5. ControlOK
    BY DEF Init, ControlOK, NoWrite, Device
  <2> QED
    BY <2>2, <2>3, <2>4, <2>5 DEF Init, TypeOK, WorldOK
<1>2. TypeOK /\ [Next]_workerVars => TypeOK'
  <2> SUFFICES ASSUME TypeOK, [Next]_workerVars
               PROVE  TypeOK'
    OBVIOUS
  <2> USE SharedKept, ImageKept, LinkKept, WorldKept DEF TypeOK
  <2>1. CASE TaskStart
    <3>1. SharedOK'
      <4>1. CASE Channel = {}
        BY <2>1, <4>1, PublishType DEF TaskStart
      <4>2. CASE Channel # {}
        BY <2>1, <4>2 DEF TaskStart, sharedVars
      <4> QED
        BY <4>1, <4>2
    <3>2. ControlOK'
      BY <2>1 DEF TaskStart, ControlOK
    <3> QED
      BY <2>1, <3>1, <3>2 DEF TaskStart
  <2>2. ASSUME NEW d \in Device, StartWrite(d)
        PROVE  TypeOK'
    <3>1. ControlOK'
      BY <2>2, OutputsInChannel, ChangedInOutputs DEF StartWrite, ControlOK
    <3> QED
      BY <2>2, <3>1 DEF StartWrite
  <2>3. CASE NothingToApply
    BY <2>3 DEF NothingToApply, ControlOK
  <2>4. CASE WriteAcknowledged
    <3>1. WorldOK'
      BY <2>4, DriveType DEF WriteAcknowledged, WorldOK
    <3>2. ControlOK'
      BY <2>4 DEF WriteAcknowledged, ControlOK
    <3> QED
      BY <2>4, <3>1, <3>2 DEF WriteAcknowledged
  <2>5. CASE WriteFailed
    <3>1. WorldOK'
      BY <2>5, DriveType DEF WriteFailed, WorldOK
    <3>2. ControlOK'
      BY <2>5 DEF WriteFailed, ControlOK, NoWrite, Device
    <3>3. LinkOK'
      BY <2>5, UpdateLinkType DEF WriteFailed, ControlOK
    <3> QED
      BY <2>5, <3>1, <3>2, <3>3 DEF WriteFailed
  <2>6. ASSUME NEW d \in Device, NEW ok \in BOOLEAN, ConfirmRead(d, ok)
        PROVE  TypeOK'
    <3>1. ImageOK'
      BY <2>6, ReadCoilsType DEF ConfirmRead, ImageOK
    <3>2. LinkOK'
      BY <2>6, UpdateLinkType DEF ConfirmRead
    <3>3. ControlOK'
      BY <2>6 DEF ConfirmRead, ControlOK, NoWrite, Device
    <3> QED
      BY <2>6, <3>1, <3>2, <3>3 DEF ConfirmRead
  <2>7. CASE WorkerPublish
    <3>1. InputValid \in BOOLEAN /\ WorkerLink \in BOOLEAN
      BY DEF InputValid, WorkerLink, LinkOK, ImageOK, Device
    <3>2. SharedOK'
      BY <2>7, <3>1, PublishType DEF WorkerPublish, ImageOK
    <3>3. ControlOK'
      BY <2>7 DEF WorkerPublish, ControlOK
    <3> QED
      BY <2>7, <3>2, <3>3 DEF WorkerPublish
  <2>8. ASSUME NEW d \in Device, NEW ok \in BOOLEAN, PollOutputs(d, ok)
        PROVE  TypeOK'
    <3>1. ImageOK'
      BY <2>8, ReadCoilsType DEF PollOutputs, ImageOK
    <3>2. LinkOK'
      BY <2>8, UpdateLinkType DEF PollOutputs
    <3>3. ControlOK'
      BY <2>8 DEF PollOutputs, ControlOK
    <3> QED
      BY <2>8, <3>1, <3>2, <3>3 DEF PollOutputs
  <2>9. ASSUME NEW ok \in BOOLEAN, PollInputs(ok)
        PROVE  TypeOK'
    <3>1. ImageOK'
      BY <2>9 DEF PollInputs, ImageOK, WorldOK
    <3>2. ControlOK'
      <4>1. (phase \in PollWaveshareOutputs..PollComplete)'
        BY <2>9 DEF PollInputs, PollWaveshareOutputs, PollComplete
      <4>2. (pollDue \in BOOLEAN)' /\ pc' = "publish" /\ op' = op
        BY <2>9 DEF PollInputs
      <4> QED
        BY <4>1, <4>2 DEF ControlOK
    <3> QED
      BY <2>9, <3>1, <3>2 DEF PollInputs
  <2>10. CASE PollNothingLeft
    <3>1. ImageOK'
      BY <2>10 DEF PollNothingLeft, ImageOK
    <3>2. ControlOK'
      <4>1. (phase \in PollWaveshareOutputs..PollComplete)'
        BY <2>10 DEF PollNothingLeft, PollWaveshareOutputs, PollComplete
      <4>2. (pollDue \in BOOLEAN)' /\ pc' = "apply" /\ op' = op
        BY <2>10 DEF PollNothingLeft
      <4> QED
        BY <4>1, <4>2 DEF ControlOK
    <3> QED
      BY <2>10, <3>1, <3>2 DEF PollNothingLeft
  <2>11. CASE PollRestart
    BY <2>11 DEF PollRestart, ControlOK
  <2>12. CASE WakeUp
    <3>1. SharedOK'
      BY <2>12 DEF WakeUp, SharedOK
    <3> QED
      BY <2>12, <3>1 DEF WakeUp, ControlOK
  <2>13. CASE WorldStep
    <3>1. SharedOK' /\ ImageOK' /\ LinkOK'
      BY <2>13 DEF WorldStep, PollTimer, ModulePowerCycle, InputChange
    <3>2. ControlOK'
      BY <2>13 DEF WorldStep, PollTimer, ModulePowerCycle, InputChange, ControlOK
    <3>3. WorldOK'
      BY <2>13 DEF WorldStep, PollTimer, ModulePowerCycle, InputChange, WorldOK
    <3> QED
      BY <3>1, <3>2, <3>3
  <2>14. CASE ClientStep
    <3>1. SharedOK'
      BY <2>14 DEF ClientStep, BackendSetEnabled, BackendSetOutputs, SharedOK
    <3>2. UNCHANGED privateVars
      BY <2>14 DEF ClientStep
    <3>3. ControlOK'
      BY <3>2 DEF privateVars, ControlOK
    <3> QED
      BY <3>1, <3>2, <3>3 DEF privateVars, imageVars, linkVars, physVars
  <2>15. CASE UNCHANGED workerVars
    <3>1. ControlOK'
      BY <2>15 DEF workerVars, ControlOK
    <3> QED
      BY <2>15, <3>1 DEF workerVars, sharedVars, imageVars, linkVars, physVars
  <2> QED
    BY <2>1, <2>2, <2>3, <2>4, <2>5, <2>6, <2>7, <2>8, <2>9, <2>10, <2>11,
       <2>12, <2>13, <2>14, <2>15 DEF Next, WorkerStep
<1> QED
  BY <1>1, <1>2, PTL DEF Spec

(* A successful transaction with a populated module puts the link up. *)
LEMMA SuccessLinks ==
  ASSUME TypeOK, NEW d \in Device, UpdateLink(d, TRUE), Outputs(d) # {}
  PROVE  WorkerLink'
<1>1. online'[d]
  BY DEF TypeOK, LinkOK, UpdateLink
<1> QED
  BY <1>1 DEF WorkerLink

(* Whatever the worker read is published before it does anything else. *)
THEOREM PublicationCorrect == Spec => []ReadbackPublished
<1>1. Init => ReadbackPublished
  BY DEF Init, NoState, ReadbackPublished, WorkerLink
<1>2. TypeOK /\ ReadbackPublished /\ [Next]_workerVars => ReadbackPublished'
  <2> SUFFICES ASSUME TypeOK, ReadbackPublished, [Next]_workerVars
               PROVE  ReadbackPublished'
    OBVIOUS
  <2>1. CASE TaskStart
    <3>1. CASE Channel = {}
      <4>1. relays = {} /\ ~WorkerLink
        <5>1. relays = {}
          BY <3>1 DEF TypeOK, ImageOK
        <5>2. \A d \in Device : Outputs(d) = {}
          BY <3>1, OutputsInChannel
        <5> QED
          BY <5>1, <5>2 DEF WorkerLink
      <4>2. relays' = {} /\ ~WorkerLink'
        BY <2>1, <4>1 DEF TaskStart, WorkerLink, imageVars, linkVars
      <4>3. pc' = "exited"
        BY <2>1, <3>1 DEF TaskStart
      <4>4. st'.link = FALSE /\ st'.relay_state = {}
        BY <2>1, <3>1 DEF TaskStart, SharedPublish
      <4>5. st'.link = WorkerLink'
        BY <4>2, <4>4 DEF WorkerLink
      <4> QED
        BY <4>2, <4>3, <4>4, <4>5 DEF ReadbackPublished
    <3>2. CASE Channel # {}
      BY <2>1, <3>2
      DEF TaskStart, ReadbackPublished, WorkerLink, imageVars, linkVars
    <3> QED
      BY <3>1, <3>2
  <2>2. CASE \E d \in Device : StartWrite(d)
    BY <2>2 DEF StartWrite, ReadbackPublished, WorkerLink, sharedVars, imageVars,
                linkVars
  <2>3. CASE NothingToApply
    BY <2>3 DEF NothingToApply, ReadbackPublished, WorkerLink, sharedVars,
                imageVars, linkVars
  <2>4. CASE WriteAcknowledged
    BY <2>4 DEF WriteAcknowledged, ReadbackPublished, WorkerLink, sharedVars,
                imageVars, linkVars
  <2>5. CASE WriteFailed
    BY <2>5 DEF WriteFailed, ReadbackPublished, sharedVars, imageVars
  <2>6. ASSUME NEW d \in Device, NEW ok \in BOOLEAN, ConfirmRead(d, ok)
        PROVE  ReadbackPublished'
    <3>1. CASE ok
      <4>1. Outputs(d) # {}
        BY <2>6 DEF ConfirmRead, TypeOK, ControlOK
      <4>2. WorkerLink'
        BY <2>6, <3>1, <4>1, SuccessLinks DEF ConfirmRead
      <4> QED
        BY <2>6, <4>2 DEF ConfirmRead, ReadbackPublished
    <3>2. CASE ~ok
      BY <2>6, <3>2 DEF ConfirmRead, ReadbackPublished, sharedVars
    <3> QED
      BY <3>1, <3>2
  <2>7. CASE WorkerPublish
    BY <2>7 DEF WorkerPublish, SharedPublish, ReadbackPublished, WorkerLink,
                imageVars, linkVars
  <2>8. ASSUME NEW d \in Device, NEW ok \in BOOLEAN, PollOutputs(d, ok)
        PROVE  ReadbackPublished'
    <3>1. CASE ok
      <4>1. Outputs(d) # {}
        BY <2>8, PopulationAssumption
        DEF PollOutputs, Reaches, Skipped, Outputs, Device,
            PollWaveshareOutputs, PollM31Outputs, PollM31Inputs
      <4>2. WorkerLink'
        BY <2>8, <3>1, <4>1, SuccessLinks DEF PollOutputs
      <4> QED
        BY <2>8, <4>2 DEF PollOutputs, ReadbackPublished
    <3>2. CASE ~ok
      BY <2>8, <3>2 DEF PollOutputs, ReadbackPublished, sharedVars
    <3> QED
      BY <3>1, <3>2
  <2>9. CASE \E ok \in BOOLEAN : PollInputs(ok)
    BY <2>9 DEF PollInputs, ReadbackPublished, WorkerLink, sharedVars, linkVars
  <2>10. CASE PollNothingLeft
    BY <2>10 DEF PollNothingLeft, ReadbackPublished, WorkerLink, sharedVars,
                 linkVars
  <2>11. CASE PollRestart
    BY <2>11 DEF PollRestart, ReadbackPublished, WorkerLink, sharedVars,
                 imageVars, linkVars
  <2>12. CASE WakeUp
    BY <2>12 DEF WakeUp, ReadbackPublished, WorkerLink, imageVars, linkVars
  <2>13. CASE WorldStep
    BY <2>13 DEF WorldStep, PollTimer, ModulePowerCycle, InputChange,
                 ReadbackPublished, WorkerLink, sharedVars, imageVars, linkVars
  <2>14. CASE ClientStep
    BY <2>14 DEF ClientStep, BackendSetEnabled, BackendSetOutputs, privateVars,
                 ReadbackPublished, WorkerLink
  <2>15. CASE UNCHANGED workerVars
    BY <2>15 DEF workerVars, ReadbackPublished, WorkerLink
  <2> QED
    BY <2>1, <2>2, <2>3, <2>4, <2>5, <2>6, <2>7, <2>8, <2>9, <2>10, <2>11,
       <2>12, <2>13, <2>14, <2>15 DEF Next, WorkerStep
<1> QED
  BY <1>1, <1>2, TypeCorrect, PTL DEF Spec

(* No command waits for a bank that is reported unreachable. *)
THEOREM NoStaleReplayHolds == Spec => []NoStaleReplay
<1>1. Init => NoStaleReplay
  BY DEF Init, NoStaleReplay
<1>2. TypeOK /\ ReadbackPublished /\ NoStaleReplay /\ [Next]_workerVars
        => NoStaleReplay'
  <2> SUFFICES ASSUME TypeOK, ReadbackPublished, NoStaleReplay,
                      [Next]_workerVars
               PROVE  NoStaleReplay'
    OBVIOUS
  <2>1. CASE TaskStart
    <3>1. CASE Channel = {}
      <4>1. desired = {}
        BY <3>1 DEF TypeOK, SharedOK
      <4> QED
        BY <2>1, <3>1, <4>1 DEF TaskStart, SharedPublish, NoStaleReplay
    <3>2. CASE Channel # {}
      BY <2>1, <3>2 DEF TaskStart, NoStaleReplay
    <3> QED
      BY <3>1, <3>2
  <2>2. CASE WorkerPublish
    BY <2>2 DEF WorkerPublish, SharedPublish, ReadbackPublished, NoStaleReplay
  <2>3. CASE WakeUp
    BY <2>3 DEF WakeUp, NoStaleReplay
  <2>4. CASE ClientStep
    BY <2>4 DEF ClientStep, BackendSetEnabled, BackendSetOutputs, NoStaleReplay
  <2>5. CASE UNCHANGED sharedVars
    BY <2>5 DEF sharedVars, NoStaleReplay
  <2>6. UNCHANGED sharedVars \/ TaskStart \/ WorkerPublish \/ WakeUp \/ ClientStep
    BY DEF Next, WorkerStep, WorldStep, StartWrite, NothingToApply,
           WriteAcknowledged, WriteFailed, ConfirmRead, PollOutputs, PollInputs,
           PollNothingLeft, PollRestart, PollTimer, ModulePowerCycle,
           InputChange, workerVars, sharedVars
  <2> QED
    BY <2>1, <2>2, <2>3, <2>4, <2>5, <2>6
<1> QED
  BY <1>1, <1>2, TypeCorrect, PublicationCorrect, PTL DEF Spec

(* The worker implements RelayBank: each of its steps is a step of the     *)
(* promise or leaves all of it unchanged.                                  *)
LEMMA BankInit == Init => Bank!Init
BY DEF Init, NoState, Bank!Init

LEMMA BankStep ==
  TypeOK /\ ReadbackPublished /\ [Next]_workerVars => [Bank!Next]_(Bank!vars)
<1> SUFFICES ASSUME TypeOK, ReadbackPublished, [Next]_workerVars
             PROVE  Bank!Next \/ UNCHANGED Bank!vars
  OBVIOUS
<1> DEFINE armed == IF pc = "write" /\ op.on THEN {op.chan} ELSE {}
<1>1. CASE TaskStart
  <2>1. armed' = armed /\ UNCHANGED <<enabled, coils>>
    BY <1>1 DEF TaskStart, SharedPublish, physVars
  <2>2. CASE Channel = {}
    <3>1. st.relay_state = {}
      BY <2>2 DEF TypeOK, SharedOK, BackendState
    <3>2. /\ st'.relay_state = {} /\ st'.link = FALSE
          /\ desired' = IF st.link /\ enabled THEN {} ELSE desired
      BY <1>1, <2>2 DEF TaskStart, SharedPublish
    <3>3. Bank!Report
      BY <2>1, <3>1, <3>2 DEF Bank!Report
    <3> QED
      BY <3>3 DEF Bank!Next
  <2>3. CASE Channel # {}
    BY <1>1, <2>1, <2>3 DEF TaskStart, Bank!vars
  <2> QED
    BY <2>2, <2>3
<1>2. ASSUME NEW d \in Device, StartWrite(d)
      PROVE  Bank!Next \/ UNCHANGED Bank!vars
  <2>1. UNCHANGED <<enabled, desired, st, coils>> /\ armed = {}
    BY <1>2 DEF StartWrite, sharedVars, physVars
  <2>2. PICK c \in Changed(d, SharedTarget) :
          op' = [dev |-> d, chan |-> c, on |-> c \in SharedTarget]
    BY <1>2 DEF StartWrite
  <2>3. CASE c \in SharedTarget
    <3>1. enabled /\ c \in desired
      BY <2>3 DEF SharedTarget
    <3>2. armed' = {c}
      BY <1>2, <2>2, <2>3 DEF StartWrite
    <3>3. Bank!Arm
      BY <2>1, <3>1, <3>2 DEF Bank!Arm
    <3> QED
      BY <3>3 DEF Bank!Next
  <2>4. CASE c \notin SharedTarget
    <3>1. armed' = {}
      BY <2>2, <2>4
    <3> QED
      BY <2>1, <3>1 DEF Bank!vars
  <2> QED
    BY <2>3, <2>4
<1>3. CASE WriteAcknowledged \/ WriteFailed
  <2>1. /\ UNCHANGED <<enabled, desired, st>>
        /\ pc = "write" /\ armed' = {}
        /\ coils' \in {coils, Drive(op)}
    BY <1>3 DEF WriteAcknowledged, WriteFailed, sharedVars
  <2>2. CASE op.on
    <3>1. armed = {op.chan} /\ Drive(op) = coils \cup armed
      BY <2>1, <2>2 DEF Drive
    <3>2. Bank!Settle
      BY <2>1, <3>1 DEF Bank!Settle
    <3> QED
      BY <3>2 DEF Bank!Next
  <2>3. CASE ~op.on
    <3>1. armed = {} /\ coils' \in SUBSET coils
      BY <2>1, <2>3 DEF Drive
    <3>2. Bank!Release
      BY <2>1, <3>1 DEF Bank!Release
    <3> QED
      BY <3>2 DEF Bank!Next
  <2> QED
    BY <2>2, <2>3
<1>4. CASE WorkerPublish
  <2>1. armed' = armed /\ UNCHANGED <<enabled, coils>> /\ pc = "publish"
    BY <1>4 DEF WorkerPublish, physVars
  <2>2. /\ st'.relay_state = relays
        /\ st'.link = WorkerLink
        /\ desired' = IF st.link /\ ~WorkerLink /\ enabled
                      THEN relays ELSE desired
    BY <1>4 DEF WorkerPublish, SharedPublish
  <2>3. WorkerLink \in BOOLEAN /\ relays \in SUBSET Channel
    BY DEF WorkerLink, TypeOK, ImageOK
  <2>4. ~st.link /\ ~WorkerLink => relays = st.relay_state
    BY <2>1 DEF ReadbackPublished
  <2>5. Bank!Report
    BY <2>1, <2>2, <2>3, <2>4 DEF Bank!Report
  <2> QED
    BY <2>5 DEF Bank!Next
<1>5. CASE \E d \in Device : ModulePowerCycle(d)
  <2>1. /\ UNCHANGED <<enabled, desired, st>> /\ armed' = armed
        /\ coils' \in SUBSET coils
    BY <1>5 DEF ModulePowerCycle, sharedVars
  <2>2. Bank!Release
    BY <2>1 DEF Bank!Release
  <2> QED
    BY <2>2 DEF Bank!Next
<1>6. ASSUME NEW e \in BOOLEAN, BackendSetEnabled(e), UNCHANGED privateVars
      PROVE  Bank!Next \/ UNCHANGED Bank!vars
  <2>1. Bank!SetEnabled
    BY <1>6 DEF BackendSetEnabled, privateVars, Bank!SetEnabled
  <2> QED
    BY <2>1 DEF Bank!Next
<1>7. ASSUME NEW mask \in SUBSET Channel, NEW values \in SUBSET mask,
             BackendSetOutputs(mask, values), UNCHANGED privateVars
      PROVE  Bank!Next \/ UNCHANGED Bank!vars
  <2>1. UNCHANGED <<enabled, st, coils>> /\ armed' = armed
    BY <1>7 DEF BackendSetOutputs, privateVars
  <2>2. CASE enabled /\ st.link
    <3>1. desired' \in SUBSET Channel
      BY <1>7, <2>2 DEF BackendSetOutputs, TypeOK, SharedOK
    <3>2. Bank!Command
      BY <2>1, <2>2, <3>1 DEF Bank!Command
    <3> QED
      BY <3>2 DEF Bank!Next
  <2>3. CASE ~(enabled /\ st.link)
    BY <1>7, <2>1, <2>3 DEF BackendSetOutputs, Bank!vars
  <2> QED
    BY <2>2, <2>3
<1>8. CASE \/ NothingToApply
           \/ \E d \in Device, ok \in BOOLEAN : ConfirmRead(d, ok)
           \/ \E d \in Device, ok \in BOOLEAN : PollOutputs(d, ok)
           \/ \E ok \in BOOLEAN : PollInputs(ok)
           \/ PollNothingLeft \/ PollRestart \/ WakeUp
  <2>1. UNCHANGED <<enabled, desired, st, coils>>
    BY <1>8 DEF NothingToApply, ConfirmRead, PollOutputs, PollInputs,
                PollNothingLeft, PollRestart, WakeUp, sharedVars, physVars
  <2>2. pc # "write" /\ pc' # "write"
    BY <1>8 DEF NothingToApply, ConfirmRead, PollOutputs, PollInputs,
                PollNothingLeft, PollRestart, WakeUp
  <2> QED
    BY <2>1, <2>2 DEF Bank!vars
<1>9. CASE PollTimer \/ InputChange \/ UNCHANGED workerVars
  <2>1. UNCHANGED <<enabled, desired, st, pc, op, coils>>
    BY <1>9 DEF PollTimer, InputChange, sharedVars, physVars, workerVars
  <2> QED
    BY <2>1 DEF Bank!vars
<1> QED
  BY <1>1, <1>2, <1>3, <1>4, <1>5, <1>6, <1>7, <1>8, <1>9
  DEF Next, WorkerStep, WorldStep, ClientStep

(* With its bus, its phases and its retries the worker does nothing the    *)
(* abstract bank does not allow (rs485_discrete.c).                        *)
THEOREM WorkerImplementsRelayBank == Spec => ImplementsRelayBank
<1> QED
  BY BankInit, BankStep, TypeCorrect, PublicationCorrect, PTL
  DEF Spec, ImplementsRelayBank, Bank!Spec
=============================================================================
