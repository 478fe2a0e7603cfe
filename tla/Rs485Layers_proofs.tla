-------------------------- MODULE Rs485Layers_proofs --------------------------
(***************************************************************************)
(* Theorems about what is built on the worker, for every population of     *)
(* relays and every limit of failures: the wire state machine above it,    *)
(* and the worth of the readback it publishes.                             *)
(***************************************************************************)
EXTENDS DiscreteGlue, ReadbackHistory, Rs485Worker_proofs, FiniteSetTheorems

-----------------------------------------------------------------------------
(* The glue touches the worker's state only through the backend            *)
(* operations, so all that is proved of the worker holds of the            *)
(* composition.                                                            *)
LEMMA GlueStepRefines == [GlueNext]_vars => [Next]_workerVars
<1> SUFFICES ASSUME [GlueNext]_vars PROVE Next \/ UNCHANGED workerVars
  OBVIOUS
<1>1. CASE WorkerStep \/ WorldStep
  BY <1>1 DEF Next
<1>2. CASE GlueReset \/ SetupEnable \/ SetupDisable
  <2>1. PICK e \in BOOLEAN : BackendSetEnabled(e) /\ UNCHANGED privateVars
    BY <1>2 DEF GlueReset, SetupEnable, SetupDisable
  <2> QED
    BY <2>1 DEF Next, ClientStep
<1>3. CASE SetCommitted
  <2>1. PICK mask \in SUBSET Channel \ {{}} : \E values \in SUBSET mask :
          BackendSetOutputs(mask, values)
    BY <1>3 DEF SetCommitted
  <2>2. UNCHANGED privateVars
    BY <1>3 DEF SetCommitted
  <2> QED
    BY <2>1, <2>2 DEF Next, ClientStep
<1>4. CASE \/ SetupBaseline \/ SetChecked \/ GlueLoop
           \/ DisableTimeout \/ HostEndpoint \/ UNCHANGED vars
  BY <1>4 DEF SetupBaseline, SetChecked, GlueLoop, LoopFinish, LoopReport,
              DisableTimeout, HostEndpoint, vars
<1> QED
  BY <1>1, <1>2, <1>3, <1>4 DEF GlueNext, GlueStep

(* Every behaviour of the composition is one of the worker, and so keeps   *)
(* the promise of RelayBank.                                               *)
THEOREM GlueImplementsRelayBank == GlueSpec => Spec /\ ImplementsRelayBank
<1>1. GlueInit => Init
  BY DEF GlueInit
<1> QED
  BY <1>1, GlueStepRefines, WorkerImplementsRelayBank, PTL DEF GlueSpec, Spec

(* No command of the host waits for an unreachable bank, although the      *)
(* glue's own link check is stale when its write is stored.                *)
THEOREM GlueNoStaleReplay == GlueSpec => []NoStaleReplay
BY GlueImplementsRelayBank, NoStaleReplayHolds, PTL

(* The backend is enabled exactly while the glue accepts writes. *)
THEOREM LayersAgreeHolds == GlueSpec => []LayersAgree
<1> DEFINE Inv == /\ LayersAgree
                  /\ enabled \in BOOLEAN
                  /\ gEnabled \in BOOLEAN
                  /\ disabling \in BOOLEAN
<1>1. GlueInit => Inv
  BY DEF GlueInit, Init, LayersAgree
<1>2. Inv /\ [GlueNext]_vars => Inv'
  <2> SUFFICES ASSUME Inv, [GlueNext]_vars PROVE Inv'
    OBVIOUS
  <2> USE DEF LayersAgree
  <2>1. CASE (WorkerStep \/ WorldStep) /\ UNCHANGED glueVars
    <3>1. UNCHANGED enabled
      BY <2>1 DEF WorkerStep, WorldStep, TaskStart, StartWrite,
           NothingToApply, WriteAcknowledged, WriteFailed, ConfirmRead,
           WorkerPublish, PollOutputs, PollInputs, PollNothingLeft,
           PollRestart, WakeUp, PollTimer, ModulePowerCycle, InputChange,
           sharedVars
    <3> QED
      BY <2>1, <3>1 DEF glueVars, discVars
  <2>2. CASE GlueReset
    BY <2>2 DEF GlueReset, BackendSetEnabled
  <2>3. CASE SetupEnable
    BY <2>3 DEF SetupEnable, BackendSetEnabled
  <2>4. CASE SetupDisable
    BY <2>4 DEF SetupDisable, BackendSetEnabled
  <2>5. CASE SetCommitted
    BY <2>5 DEF SetCommitted, BackendSetOutputs, discVars
  <2>6. CASE LoopFinish
    BY <2>6 DEF LoopFinish, workerVars
  <2>7. CASE \/ SetupBaseline \/ SetChecked \/ LoopReport
             \/ DisableTimeout \/ HostEndpoint \/ UNCHANGED vars
    <3>1. UNCHANGED <<enabled, gEnabled, disabling>>
      BY <2>7 DEF SetupBaseline, SetChecked, LoopReport, DisableTimeout,
           HostEndpoint, vars, workerVars, glueVars, discVars
    <3> QED
      BY <3>1
  <2> QED
    BY <2>1, <2>2, <2>3, <2>4, <2>5, <2>6, <2>7 DEF GlueNext, GlueStep, GlueLoop
<1> QED
  BY <1>1, <1>2, PTL DEF GlueSpec
-----------------------------------------------------------------------------
LEMMA GlueVarsKept ==
  ASSUME ((WorkerStep \/ WorldStep) /\ UNCHANGED glueVars) \/ UNCHANGED vars
  PROVE  UNCHANGED <<gEnabled, disabling, disableDue, hw, hwSeen, pending,
                     commPc, hostKnown, sent>>
BY DEF glueVars, vars, discVars

(* Type correctness of the composition. *)
THEOREM GlueTypeCorrect == GlueSpec => []GlueTypeOK
<1> DEFINE Inv == GlueTypeOK
<1>1. TypeOK /\ GlueInit => Inv
  <2>1. NoState \in BackendState
    BY DEF NoState, BackendState
  <2> QED
    BY <2>1 DEF GlueInit, GlueTypeOK
<1>2. Inv /\ TypeOK' /\ [GlueNext]_vars => Inv'
  <2> SUFFICES ASSUME Inv, TypeOK', [GlueNext]_vars PROVE Inv'
    OBVIOUS
  <2> USE DEF GlueTypeOK
  <2>1. Snapshot \in BackendState
    <3>1. st \in BackendState
      BY DEF TypeOK, SharedOK
    <3>2. (st.input_valid /\ st.link) \in BOOLEAN
      BY <3>1 DEF BackendState
    <3> QED
      BY <3>1, <3>2 DEF Snapshot, BackendState
  <2>2. CASE ((WorkerStep \/ WorldStep) /\ UNCHANGED glueVars) \/ UNCHANGED vars
    BY <2>2, GlueVarsKept
  <2>3. CASE GlueReset \/ SetupEnable \/ SetupDisable
    BY <2>3 DEF GlueReset, SetupEnable, SetupDisable
  <2>4. CASE SetupBaseline \/ SetChecked
    BY <2>1, <2>4 DEF SetupBaseline, SetChecked, TakeSnapshot, PendingAfterRefresh
  <2>5. CASE SetCommitted
    BY <2>5 DEF SetCommitted, discVars
  <2>6. CASE LoopFinish
    BY <2>1, <2>6 DEF LoopFinish, TakeSnapshot, EmitState
  <2>7. CASE LoopReport
    BY <2>1, <2>7 DEF LoopReport, TakeSnapshot, EmitState, PendingAfterRefresh
  <2>8. CASE DisableTimeout \/ HostEndpoint
    BY <2>8 DEF DisableTimeout, HostEndpoint, discVars
  <2> QED
    BY <2>2, <2>3, <2>4, <2>5, <2>6, <2>7, <2>8 DEF GlueNext, GlueStep, GlueLoop
<1> QED
  BY <1>1, <1>2, GlueImplementsRelayBank, TypeCorrect, PTL DEF GlueSpec

(* Nothing the glue has seen is kept from the host, through sends that     *)
(* fail and handlers that take a snapshot of their own.                    *)
THEOREM HostIsUpToDateHolds == GlueSpec => []HostIsUpToDate
<1>1. GlueInit => HostIsUpToDate
  BY DEF GlueInit, HostIsUpToDate
<1>2. HostIsUpToDate /\ GlueTypeOK /\ [GlueNext]_vars => HostIsUpToDate'
  <2> SUFFICES ASSUME HostIsUpToDate, GlueTypeOK, [GlueNext]_vars,
                      Channel \cup Input # {}, gEnabled', ~pending', commPc' # "setup"
               PROVE  sent' = {hw'}
    BY DEF HostIsUpToDate, Channel, Input
  <2> USE DEF HostIsUpToDate, GlueTypeOK
  <2>1. CASE ((WorkerStep \/ WorldStep) /\ UNCHANGED glueVars) \/ UNCHANGED vars
    BY <2>1, GlueVarsKept
  <2>2. CASE GlueReset \/ SetupEnable \/ SetupDisable
    BY <2>2 DEF GlueReset, SetupEnable, SetupDisable
  <2>3. CASE SetupBaseline
    BY <2>3 DEF SetupBaseline
  <2>4. CASE SetChecked
    BY <2>4 DEF SetChecked, TakeSnapshot, PendingAfterRefresh
  <2>5. CASE SetCommitted
    BY <2>5 DEF SetCommitted, discVars
  <2>6. CASE LoopFinish
    BY <2>6 DEF LoopFinish
  <2>7. CASE LoopReport
    BY <2>7 DEF LoopReport, TakeSnapshot, EmitState, PendingAfterRefresh
  <2>8. CASE DisableTimeout \/ HostEndpoint
    BY <2>8 DEF DisableTimeout, HostEndpoint, discVars
  <2> QED
    BY <2>1, <2>2, <2>3, <2>4, <2>5, <2>6, <2>7, <2>8 DEF GlueNext, GlueStep, GlueLoop
<1> QED
  BY <1>1, <1>2, GlueTypeCorrect, PTL DEF GlueSpec
-----------------------------------------------------------------------------
(* The history of what was read and of what the relays did *)
hVars == <<workerVars, historyVars>>

(* What HistoryNext adds to a step of the worker *)
LEMMA HistoryIsWorker == HistorySpec => Spec
<1>1. HistoryInit => Init
  BY DEF HistoryInit
<1>2. [HistoryNext]_hVars => [Next]_workerVars
  BY DEF HistoryNext, hVars
<1> QED
  BY <1>1, <1>2, PTL DEF HistorySpec, Spec, hVars

LEMMA OutputsApart ==
  ASSUME NEW d \in Device, NEW e \in Device, d # e
  PROVE  Outputs(d) \cap Outputs(e) = {}
BY PopulationAssumption DEF Device, Outputs

(* A readback of one module leaves the image of the other as it is, and    *)
(* takes nothing into its own but what is.                                 *)
LEMMA ReadIsExact ==
  ASSUME NEW d \in Device, ReadCoils(d)
  PROVE  /\ coils \cap Outputs(d) \subseteq relays'
         /\ \A e \in Device \ {d} : relays' \cap Outputs(e) = relays \cap Outputs(e)
         /\ relays' \subseteq relays \cup coils
         /\ relays \ relays' \subseteq relays \ coils
<1>1. \A e \in Device \ {d} : Outputs(d) \cap Outputs(e) = {}
  BY OutputsApart
<1> QED
  BY <1>1 DEF ReadCoils
-----------------------------------------------------------------------------
(* What a module that was read once may have on that the image does not    *)
(* show: one relay at most, and none unless a write of it is under way or  *)
(* the module waits to be read.                                            *)
Slack(d) ==
  IF pc \in {"write", "confirm"} /\ op.dev = d
  THEN coils \cap Outputs(d) \subseteq relays \cup {op.chan}
  ELSE /\ ~blocked[d] => coils \cap Outputs(d) \subseteq relays
       /\ \E c \in Nat : coils \cap Outputs(d) \subseteq relays \cup {c}

SlackInv == \A d \in everRead : Slack(d)

(* The image holds nothing but what was so since the last publication.     *)
SeenInv ==
  /\ coils \subseteq wasOn
  /\ Channel \ coils \subseteq wasOff
  /\ relays \ st.relay_state \subseteq wasOn
  /\ st.relay_state \ relays \subseteq wasOff

-----------------------------------------------------------------------------
(* A read that everRead counts leaves no slack. *)
LEMMA SlackRead ==
  ASSUME NEW d \in Device, ReadOf(d)
  PROVE  Slack(d)'
<1>1. coils' = coils /\ pc' = "publish" /\ ReadCoils(d)
  BY DEF ReadOf, ConfirmRead, PollOutputs, physVars
<1>2. coils' \cap Outputs(d) \subseteq relays'
  BY <1>1, ReadIsExact
<1> QED
  BY <1>1, <1>2 DEF Slack

LEMMA SlackKept ==
  ASSUME NEW d \in Device, Slack(d),
         coils' \cap Outputs(d) \subseteq coils,
         relays' \cap Outputs(d) = relays \cap Outputs(d),
         blocked'[d] = blocked[d],
         (pc' \in {"write", "confirm"} /\ op'.dev = d)
           <=> (pc \in {"write", "confirm"} /\ op.dev = d),
         pc \in {"write", "confirm"} /\ op.dev = d => op' = op
  PROVE  Slack(d)'
BY DEF Slack

(* A write that was not confirmed leaves the module blocked. *)
LEMMA SlackBlocked ==
  ASSUME NEW d \in Device, TypeOK, Slack(d),
         IF pc \in {"write", "confirm"} /\ op.dev = d
         THEN coils' \subseteq coils \cup {op.chan}
         ELSE coils' = coils,
         relays' = relays, blocked'[d], pc' = "publish"
  PROVE  Slack(d)'
<1>1. op.chan \in Nat
  BY DEF TypeOK, ControlOK
<1>2. \E c \in Nat : coils' \cap Outputs(d) \subseteq relays \cup {c}
  <2>1. CASE pc \in {"write", "confirm"} /\ op.dev = d
    <3>1. coils' \cap Outputs(d) \subseteq relays \cup {op.chan}
      BY <2>1 DEF Slack
    <3> QED
      BY <1>1, <3>1
  <2>2. CASE ~(pc \in {"write", "confirm"} /\ op.dev = d)
    BY <2>2 DEF Slack
  <2> QED
    BY <2>1, <2>2
<1> QED
  BY <1>2 DEF Slack

LEMMA DriveOfOther ==
  ASSUME TypeOK, pc = "write", NEW d \in Device
  PROVE  /\ Drive(op) \subseteq coils \cup {op.chan}
         /\ d # op.dev => Drive(op) \cap Outputs(d) \subseteq coils
<1>1. op.dev \in Device /\ op.chan \in Outputs(op.dev)
  BY DEF TypeOK, ControlOK
<1>2. d # op.dev => op.chan \notin Outputs(d)
  BY <1>1, OutputsApart
<1> QED
  BY <1>2 DEF Drive

LEMMA SlackStep ==
  ASSUME TypeOK, NEW d \in Device, Slack(d), ~ReadOf(d), [Next]_workerVars
  PROVE  Slack(d)'
<1>0. blocked \in [Device -> BOOLEAN] /\ op.dev \in Device
  BY DEF TypeOK, LinkOK, ControlOK
<1>1. CASE \/ TaskStart \/ NothingToApply \/ WorkerPublish
           \/ \E ok \in BOOLEAN : PollInputs(ok)
           \/ PollNothingLeft \/ PollRestart \/ WakeUp
  <2>1. /\ UNCHANGED <<relays, blocked, coils>>
        /\ pc \notin {"write", "confirm"} /\ pc' \notin {"write", "confirm"}
    BY <1>1 DEF TaskStart, NothingToApply, WorkerPublish, PollInputs,
         PollNothingLeft, PollRestart, WakeUp, imageVars, linkVars, physVars
  <2> QED
    BY <2>1, SlackKept
<1>2. CASE PollTimer \/ InputChange \/ ClientStep \/ UNCHANGED workerVars
  <2>1. UNCHANGED <<relays, blocked, coils, pc, op>>
    BY <1>2 DEF PollTimer, InputChange, ClientStep, privateVars, workerVars,
         imageVars, linkVars, physVars
  <2> QED
    BY <2>1, SlackKept
<1>3. CASE \E e \in Device : ModulePowerCycle(e)
  <2>1. coils' \subseteq coils /\ UNCHANGED <<relays, blocked, pc, op>>
    BY <1>3 DEF ModulePowerCycle, imageVars, linkVars
  <2> QED
    BY <2>1, SlackKept
<1>4. ASSUME NEW e \in Device, StartWrite(e) PROVE Slack(d)'
  <2>1. /\ UNCHANGED <<relays, blocked, coils>>
        /\ pc = "apply" /\ pc' = "write" /\ op'.dev = e /\ ~blocked[e]
    BY <1>4 DEF StartWrite, Writable, imageVars, linkVars, physVars
  <2>2. CASE d = e
    BY <2>1, <2>2 DEF Slack
  <2>3. CASE d # e
    BY <2>1, <2>3, SlackKept
  <2> QED
    BY <2>2, <2>3
<1>5. CASE WriteAcknowledged
  <2>1. /\ UNCHANGED <<relays, blocked, op>> /\ coils' = Drive(op)
        /\ pc = "write" /\ pc' = "confirm"
    BY <1>5 DEF WriteAcknowledged, imageVars, linkVars
  <2>2. CASE d = op.dev
    BY <2>1, <2>2, DriveOfOther DEF Slack
  <2>3. CASE d # op.dev
    BY <2>1, <2>3, DriveOfOther, SlackKept
  <2> QED
    BY <2>2, <2>3
<1>6. CASE WriteFailed
  <2>1. /\ relays' = relays /\ coils' \in {coils, Drive(op)}
        /\ blocked' = [blocked EXCEPT ![op.dev] = TRUE]
        /\ pc = "write" /\ pc' = "publish"
    BY <1>6 DEF WriteFailed, imageVars
  <2>2. CASE d = op.dev
    <3>1. blocked'[d] /\ coils' \subseteq coils \cup {op.chan}
      BY <1>0, <2>1, <2>2, DriveOfOther
    <3> QED
      BY <2>1, <2>2, <3>1, SlackBlocked
  <2>3. CASE d # op.dev
    <3>1. blocked'[d] = blocked[d] /\ coils' \cap Outputs(d) \subseteq coils
      BY <1>0, <2>1, <2>3, DriveOfOther
    <3> QED
      BY <2>1, <2>3, <3>1, SlackKept
  <2> QED
    BY <2>2, <2>3
<1>7. ASSUME NEW e \in Device, NEW ok \in BOOLEAN,
             ConfirmRead(e, ok) \/ PollOutputs(e, ok)
      PROVE  Slack(d)'
  <2>1. /\ coils' = coils /\ pc' = "publish" /\ pc \in {"confirm", "poll"}
        /\ IF ok THEN ReadCoils(e) ELSE relays' = relays
        /\ blocked' = [blocked EXCEPT ![e] = ~ok]
        /\ pc = "confirm" => op.dev = e
    BY <1>7 DEF ConfirmRead, PollOutputs, physVars
  <2>2. CASE d = e
    <3>1. ~ok
      BY <1>7, <2>2 DEF ReadOf
    <3>2. blocked'[d] /\ relays' = relays
      BY <1>0, <2>1, <2>2, <3>1
    <3> QED
      BY <2>1, <3>2, SlackBlocked
  <2>3. CASE d # e
    <3>1. relays' \cap Outputs(d) = relays \cap Outputs(d)
      BY <2>1, <2>3, ReadIsExact
    <3>2. blocked'[d] = blocked[d]
      BY <1>0, <2>1, <2>3
    <3> QED
      BY <2>1, <2>3, <3>1, <3>2, SlackKept
  <2> QED
    BY <2>2, <2>3
<1> QED
  BY <1>1, <1>2, <1>3, <1>4, <1>5, <1>6, <1>7 DEF Next, WorkerStep, WorldStep
-----------------------------------------------------------------------------
LEMMA SeenStep ==
  ASSUME TypeOK, TypeOK', SeenInv, [Next]_workerVars,
         wasOn' = IF WorkerPublish THEN coils' ELSE wasOn \cup coils',
         wasOff' = IF WorkerPublish THEN Channel \ coils'
                   ELSE wasOff \cup (Channel \ coils')
  PROVE  SeenInv'
<1> USE DEF SeenInv
<1>1. /\ st.relay_state \subseteq Channel /\ relays \subseteq Channel
      /\ st'.relay_state \subseteq Channel /\ relays' \subseteq Channel
  BY DEF TypeOK, SharedOK, ImageOK, BackendState
<1>2. CASE WorkerPublish
  <2>1. coils' = coils /\ relays' = relays /\ st'.relay_state = relays
    BY <1>2 DEF WorkerPublish, SharedPublish, physVars, imageVars
  <2> QED
    BY <1>2, <2>1
<1>3. CASE ~WorkerPublish
  <2>1. wasOn' = wasOn \cup coils' /\ wasOff' = wasOff \cup (Channel \ coils')
    BY <1>3
  <2>2. ASSUME NEW d \in Device, NEW ok \in BOOLEAN,
               ConfirmRead(d, ok) \/ PollOutputs(d, ok)
        PROVE  SeenInv'
    <3>1. coils' = coils /\ st' = st /\ IF ok THEN ReadCoils(d) ELSE relays' = relays
      BY <2>2 DEF ConfirmRead, PollOutputs, physVars, sharedVars
    <3>2. relays' \subseteq relays \cup coils /\ relays \ relays' \subseteq relays \ coils
      BY <3>1, ReadIsExact
    <3> QED
      BY <1>1, <2>1, <3>1, <3>2
  <2>3. CASE TaskStart
    <3>1. relays' = relays /\ (st' = st \/ Channel = {})
      BY <2>3 DEF TaskStart, imageVars
    <3> QED
      BY <1>1, <2>1, <3>1
  <2>4. CASE \/ \E d \in Device : StartWrite(d)
             \/ NothingToApply \/ WriteAcknowledged \/ WriteFailed
             \/ \E ok \in BOOLEAN : PollInputs(ok)
             \/ PollNothingLeft \/ PollRestart \/ WakeUp
    <3>1. st' = st /\ relays' = relays
      BY <2>4 DEF StartWrite, NothingToApply, WriteAcknowledged, WriteFailed,
           PollInputs, PollNothingLeft, PollRestart, WakeUp, sharedVars, imageVars
    <3> QED
      BY <1>1, <2>1, <3>1
  <2>5. CASE WorldStep \/ ClientStep \/ UNCHANGED workerVars
    <3>1. st' = st /\ relays' = relays
      BY <2>5 DEF WorldStep, PollTimer, ModulePowerCycle, InputChange, ClientStep,
           BackendSetEnabled, BackendSetOutputs, privateVars, sharedVars, imageVars,
           workerVars
    <3> QED
      BY <1>1, <2>1, <3>1
  <2> QED
    BY <1>3, <2>2, <2>3, <2>4, <2>5 DEF Next, WorkerStep
<1> QED
  BY <1>2, <1>3
-----------------------------------------------------------------------------
Inv == HistoryTypeOK /\ SlackInv /\ SeenInv

LEMMA InvCorrect == HistorySpec => [](Inv /\ ReadbackPublished)
<1>1. TypeOK /\ HistoryInit => Inv
  <2> SUFFICES ASSUME TypeOK, HistoryInit PROVE Inv
    OBVIOUS
  <2>1. relays = {} /\ st.relay_state = {}
    BY DEF HistoryInit, Init, NoState
  <2>2. coils \subseteq Channel
    BY DEF TypeOK, WorldOK
  <2> QED
    BY <2>1, <2>2 DEF HistoryInit, Inv, HistoryTypeOK, SlackInv, SeenInv
<1>2. TypeOK /\ TypeOK' /\ Inv /\ [HistoryNext]_hVars => Inv'
  <2> SUFFICES ASSUME TypeOK, TypeOK', Inv, [HistoryNext]_hVars PROVE Inv'
    OBVIOUS
  <2>1. CASE HistoryNext
    <3>1. [Next]_workerVars
      BY <2>1 DEF HistoryNext
    <3>2. coils' \subseteq Channel
      BY DEF TypeOK, WorldOK
    <3>3. HistoryTypeOK'
      BY <2>1, <3>2 DEF HistoryNext, Inv, HistoryTypeOK
    <3>4. ASSUME NEW d \in everRead' PROVE Slack(d)'
      <4>1. d \in Device
        BY <3>3 DEF HistoryTypeOK
      <4>2. CASE ReadOf(d)
        BY <4>1, <4>2, SlackRead
      <4>3. CASE ~ReadOf(d)
        <5>1. Slack(d)
          BY <2>1, <4>3 DEF HistoryNext, Inv, SlackInv
        <5> QED
          BY <3>1, <4>1, <4>3, <5>1, SlackStep
      <4> QED
        BY <4>2, <4>3
    <3>5. SeenInv'
      BY <2>1, <3>1, SeenStep DEF HistoryNext, Inv
    <3> QED
      BY <3>3, <3>4, <3>5 DEF Inv, SlackInv
  <2>2. CASE UNCHANGED hVars
    BY <2>2 DEF hVars, historyVars, workerVars, Inv, HistoryTypeOK, SlackInv, Slack,
         SeenInv
  <2> QED
    BY <2>1, <2>2
<1> QED
  BY <1>1, <1>2, HistoryIsWorker, TypeCorrect, PublicationCorrect, PTL
  DEF HistorySpec, hVars

(* Whatever is lost on the bus, one relay at most of a module that was     *)
(* read is on without the published readback saying so.                    *)
THEOREM AtMostOneHolds == HistorySpec => []AtMostOneUnreportedRelay
<1>1. Inv /\ ReadbackPublished => AtMostOneUnreportedRelay
  <2> SUFFICES ASSUME Inv, ReadbackPublished, pc # "publish", NEW d \in everRead
               PROVE  Cardinality((coils \ st.relay_state) \cap Outputs(d)) <= 1
    BY DEF AtMostOneUnreportedRelay
  <2> DEFINE hidden == (coils \ relays) \cap Outputs(d)
  <2>1. st.relay_state = relays
    BY DEF ReadbackPublished
  <2>2. \E c : hidden \subseteq {c}
    BY DEF Inv, SlackInv, Slack
  <2>3. PICK c : hidden \subseteq {c}
    BY <2>2
  <2>4. IsFiniteSet({c}) /\ Cardinality({c}) = 1
    BY FS_Singleton
  <2>5. Cardinality(hidden) <= 1
    BY <2>3, <2>4, FS_Subset
  <2> QED
    BY <2>1, <2>5
<1> QED
  BY <1>1, InvCorrect, PTL

(* The published relays change only to what they were, at some moment      *)
(* since the publication before.                                           *)
THEOREM ReportsOnlyReadbackHolds == HistorySpec => ReportsOnlyReadback
<1>1. Inv /\ [HistoryNext]_hVars =>
        [/\ st'.relay_state \ st.relay_state \subseteq wasOn
         /\ st.relay_state \ st'.relay_state \subseteq wasOff]_st
  <2> SUFFICES ASSUME Inv, Next, st' # st
               PROVE  /\ st'.relay_state \ st.relay_state \subseteq wasOn
                      /\ st.relay_state \ st'.relay_state \subseteq wasOff
    BY DEF HistoryNext, hVars, workerVars
  <2>1. CASE WorkerPublish
    BY <2>1 DEF WorkerPublish, SharedPublish, Inv, SeenInv
  <2>2. CASE TaskStart
    <3>1. st'.relay_state = {} /\ Channel = {}
      BY <2>2 DEF TaskStart, SharedPublish
    <3>2. st.relay_state \subseteq Channel
      BY DEF Inv, HistoryTypeOK, TypeOK, SharedOK, BackendState
    <3> QED
      BY <3>1, <3>2
  <2>3. CASE ~WorkerPublish /\ ~TaskStart
    BY <2>3 DEF Next, WorkerStep, WorldStep, ClientStep, StartWrite,
         NothingToApply, WriteAcknowledged, WriteFailed, ConfirmRead, PollOutputs,
         PollInputs, PollNothingLeft, PollRestart, WakeUp, PollTimer,
         ModulePowerCycle, InputChange, BackendSetEnabled, BackendSetOutputs,
         sharedVars
  <2> QED
    BY <2>1, <2>2, <2>3
<1> QED
  BY <1>1, InvCorrect, PTL DEF HistorySpec, hVars, ReportsOnlyReadback
===============================================================================
