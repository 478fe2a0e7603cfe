---------------------------- MODULE DiscreteGlue ----------------------------
(***************************************************************************)
(* The discrete wire state machine (components/lccore/discrete_glue.c)     *)
(* running in the comm task on top of the RS-485 backend.                  *)
(*                                                                         *)
(* A handler that enters the backend's critical section twice is two steps *)
(* here (commPc), because the worker may publish in between; every other   *)
(* handler enters it once and is one step.  Clocks are abstract: the       *)
(* disable time-out expires at any moment of a disable, and the heartbeat  *)
(* may be due in any turn of the loop.  Calls of reset, setup and set come *)
(* from comm_core in any order.                                            *)
(***************************************************************************)
EXTENDS Rs485Worker

VARIABLES
  \* discrete_t g_disc
  gEnabled,     \* enabled
  disabling,    \* waiting for the all-off confirmation
  disableDue,   \* DISCRETE_DISABLE_TIMEOUT_MS have passed since disable_started_ms
  hw,           \* the last snapshot of the backend
  hwSeen,
  pending,      \* state_pending
  \* the comm task
  commPc,       \* "idle", or between the two backend calls of "setup" or "set"
  hostKnown,    \* a UDP endpoint is latched, so a datagram can be sent
  \* history
  sent          \* the last DISCRETE_STATE sent in this enabled period: {} or {state}

discVars  == <<gEnabled, disabling, disableDue, hw, hwSeen, pending>>
glueVars  == <<discVars, commPc, hostKnown, sent>>
vars      == <<workerVars, glueVars>>

GlueInit ==
  /\ Init
  /\ gEnabled = FALSE
  /\ disabling = FALSE
  /\ disableDue = FALSE
  /\ hw = NoState
  /\ hwSeen = FALSE
  /\ pending = FALSE
  /\ commPc = "idle"
  /\ hostKnown = FALSE
  /\ sent = {}
-----------------------------------------------------------------------------
(* What get_state returns, with the inputs marked invalid without a link.  *)
Snapshot == [st EXCEPT !.input_valid = @ /\ st.link]

(* refresh_hardware takes the snapshot; a change makes a STATE pending     *)
(* while the subsystem is enabled.                                         *)
TakeSnapshot ==
  /\ hw' = Snapshot
  /\ hwSeen' = TRUE

(* Mutant: only a change of the relays is worth a STATE. *)
PendingAfterRelayChange ==
  pending \/ (gEnabled /\ (~hwSeen \/ Snapshot.relay_state # hw.relay_state))

PendingAfterRefresh == pending \/ (gEnabled /\ (~hwSeen \/ Snapshot # hw))

(* Mutant of EmitState: a send that fails is forgotten. *)
EmitStateOnce(p) ==
  \/ hostKnown /\ sent' = {Snapshot} /\ pending' = FALSE
  \/ pending' = FALSE /\ UNCHANGED sent

(* emit_state, with p the pending flag it finds.  A send that fails, for   *)
(* want of a latched host or in the stack, leaves everything as it was;    *)
(* with no channel at all there is nothing to send.                        *)
EmitState(p) ==
  IF Channel \cup Input = {}
  THEN pending' = FALSE /\ UNCHANGED sent
  ELSE \/ hostKnown /\ sent' = {Snapshot} /\ pending' = FALSE
       \/ pending' = p /\ UNCHANGED sent
-----------------------------------------------------------------------------
(* Mutant: the reset leaves the backend enabled. *)
GlueResetOnly ==
  /\ commPc = "idle"
  /\ gEnabled' = FALSE
  /\ disabling' = FALSE
  /\ pending' = FALSE
  /\ disableDue' = FALSE
  /\ sent' = {}
  /\ UNCHANGED <<workerVars, hw, hwSeen, commPc, hostKnown>>

(* discrete_glue_reset: a control session starts or ends. *)
GlueReset ==
  /\ commPc = "idle"
  /\ BackendSetEnabled(FALSE)
  /\ gEnabled' = FALSE
  /\ disabling' = FALSE
  /\ pending' = FALSE
  /\ disableDue' = FALSE
  /\ sent' = {}
  /\ UNCHANGED <<privateVars, hw, hwSeen, commPc, hostKnown>>

(* discrete_glue_setup(enable): first the backend, then the snapshot. *)
SetupEnable ==
  /\ commPc = "idle"
  /\ BackendSetEnabled(TRUE)
  /\ gEnabled' = TRUE
  /\ disabling' = FALSE
  /\ disableDue' = FALSE
  /\ sent' = IF gEnabled THEN sent ELSE {}
  /\ commPc' = "setup"
  /\ UNCHANGED <<privateVars, hw, hwSeen, pending, hostKnown>>

SetupBaseline ==
  /\ commPc = "setup"
  /\ TakeSnapshot
  /\ pending' = TRUE
  /\ commPc' = "idle"
  /\ UNCHANGED <<workerVars, gEnabled, disabling, disableDue,
                 hostKnown, sent>>

(* discrete_glue_setup(disable); a repeated disable restarts the time-out. *)
SetupDisable ==
  /\ commPc = "idle"
  /\ BackendSetEnabled(FALSE)
  /\ disabling' = gEnabled
  /\ disableDue' = FALSE
  /\ pending' = (pending \/ gEnabled)
  /\ UNCHANGED <<privateVars, gEnabled, hw, hwSeen, commPc,
                 hostKnown, sent>>

(* discrete_glue_set up to its link check, then the backend operation, for *)
(* any mask that keeps a channel of the bank.                              *)
SetChecked ==
  /\ commPc = "idle"
  /\ Channel # {}
  /\ gEnabled
  /\ ~disabling
  /\ TakeSnapshot
  /\ pending' = PendingAfterRefresh
  /\ commPc' = IF Snapshot.link THEN "set" ELSE "idle"
  /\ UNCHANGED <<workerVars, gEnabled, disabling, disableDue,
                 hostKnown, sent>>

SetCommitted ==
  /\ commPc = "set"
  /\ \E mask \in SUBSET Channel \ {{}} : \E values \in SUBSET mask :
       BackendSetOutputs(mask, values)
  /\ commPc' = "idle"
  /\ UNCHANGED <<privateVars, discVars, hostKnown, sent>>

(* discrete_glue_loop *)
OffConfirmed == Snapshot.link /\ Snapshot.relay_state = {}

(* Mutant: only a confirmed all-off ends the disable. *)
LoopFinishConfirmed ==
  /\ commPc = "idle"
  /\ gEnabled
  /\ disabling
  /\ OffConfirmed
  /\ TakeSnapshot
  /\ EmitState(TRUE)
  /\ gEnabled' = FALSE
  /\ disabling' = FALSE
  /\ disableDue' = FALSE
  /\ UNCHANGED <<workerVars, commPc, hostKnown>>

LoopFinish ==
  /\ commPc = "idle"
  /\ gEnabled
  /\ disabling
  /\ OffConfirmed \/ disableDue
  /\ TakeSnapshot
  /\ EmitState(TRUE)
  /\ gEnabled' = FALSE
  /\ disabling' = FALSE
  /\ disableDue' = FALSE
  /\ UNCHANGED <<workerVars, commPc, hostKnown>>

LoopReport ==
  /\ commPc = "idle"
  /\ gEnabled
  /\ disabling => ~(OffConfirmed \/ disableDue)
  /\ TakeSnapshot
  /\ \E heartbeatDue \in BOOLEAN :
       IF PendingAfterRefresh \/ heartbeatDue
       THEN EmitState(PendingAfterRefresh)
       ELSE UNCHANGED <<pending, sent>>
  /\ UNCHANGED <<workerVars, gEnabled, disabling, disableDue, commPc, hostKnown>>

GlueLoop == LoopFinish \/ LoopReport

GlueStep ==
  \/ GlueReset
  \/ SetupEnable \/ SetupBaseline \/ SetupDisable
  \/ SetChecked \/ SetCommitted
  \/ GlueLoop
-----------------------------------------------------------------------------
(* Clocks, and the endpoint that comm_task latches and forgets. *)
DisableTimeout ==
  /\ disabling
  /\ ~disableDue
  /\ disableDue' = TRUE
  /\ UNCHANGED <<workerVars, gEnabled, disabling, hw, hwSeen, pending,
                 commPc, hostKnown, sent>>

HostEndpoint ==
  /\ commPc = "idle"
  /\ hostKnown' = ~hostKnown
  /\ UNCHANGED <<workerVars, discVars, commPc, sent>>

GlueNext ==
  \/ (WorkerStep \/ WorldStep) /\ UNCHANGED glueVars
  \/ GlueStep
  \/ DisableTimeout \/ HostEndpoint

GlueSpec == GlueInit /\ [][GlueNext]_vars

(***************************************************************************)
(* comm_task runs discrete_glue_loop in every turn of its select loop, and *)
(* a handler it has entered returns; the clocks run.  A datagram to a      *)
(* latched host is not refused for ever.                                   *)
(***************************************************************************)
SendsState == LoopReport /\ PendingAfterRefresh /\ ~pending'

GlueFairness ==
  /\ WF_vars(GlueLoop)
  /\ WF_vars(SetupBaseline)
  /\ WF_vars(SetCommitted)
  /\ WF_vars(DisableTimeout)
  /\ SF_vars(SendsState)

GlueFairSpec == GlueSpec /\ GlueFairness
-----------------------------------------------------------------------------
GlueTypeOK ==
  /\ TypeOK
  /\ gEnabled \in BOOLEAN
  /\ disabling \in BOOLEAN
  /\ disableDue \in BOOLEAN
  /\ hw \in BackendState
  /\ hwSeen \in BOOLEAN
  /\ pending \in BOOLEAN
  /\ commPc \in {"idle", "setup", "set"}
  /\ hostKnown \in BOOLEAN
  /\ sent \in SUBSET BackendState

(* The two layers never disagree about whether relays may be driven: the   *)
(* backend is enabled exactly while the glue accepts writes, through every *)
(* order of sessions, setups, and time-outs of the disable wait.           *)
LayersAgree == enabled <=> (gEnabled /\ ~disabling)

(* Nothing the glue has seen is kept from the host: with no STATE pending, *)
(* the last STATE sent is the snapshot the glue works with.  A send that   *)
(* fails must therefore leave the STATE pending, and a change seen by any  *)
(* handler must make one pending.                                          *)
HostIsUpToDate ==
  /\ Channel \cup Input # {}
  /\ gEnabled
  /\ ~pending
  /\ commPc # "setup"
  => sent = {hw}

(* A disable does not wait for ever for relays that cannot be confirmed    *)
(* off, unless the host keeps disabling.                                   *)
DisableEnds ==
  <>[][~SetupDisable]_vars => (disabling ~> ~disabling)

(* A backend state that stands is what the host ends up with, through lost *)
(* sends and without waiting for a heartbeat, as long as the subsystem     *)
(* stays enabled.                                                          *)
HostLearns ==
  <>[]hostKnown =>
    \A s \in BackendState :
      <>[](gEnabled /\ ~disabling /\ Snapshot = s) => <>[](sent = {s})

(* discrete_glue.c:158 "send confirmed all-off readback": when the disable *)
(* ends by confirmation rather than by time-out, every relay is off.       *)
ConfirmedOffIsOff ==
  [][LoopFinish /\ ~disableDue => coils = {}]_vars
=============================================================================
