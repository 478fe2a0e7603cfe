----------------------------- MODULE Rs485Worker -----------------------------
(***************************************************************************)
(* The RS-485 discrete backend (main/rs485_discrete.c): a worker task that *)
(* owns the UART and drives two Modbus modules, the state s_bus it shares  *)
(* with the comm task under one mutex, and the physical relays.            *)
(*                                                                         *)
(* Each critical section of s_bus.lock is one atomic step, and so is each  *)
(* Modbus transaction, with every outcome the wire can produce.  Between   *)
(* any two steps the comm task may run a backend operation.  A relay or    *)
(* input bitmap is a set of channel numbers; Waveshare relays come first.  *)
(***************************************************************************)
EXTENDS Integers, FiniteSets

CONSTANTS
  WaveshareOutputs,  \* relays discovered on the Waveshare module
  M31Outputs,        \* relays discovered on the M31 module
  M31Inputs,         \* inputs discovered on the M31 module
  LinkFailures       \* RS485_LINK_FAILURES

(* The boot probe's limits; inputs are only probed once M31 relays are     *)
(* found.                                                                  *)
ASSUME PopulationAssumption ==
  /\ WaveshareOutputs \in 0..32
  /\ M31Outputs \in 0..32
  /\ M31Inputs \in 0..1
  /\ M31Inputs > 0 => M31Outputs > 0

ASSUME LinkFailuresAssumption == LinkFailures \in Nat \ {0}

VARIABLES
  \* s_bus, shared with the comm task
  enabled, desired,
  st,          \* s_bus.state: the last published readback
  notified,    \* the worker's task notification is pending
  \* rs485_worker_t, private to the worker
  relays,      \* waveshare_relays and m31_relays in one image
  inputs,      \* m31_input_state
  inputOk,     \* m31_input_ok
  blocked,     \* *_write_blocked, per module
  failures,    \* *_link.failures, per module
  online,      \* *_link.online, per module
  \* control of the worker
  pc, phase,
  op,          \* the FC05 write under way
  pollDue,     \* next_poll has been reached
  \* the physical world
  coils, din

sharedVars == <<enabled, desired, st, notified>>
imageVars  == <<relays, inputs, inputOk>>
linkVars   == <<blocked, failures, online>>
physVars   == <<coils, din>>
workerVars == <<enabled, desired, st, notified, relays, inputs, inputOk,
                blocked, failures, online, pc, phase, op, pollDue, coils, din>>
-----------------------------------------------------------------------------
Device == {"waveshare", "m31"}

Outputs(d) ==
  IF d = "waveshare" THEN 0..(WaveshareOutputs - 1)
  ELSE WaveshareOutputs..(WaveshareOutputs + M31Outputs - 1)

Channel == 0..(WaveshareOutputs + M31Outputs - 1)
Input   == 0..(M31Inputs - 1)

BackendState == [relay_state : SUBSET Channel, input_state : SUBSET Input,
                 input_valid : BOOLEAN, link : BOOLEAN]

NoState == [relay_state |-> {}, input_state |-> {},
            input_valid |-> FALSE, link |-> FALSE]

(* poll_phase_t *)
PollWaveshareOutputs == 0
PollM31Outputs       == 1
PollM31Inputs        == 2
PollComplete         == 3

NoWrite == [dev |-> "waveshare", chan |-> 0, on |-> FALSE]

(* At boot the relays may still be in any position: a reset of this card   *)
(* does not reset the modules.                                             *)
Init ==
  /\ enabled = FALSE
  /\ desired = {}
  /\ st = NoState
  /\ notified = FALSE
  /\ relays = {}
  /\ inputs = {}
  /\ inputOk = FALSE
  /\ blocked = [d \in Device |-> FALSE]
  /\ failures = [d \in Device |-> 0]
  /\ online = [d \in Device |-> FALSE]
  /\ pc = "start"
  /\ phase = PollWaveshareOutputs
  /\ op = NoWrite
  /\ pollDue = TRUE
  /\ coils \in SUBSET Channel
  /\ din \in SUBSET Input
-----------------------------------------------------------------------------
(* Critical sections of s_bus.lock *)

SharedTarget == IF enabled THEN desired ELSE {}

(* Mutant: losing the link keeps the command. *)
SharedPublishKeepsCommand(image, sampled, valid, link) ==
  /\ desired' = desired
  /\ st' = [relay_state |-> image, input_state |-> sampled,
            input_valid |-> valid, link |-> link]

(* Losing the link while enabled freezes the last readback as the command. *)
SharedPublish(image, sampled, valid, link) ==
  /\ desired' = IF st.link /\ ~link /\ enabled THEN image ELSE desired
  /\ st' = [relay_state |-> image, input_state |-> sampled,
            input_valid |-> valid, link |-> link]

BackendSetEnabled(e) ==
  /\ enabled' = e
  /\ desired' = {}
  /\ notified' = (notified \/ pc # "exited")
  /\ UNCHANGED st

(* Mutant: a command is stored without looking at the published link. *)
BackendSetOutputsUnchecked(mask, values) ==
  /\ desired' = IF enabled THEN (desired \ mask) \cup (values \cap mask)
                ELSE desired
  /\ notified' = (notified \/ (desired' # desired /\ pc # "exited"))
  /\ UNCHANGED <<enabled, st>>

BackendSetOutputs(mask, values) ==
  /\ desired' = IF enabled /\ st.link
                THEN (desired \ mask) \cup (values \cap mask)
                ELSE desired
  /\ notified' = (notified \/ (desired' # desired /\ pc # "exited"))
  /\ UNCHANGED <<enabled, st>>
-----------------------------------------------------------------------------
(* Parts of the worker's steps *)

(* Mutant: the failure counter is not capped. *)
UpdateLinkUncapped(d, ok) ==
  /\ failures' = [failures EXCEPT ![d] = IF ok THEN 0 ELSE @ + 1]
  /\ online' = [online EXCEPT ![d] =
                  ok \/ (@ /\ failures'[d] < LinkFailures)]

(* Mutant: a link that went down stays down. *)
UpdateLinkLatched(d, ok) ==
  /\ failures' = [failures EXCEPT ![d] =
                    IF @ = LinkFailures THEN @ ELSE IF ok THEN 0 ELSE @ + 1]
  /\ online' = [online EXCEPT ![d] =
                  (ok \/ @) /\ failures'[d] < LinkFailures]

UpdateLink(d, ok) ==
  /\ failures' = [failures EXCEPT ![d] =
                    IF ok THEN 0
                    ELSE IF @ < LinkFailures THEN @ + 1 ELSE @]
  /\ online' = [online EXCEPT ![d] =
                  ok \/ (@ /\ failures'[d] < LinkFailures)]

WorkerLink == \E d \in Device : Outputs(d) # {} /\ online[d]

InputValid == M31Inputs > 0 /\ online["m31"] /\ inputOk

(* FC01 of all the relays of d replaces its part of the image. *)
ReadCoils(d) ==
  relays' = (relays \ Outputs(d)) \cup (coils \cap Outputs(d))

Changed(d, target) ==
  {c \in Outputs(d) : (c \in relays) # (c \in target)}

Writable(d, target) ==
  Changed(d, target) # {} /\ online[d] /\ ~blocked[d]

Drive(w) == IF w.on THEN coils \cup {w.chan} ELSE coils \ {w.chan}
-----------------------------------------------------------------------------
(* Steps of rs485_task *)

(* Without relays there is nothing to serve: the task publishes link-down  *)
(* and deletes itself.                                                     *)
TaskStart ==
  /\ pc = "start"
  /\ IF Channel = {}
     THEN SharedPublish({}, {}, FALSE, FALSE) /\ pc' = "exited"
     ELSE pc' = "apply" /\ UNCHANGED <<desired, st>>
  /\ UNCHANGED <<enabled, notified, imageVars, linkVars, phase, op, pollDue,
                 physVars>>

(* apply_pending_output samples the target and picks one changed relay:    *)
(* Waveshare before M31, lowest channel first.                             *)
StartWrite(d) ==
  /\ pc = "apply"
  /\ Writable(d, SharedTarget)
  /\ d = "m31" => ~Writable("waveshare", SharedTarget)
  /\ \E c \in Changed(d, SharedTarget) :
       /\ \A e \in Changed(d, SharedTarget) : c <= e
       /\ op' = [dev |-> d, chan |-> c, on |-> c \in SharedTarget]
  /\ pc' = "write"
  /\ UNCHANGED <<sharedVars, imageVars, linkVars, phase, pollDue, physVars>>

NothingToApply ==
  /\ pc = "apply"
  /\ \A d \in Device : ~Writable(d, SharedTarget)
  /\ pc' = "poll"
  /\ UNCHANGED <<sharedVars, imageVars, linkVars, phase, op, pollDue, physVars>>

(* FC05, acknowledged. *)
WriteAcknowledged ==
  /\ pc = "write"
  /\ coils' = Drive(op)
  /\ pc' = "confirm"
  /\ UNCHANGED <<sharedVars, imageVars, linkVars, phase, op, pollDue, din>>

(* Mutants of WriteFailed, which differ in what follows the lost reply. *)
FailedWrite ==
  /\ pc = "write"
  /\ coils' \in {coils, Drive(op)}
  /\ UpdateLink(op.dev, FALSE)
  /\ UNCHANGED <<sharedVars, inputs, inputOk, phase, pollDue, din>>

WriteFailedRetries ==  \* the same write is repeated
  FailedWrite /\ UNCHANGED <<relays, blocked, op, pc>>

WriteFailedUnblocked ==  \* the module may be written again before it is read
  FailedWrite /\ op' = NoWrite /\ pc' = "publish" /\ UNCHANGED <<relays, blocked>>

WriteFailedEchoes ==  \* the image takes the command for granted
  /\ FailedWrite
  /\ blocked' = [blocked EXCEPT ![op.dev] = TRUE]
  /\ relays' = IF op.on THEN relays \cup {op.chan} ELSE relays \ {op.chan}
  /\ op' = NoWrite
  /\ pc' = "publish"

(* FC05, not acknowledged: the request was lost, or it took effect and its *)
(* reply was lost or damaged.                                              *)
WriteFailed ==
  /\ pc = "write"
  /\ coils' \in {coils, Drive(op)}
  /\ blocked' = [blocked EXCEPT ![op.dev] = TRUE]
  /\ UpdateLink(op.dev, FALSE)
  /\ op' = NoWrite
  /\ pc' = "publish"
  /\ UNCHANGED <<sharedVars, imageVars, phase, pollDue, din>>

(* The FC01 readback that confirms an acknowledged write. *)
ConfirmRead(d, ok) ==
  /\ pc = "confirm"
  /\ d = op.dev
  /\ IF ok THEN ReadCoils(d) ELSE UNCHANGED relays
  /\ blocked' = [blocked EXCEPT ![d] = ~ok]
  /\ UpdateLink(d, ok)
  /\ op' = NoWrite
  /\ pc' = "publish"
  /\ UNCHANGED <<sharedVars, inputs, inputOk, phase, pollDue, physVars>>

WorkerPublish ==
  /\ pc = "publish"
  /\ SharedPublish(relays, inputs, InputValid, WorkerLink)
  /\ pc' = "apply"
  /\ UNCHANGED <<enabled, notified, imageVars, linkVars, phase, op, pollDue,
                 physVars>>

(* The phase poll_worker reaches from p, and whether it steps over the     *)
(* input sample on the way, which marks the inputs unread.                 *)
Skipped(p) ==
  \/ p = PollWaveshareOutputs /\ WaveshareOutputs = 0
  \/ p = PollM31Outputs /\ M31Outputs = 0
  \/ p = PollM31Inputs /\ (M31Inputs = 0 \/ ~online["m31"])

Reaches(p, q) ==
  /\ p <= q
  /\ \A r \in p..(q - 1) : Skipped(r)
  /\ ~Skipped(q)

(* Mutant: a successful poll does not lift the block on writes. *)
PollOutputsKeepsBlock(d, ok) ==
  LET q == IF d = "waveshare" THEN PollWaveshareOutputs ELSE PollM31Outputs
  IN  /\ pc = "poll"
      /\ Reaches(phase, q)
      /\ IF ok THEN ReadCoils(d) ELSE UNCHANGED relays
      /\ blocked' = [blocked EXCEPT ![d] = @ \/ ~ok]
      /\ UpdateLink(d, ok)
      /\ phase' = q + 1
      /\ pc' = "publish"
      /\ UNCHANGED <<sharedVars, inputs, inputOk, op, pollDue, physVars>>

(* Mutant: only a successful poll is published. *)
PollOutputsPublishesSuccess(d, ok) ==
  LET q == IF d = "waveshare" THEN PollWaveshareOutputs ELSE PollM31Outputs
  IN  /\ pc = "poll"
      /\ Reaches(phase, q)
      /\ IF ok THEN ReadCoils(d) ELSE UNCHANGED relays
      /\ blocked' = [blocked EXCEPT ![d] = ~ok]
      /\ UpdateLink(d, ok)
      /\ phase' = q + 1
      /\ pc' = IF ok THEN "publish" ELSE "apply"
      /\ UNCHANGED <<sharedVars, inputs, inputOk, op, pollDue, physVars>>

PollOutputs(d, ok) ==
  LET q == IF d = "waveshare" THEN PollWaveshareOutputs ELSE PollM31Outputs
  IN  /\ pc = "poll"
      /\ Reaches(phase, q)
      /\ IF ok THEN ReadCoils(d) ELSE UNCHANGED relays
      /\ blocked' = [blocked EXCEPT ![d] = ~ok]
      /\ UpdateLink(d, ok)
      /\ phase' = q + 1
      /\ pc' = "publish"
      /\ UNCHANGED <<sharedVars, inputs, inputOk, op, pollDue, physVars>>

PollInputs(ok) ==
  /\ pc = "poll"
  /\ Reaches(phase, PollM31Inputs)
  /\ inputs' = IF ok THEN din ELSE inputs
  /\ inputOk' = ok
  /\ phase' = PollComplete
  /\ pollDue' = FALSE
  /\ pc' = "publish"
  /\ UNCHANGED <<sharedVars, relays, linkVars, op, physVars>>

(* Every remaining phase was skipped: the cycle ends without publishing. *)
PollNothingLeft ==
  /\ pc = "poll"
  /\ phase < PollComplete
  /\ Reaches(phase, PollComplete)
  /\ inputOk' = FALSE
  /\ phase' = PollComplete
  /\ pollDue' = FALSE
  /\ pc' = "apply"
  /\ UNCHANGED <<sharedVars, relays, inputs, linkVars, op, physVars>>

PollRestart ==
  /\ pc = "poll"
  /\ phase = PollComplete
  /\ pollDue
  /\ phase' = PollWaveshareOutputs
  /\ pc' = "apply"
  /\ UNCHANGED <<sharedVars, imageVars, linkVars, op, pollDue, physVars>>

(* ulTaskNotifyTake before next_poll: a notification ends the wait.  When  *)
(* it times out instead, PollRestart is what follows.                      *)
WakeUp ==
  /\ pc = "poll"
  /\ phase = PollComplete
  /\ ~pollDue
  /\ notified
  /\ notified' = FALSE
  /\ pc' = "apply"
  /\ UNCHANGED <<enabled, desired, st, imageVars, linkVars, phase, op, pollDue,
                 physVars>>

WorkerStep ==
  \/ TaskStart
  \/ \E d \in Device : StartWrite(d)
  \/ NothingToApply
  \/ WriteAcknowledged
  \/ WriteFailed
  \/ \E d \in Device, ok \in BOOLEAN : ConfirmRead(d, ok)
  \/ WorkerPublish
  \/ \E d \in Device, ok \in BOOLEAN : PollOutputs(d, ok)
  \/ \E ok \in BOOLEAN : PollInputs(ok)
  \/ PollNothingLeft
  \/ PollRestart
  \/ WakeUp
-----------------------------------------------------------------------------
(* The world around the worker *)

PollTimer ==
  /\ phase = PollComplete
  /\ ~pollDue
  /\ pollDue' = TRUE
  /\ UNCHANGED <<sharedVars, imageVars, linkVars, pc, phase, op, physVars>>

(* A module that loses its supply comes back with its relays released. *)
ModulePowerCycle(d) ==
  /\ coils \cap Outputs(d) # {}
  /\ coils' = coils \ Outputs(d)
  /\ UNCHANGED <<sharedVars, imageVars, linkVars, pc, phase, op, pollDue, din>>

InputChange ==
  /\ din' \in SUBSET Input
  /\ UNCHANGED <<sharedVars, imageVars, linkVars, pc, phase, op, pollDue, coils>>

WorldStep ==
  \/ PollTimer
  \/ \E d \in Device : ModulePowerCycle(d)
  \/ InputChange

privateVars == <<relays, inputs, inputOk, blocked, failures, online, pc, phase,
                 op, pollDue, coils, din>>

(* The backend operations, called by the comm task at any time. *)
ClientStep ==
  \/ \E e \in BOOLEAN : BackendSetEnabled(e) /\ UNCHANGED privateVars
  \/ \E mask \in SUBSET Channel : \E values \in SUBSET mask :
       BackendSetOutputs(mask, values) /\ UNCHANGED privateVars

Next == WorkerStep \/ WorldStep \/ ClientStep

Spec == Init /\ [][Next]_workerVars

(***************************************************************************)
(* The worker is a task that never blocks for ever (every wait has a time  *)
(* out), so its steps are weakly fair.  Strong fairness of the good        *)
(* outcome of each transaction says the bus is not dead for ever; it       *)
(* leaves any finite run of failures, and failures without end.            *)
(***************************************************************************)
Fairness ==
  /\ WF_workerVars(WorkerStep)
  /\ WF_workerVars(PollTimer)
  /\ SF_workerVars(WriteAcknowledged)
  /\ \A d \in Device : /\ SF_workerVars(ConfirmRead(d, TRUE))
                       /\ SF_workerVars(PollOutputs(d, TRUE))

FairSpec == Spec /\ Fairness
-----------------------------------------------------------------------------
SharedOK ==
  /\ enabled \in BOOLEAN
  /\ desired \in SUBSET Channel
  /\ st \in BackendState
  /\ notified \in BOOLEAN

ImageOK ==
  /\ relays \in SUBSET Channel
  /\ inputs \in SUBSET Input
  /\ inputOk \in BOOLEAN

LinkOK ==
  /\ blocked \in [Device -> BOOLEAN]
  /\ failures \in [Device -> 0..LinkFailures]
  /\ online \in [Device -> BOOLEAN]

ControlOK ==
  /\ pc \in {"start", "apply", "write", "confirm", "publish", "poll", "exited"}
  /\ phase \in PollWaveshareOutputs..PollComplete
  /\ op \in [dev : Device, chan : Nat, on : BOOLEAN]
  /\ pc \in {"write", "confirm"} => op.chan \in Outputs(op.dev)
  /\ pollDue \in BOOLEAN

WorldOK ==
  /\ coils \in SUBSET Channel
  /\ din \in SUBSET Input

TypeOK == SharedOK /\ ImageOK /\ LinkOK /\ ControlOK /\ WorldOK

(* While the link is reported down, nothing waits to be driven at          *)
(* reconnection but relays that were on in the last readback: a command    *)
(* received during the outage is dropped and one received before it is     *)
(* forgotten (shared_publish, backend_set_outputs; host_tests/tests/       *)
(* test_discrete.c:289-290).                                               *)
NoStaleReplay ==
  enabled /\ ~st.link => desired \subseteq st.relay_state

(* Nothing the worker read is kept from the comm task: outside a           *)
(* publication the published link and relays are those of the worker, and  *)
(* an image that waits to be published while the link stays down is the    *)
(* one already published (every update_link is followed by a               *)
(* worker_publish, and a successful read of a module puts it online).      *)
ReadbackPublished ==
  IF pc = "publish"
  THEN ~st.link /\ ~WorkerLink => st.relay_state = relays
  ELSE st.link = WorkerLink /\ st.relay_state = relays

(* The worker implements the promise of RelayBank: an energising write is  *)
(* started only for a relay wanted at that moment of an enabled period,    *)
(* each such write is over after one attempt, whether it was acknowledged  *)
(* or not, so that at most one relay can still close after a disable, and  *)
(* commands are replaced by the readback exactly when the link is lost.    *)
Bank == INSTANCE RelayBank WITH
          reported <- st.relay_state,
          link     <- st.link,
          armed    <- IF pc = "write" /\ op.on THEN {op.chan} ELSE {}

ImplementsRelayBank == Bank!Spec

(* Once disabled (boot, DISCRETE_SETUP(enable=false), session loss), and   *)
(* unless it is enabled again, the card turns every relay physically off,  *)
(* whatever transactions fail on the way and whatever position the relays  *)
(* were in at boot (README "Outputs are fail-safe off", "The worker keeps  *)
(* retrying all-off independently of Ethernet").                           *)
FailSafeOff == ~enabled ~> (enabled \/ coils = {})

(* A command that stands is driven out, after any number of failed         *)
(* transactions, blocked writes and lost links, and again after each power *)
(* cycle of a module, provided the modules stop power cycling: one that    *)
(* resets between each acknowledged write and its confirmation keeps       *)
(* apply_pending_output busy and the other module waiting for ever.        *)
SupplyIsStable == <>[][\A d \in Device : ~ModulePowerCycle(d)]_workerVars

CommandIsDriven ==
  SupplyIsStable =>
    \A D \in SUBSET Channel :
      <>[](enabled /\ desired = D) => <>[](coils = D)
=============================================================================
