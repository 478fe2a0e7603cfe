# TLA+ verification of esp32-aes-gw

The firmware of an ESP32-S3 I/O card: a control host reaches it over Ethernet
(one TCP connection for requests, one UDP socket for data) after finding it by
SSDP, it drives relays on two RS-485 Modbus modules, plays a USB joystick
towards a PC, keeps tables of ARINC 429 channels, ships its log lines over UDP,
and updates itself through a recovery build. This directory
models the parts in which order, failure and time matter, checks them with TLC
and proves the main results with TLAPS.

Paths are relative to the repository: `main/...` stands for `src/main/...`,
`lccore/...` for `src/components/lccore/...`.

## 1. The system

### Components

| component | code | state it keeps | operations |
|---|---|---|---|
| RS-485 discrete backend | `main/rs485_discrete.c` | `s_bus` (enabled, desired, published state), shared under one mutex; the worker's images, link counters, write blocks, poll phase | `backend_set_enabled`, `backend_set_outputs`, `backend_get_state`; the worker task |
| Discrete wire state machine | `lccore/discrete_glue.c` | `g_disc`: enabled, disabling and its clock, last snapshot, pending STATE | reset, setup, set, loop |
| Control session | `main/comm_task.c`, `lccore/comm_core.c` | sockets, the one client, the reassembly buffer, the log threshold | the comm loop: accept, read, dispatch, status |
| Firmware update | `lccore/fwupdate_core.c`, `main/fwup_port.c` | `g_fw`; the `esp_ota` handle; flash | START, STEP, FINISH, watchdog, session reset |
| Boot selection | `main/ota_ops.c` | `s_boot_set_this_session`; otadata in flash | enter recovery, reboot, mark valid |
| Log channel | `lccore/lc_log.c` | ring, fill, drop counter, sequence number, `g_in_log` | emit, flush |
| USB joystick | `lccore/hid_glue.c`, `main/hid_usb.c` | enabled, axes, pending STATE; the latched report and its dirty flag | reset, setup, set, loop; TinyUSB callbacks |
| Wire framing | `lccore/comm_core.c`, `proto.h` | the offset of the scan | build a frame, scan a buffer for frames |
| ARINC 429 tables | `lccore/comm_core.c`, `lccore/arinc_glue.c` | `g_chnl` and, apart from it, `g_tx` with its labels; no transmitter behind them | the six batch commands; the reset at session edges |
| Boot probe | `main/rs485_discrete.c` | the three counts of `s_bus`, fixed until the next boot | `probe_count`, `rs485_discrete_init` |
| Capability blob | `lccore/capabilities.c`, `lccore/comm_core.c` | the descriptor, fixed until the next boot | build, read a chunk |
| Network and discovery | `main/net_eth.c`, `main/ssdp_task.c`, `lccore/ssdp_msg.c` | `s_got_ip`; sockets, the bound address, group membership, timers | event handlers; `ssdp_task`; `http_desc_task` |
| Fletcher-32, identity, find-me, port layer, start-up | `lccore/*.c`, `main/*.c` | constants of one boot | pure functions and I/O |

### How they interact

- **comm task** (`main/comm_task.c`): one loop calls everything but the bus.
  A turn accepts, reads TCP and dispatches, reads UDP, runs the loops of the
  glue layers, the log flush, the status report, the firmware watchdog. A
  *failed TCP send* inside a handler drops the client at once and calls
  `comm_core_session(false)`, which resets every subsystem, underneath the
  dispatcher that is still iterating over its buffer.
- **RS-485 worker**: the only other task with control logic. It meets the comm
  task in `s_bus` alone, in short critical sections and one task notification;
  the bus transactions run outside the lock and take up to hundreds of ms.
- **USB task**: TinyUSB callbacks set the dirty flag of the report latch while
  the comm task is in the middle of handing a report over.
- **event loop, ssdp_task, http_desc_task**: the event loop sets and clears
  `s_got_ip`; the two discovery tasks and the comm task read it, and the address
  of the interface itself, at moments of their own. Nothing orders the two, and
  losing a lease clears the address without any event.
- **start-up** (`app_main`): the probe fixes the population, the descriptor is
  built from it, then the network starts. What the host reads of the card's
  ports is therefore what answered the probe of this boot.
- **both sockets** feed the same scanner and dispatcher; the source decides what
  a command may do, and a PING on the datagram socket moves the endpoint the
  card sends to.
- **any task** may log; the ring is shared, and its flush takes the lock once
  per record.
- **flash** (ota_0, otadata) is what survives a restart, and restarts come at
  any moment.

### What is hard, and what makes each part correct

| component | hard behaviour | correctness |
|---|---|---|
| backend | the target changes while a write is on the wire; lost replies leave a relay unknown; modules drop out and power cycle | reported = read; nothing energised unless wanted in an enabled period; nothing stale replayed after an outage; all relays off once disabled |
| wire state machine | two backend calls in one handler, the worker in between; datagrams that fail; disable wait against its time-out | both layers agree; the host ends up with the state; a disable ends |
| session | half-open clients, address changes, frames cut by reads, drops from inside a handler | no request lost, repeated or mixed between sessions; nothing outlives the next session; the host gets in and is answered |
| update and boot | every step may fail, uploads may be abandoned, power may go | what is summed is in flash; only the announced image is accepted; the card can always be repaired |
| wire | reads that end anywhere, bytes that make no frame, heads inside payloads, datagrams in between, an answer that fails under the scanner | every frame of the stream once and in order; never a full buffer; a datagram configures nothing |
| channels | two tables in two files, batches refused half-way, resets while a batch is answered | the tables agree; the answer tells what is in force |
| discovery | lost probe replies, address and link changes whose events come late or never, aged memberships, lost multicasts, clients that say nothing | the card never claims ports it has not; the host finds it where it ends up |
| log | eviction while a datagram is being filled | order; gaps announced; no line stuck |
| joystick | mount, resume, unplug between unlocked steps; refused sends | a clean latch is what the PC shows; the host is told |

`PROJECT.json` lists every hazard at its line, with the properties that would
catch it, or the reason none does yet.

## 2. Modules

| module | models | composed of |
|---|---|---|
| `RelayBank` | what the backend promises, without bus, modules, counters or phases | - |
| `Rs485Worker` | `main/rs485_discrete.c`: worker, shared state, relays | refines `RelayBank` |
| `ReadbackHistory` | the worker with a history of what was read | extends `Rs485Worker` |
| `DiscreteGlue` | `lccore/discrete_glue.c` in the comm task | extends `Rs485Worker`: its handlers are the backend's clients |
| `FwUpdate` | update core, flash port, boot selection, restarts | - |
| `CommSession` | comm loop, reassembly, dispatch, session edges | - |
| `Framing` | `comm_core_build_frame` and the scanner of `comm_core_input`, over bytes; a reference parser | - |
| `ArincChannels` | the channel commands, `g_chnl` and `arinc_glue.c`, with a specification of their own | - |
| `CommCore` | both sockets in bytes, the scanner, dispatch of the channel commands, the endpoint | extends `Framing` and `ArincChannels`; implements `ArincSpec` |
| `BootProbe` | `probe_count`, `rs485_discrete_init` on a bus that loses answers | - |
| `Capabilities` | the descriptor and `handle_get_capabilities`; a reference reader | - |
| `Discovery` | `net_eth.c`, `ssdp_task.c`, the host that looks for the card | extends `BootProbe` and `Capabilities` |
| `LogRing` | log ring and flush | - |
| `HidUsb` | joystick control layer, report latch, USB task | - |
| `MCCommCore`, `MCDiscovery` | the sequences and functions their runs give to constants | extend the module they are named after |
| `Rs485Layers_proofs` | theorems of `DiscreteGlue` and of `ReadbackHistory`, which both rest on the worker's | extends both and `Rs485Worker_proofs` |
| other `*_proofs` | theorems of the module they are named after | extend it and TLAPS |

The configurations give constants their values, directly or, where the value is
a sequence or a function, by a definition of the `MC` module; no definition of a
model is replaced, so TLC and TLAPS look at the same text. Operators commented as
*mutant* are plausible bugs: each property is checked to fail when one of them
takes the place of the definition it varies.

### Correspondence

**Rs485Worker.** One action per critical section of `s_bus.lock` and one per
Modbus transaction, with every outcome: acknowledged, refused, lost request,
lost or damaged reply (the last two differ in whether the relay moved).
`pc` is the position of `worker_run`: *start*, *apply* (`apply_pending_output`
samples the target and picks the lowest changed relay, Waveshare before M31),
*write* (FC05), *confirm* (FC01), *publish*, *poll* (`poll_worker`).
`Reaches` is the fall-through of the poll phases. `BackendSetEnabled` and
`BackendSetOutputs` are the other task's critical sections. Bitmaps are sets of
channel numbers. `ModulePowerCycle` and `InputChange` are the world; at boot the
relays are in any position, because a reset of the card does not reset the
modules. The probe is in `BootProbe`; here its result is three constants.

**DiscreteGlue.** `setup(enable)` and `set` enter the backend twice and are two
steps each (`commPc`), so the worker can publish in between; the other
handlers are one step. The disable time-out is a flag that expires at any
moment of a disable; the heartbeat may be due in any turn. A send may fail with
or without a known host. Left out: `g_disc.desired` (only logged), the sequence
number, `discrete_glue_init` (runs once before the tasks).

**FwUpdate.** Sizes count AES blocks. Decryption is the identity on blocks with
a refusing outcome, and the Fletcher-32 of a stream is the stream, so *equal
sums* means *equal data*: collisions of the sum are outside the model. A packet
is in order or it is not. `Programmed` lets the erase run past the chunk,
because sectors are larger. A restart clears memory; the second-stage
bootloader and `esp_ota` are external and modelled from how the code uses them:
an image boots when its own digest is whole, and a first boot that is not
confirmed falls back to the recovery build.

**CommSession.** `pc` is the service of the turn that runs next: *wait*
(sockets closed), *turn* (the loop condition), *accept*, *client*, *input*
(inside `comm_core_input`), *status*. A frame is two pieces on the wire, so a
read may end inside one; noise pieces exercise the resynchronisation. A
dispatch ends with its answer sent, or with the client dropped
(`DispatchDrops`), after which the scanner goes on with the batch it was
called with. Restart is a power loss or a REBOOT request. The bytes of frames and of noise are in `CommCore`. The model is of the
application build; what a request can configure is enough to tell sessions
apart: a subsystem is enabled by the session that enabled it, the log threshold
likewise. All other commands are answered queries.

**Framing, CommCore.** The wire in bytes, of any radix. The scanner is one
action per byte given up (`Skip`) and one per frame (`DispatchBatch`,
`DispatchOther`); `Receive` appends a read of any length to the remainder, and
`InputDone` keeps what is left if there still is a client. A frame of a known
command goes to `ArincChannels` with its payload decoded (`Decode`): a
fixed-size record is one byte whose bits stand for the fields, so a payload is
always a whole number of records, and the code's passing over a partial record
at the end of a payload is outside the model. `Query` stands for the commands
that are answered without effect and `Ping` for the one that latches; the
commands of the other subsystems are in their modules, the rejection of a second
client in `CommSession`. `FramesOf` is the reference: it takes a frame to be
what `BuildFrame` makes and knows nothing of cuts, offsets or sums. It, and the
other definitions that go through a sequence (`Frames`, `Bytes`, `PortGroups`),
are recursive functions whose one step is an operator of its own
(`FramesFrom`, `FramesUpTo`, `BytesUpTo`, `GroupsFrom`), which the proofs unfold.

**ArincChannels.** One action per record: the loop test of a handler and the
record's checks and effects, in the order of the code. `status` ends a batch;
`at` is the number of records looked at, the answer names the last of them. The
transmit engine is the stub the build contains: it keeps set-up, enable, the
timetable flag and the labels. Ranges of speed and mode are "in range, or the
first that is not"; a label's word is its transmit flag.

**BootProbe, Discovery.** `FirstRead`, `SearchRead` and `Found` are the Modbus
reads of the binary search, each of which may lose its answer; addresses on a
module are contiguous from 0. `Advance` is the loop over banks and attempts.
`PowerLoss` starts over, perhaps with other modules attached. In `Discovery`
`addr` is the interface's address and `events` the event loop's queue;
`AgeOut` is a switch that forgets the membership. `pc` is the place in
`ssdp_task`; the loop condition's two reads (`s_got_ip`, the address) are one
step, and so are the NOTIFY and the rejoin of one turn (`Periodic`), between
which the task does not wait. Multicasts and answers may be lost. The host is
the environment: it hears NOTIFYs or searches, fetches the description, reads
the descriptor in chunks and starts over when the card is elsewhere.

**Capabilities.** A field of several bytes, or a text, is one item of the
sequence; tags and lengths are items, so that a length a reader steps by is
what the writer computed. `PortGroups` is the reference reader.

**LogRing.** A record is a number and a size. A line passes the `g_in_log` test
before its task takes the lock (`Write`, then `Push`); a flush is a pass of at
most two datagrams, each a header read (`Header`), one `Pop` per record, and
`Close`. Another task's line during a build goes to the console only and is not
counted as dropped (`lc_log.c:111`): no property covers it, and the hazard list
says so.

**HidUsb.** `hid_port_loop` is a test without lock, a copy under the lock, and a
send (`LoopStart`, `LoopSnap`, `LoopSend`/`LoopRefused`); the bus and the USB
task's callbacks move between any two of them, and a configured bus is visible
before its mount callback has run. The mounted state is read twice per turn
(`LoopNotice`, `StateSent`), as in the code.

## 3. Runs

Each run asks one question of one component; `PROJECT.json` names its
properties and one mutant per property that breaks it.

| run | instance | shows |
|---|---|---|
| `Worker` | one relay on each module and an input; one failure makes a link lost | refinement of `RelayBank`; readback always published; nothing stale at reconnection; all-off and standing commands reach the relays |
| `Readback` | two relays on one module and an input; two failures make a link lost | publications report what was physically so; at most one relay per module on and unreported |
| `Glue` | one relay; one failure makes a link lost; handlers in any order | layers agree; the host is up to date or a STATE is pending; it learns; a disable ends |
| `FwUpdate` | two images of 2 blocks, ota_0 of 3, chunks up to 2 | flash holds what is summed; acceptance; abandoned uploads end; repair |
| `Session` | 2 session numbers reused, 2 requests each, buffer of 2 frames, 2 addresses | stream integrity; ownership; the host gets in; requests are answered |
| `CommCore` | radix 16, payloads up to 2 records, a receive buffer of 16, at most 5 bytes unread before the host sends on; a channel that exists and one that does not, a timetable of one label, 2 peers | frames survive any cut and any noise; datagrams only latch; the two tables agree; answers tell the truth |
| `Discovery` | 2 outputs where the limit is 3, 2 inputs where it is 1, no Waveshare module; 2 probe attempts; 2 addresses, 2 unhandled events; a start-up burst of one; a descriptor of two chunks | the probe's counts are sound; the host finds the card and reads its ports |
| `LogRing` | 2 tasks, 5 lines of sizes 1 to 3, ring 5, datagram 3, counters modulo 4 | order; gaps announced modulo the wrap; lines leave |
| `HidUsb` | two positions | latch, convergence at the PC, what the host is told |

### Why the bounds are enough

- `Worker`, `Readback`: with two modules every "Waveshare before M31" decision,
  the link "as long as one module answers", and one module blocked while the
  other is served occur; two relays on one module are needed for "the lowest
  changed first" and for two unreported relays to be possible at all.
  `Readback` has failures that do not take the link down and ones that do
  (`LinkFailures = 2`); in `Worker` every failure does, the harder case for
  liveness. The code's values (32 channels, 3 failures) add length, not cases;
  the theorems cover every value the code admits.
- `Glue`: the interplay with two modules is in the refinement, proved for every
  population; one relay suffices for reported against actual.
- `FwUpdate`: a container can be shorter than, equal to and longer than its
  image and than ota_0; the last chunk can cross the announced size and the
  partition's end; two images make mixtures possible.
- `Session`: two whole frames fit one read, so a request is dispatched after
  the drop caused by the one before it; two session numbers, reused, are
  "latest" and "another".
- `CommCore`: the requests refuse a batch at its first and at its second
  record, for an unknown channel, a mode out of range, a channel
  not set up and a full timetable, and an empty one altogether (a bad direction
  or speed takes the path of a bad mode); the noise holds half a head before a frame, a size that
  cannot be, a size that reaches into what follows, and a wrong sum before the
  right one. Reads end at every offset: the buffer holds two of the largest packets,
  and two items can be unread together. 16 values of a byte make the sum wrap
  in ordinary frames. The two peers are symmetric and no property tells them
  apart. What depends on sizes is proved for every size.
- `Discovery`: one bank is wholly absent, one smaller and one larger than what
  the card can use, so the search ends below, at and beyond its limit. Two
  unhandled events let an address change while the event of the one before is
  waiting; a third would wait behind them. Two addresses are "here" and
  "elsewhere". `CountsAreSound` is proved for every limit, plant and number of
  attempts.
- `LogRing`: ring and datagram are filled by two lines and by many, one push
  evicts up to three lines, five lines wrap the counters.
- `HidUsb` is finite as it is: two positions are "same" and "different".

Deadlock is checked in every run.

### Fairness

| specification | assumed | because |
|---|---|---|
| `Rs485Worker!FairSpec` | WF of the worker's steps and its poll timer; SF of the good outcome of each transaction | every wait of the task has a time-out; the bus is not dead for ever (without that no all-off can arrive). Any finite run of failures, and infinitely many, remain |
| `DiscreteGlue!GlueFairSpec` | WF of the loop, of entered handlers and of the clock; SF of a send that succeeds | the comm loop runs on a bounded `select`; a socket does not refuse for ever. No fairness of the worker is needed |
| `FwUpdate!FairSpec` | WF of silence and of `fwup_tick` | time passes, the loop calls the tick |
| `CommSession!FairSpec` | WF of the loop's steps; SF of `Bind(TRUE)` and `ReadError` | select, send and sleep are bounded; sockets open at last; keepalive ends a dead connection |
| `Discovery!FairSpec` | WF of the probe, the event loop, the two tasks and the host's own steps; SF of opening a socket, of the two timers coming round with a NOTIFY that is heard and with a rejoin, of a search that is sent and one that is answered, of a fetch | every wait has a time-out (1 s, 2 s); a socket can be opened at last; a network does not lose every multicast for ever; a server that drops silent clients after 2 s is not busy each time the host asks |
| `LogRing!FairSpec` | WF of the flush and of a line in hand | FreeRTOS schedules both, the lock is held for one record |
| `HidUsb!FairSpec` | WF of the loop, the callbacks and the PC's polls; SF of a send to the endpoint and to the host | both tasks run; a free endpoint and an open socket do not refuse for ever; heartbeats come round |

What the environment must grant besides is a premise of the property that needs
it, not of the specification: `CommandIsDriven` only holds once modules stop
power cycling, `DisableEnds` once the host stops disabling, `HostGetsIn` once
the network is calm, `HostFindsCard` once the card keeps an address, `RepairIsPossible` for a host that follows the procedure.

### Where code and documents disagree

Three runs end in a counterexample to a sentence of a comment or the README.

| run | sentence | what happens |
|---|---|---|
| `GlueConfirmedOff` | `discrete_glue.c:158-160`: the disable waits to "send confirmed all-off readback" | the snapshot that confirms may predate the disable, while an energising write is under way: the disable ends by confirmation with a relay on (the worker still turns it off later: `FailSafeOff`) |
| `ReadbackUnread` | `discrete_glue.h:20`, `discrete_glue.c:5-6`: reported values "are physical readback only" | the link is up with one module; the relays of a module not read since boot are reported off though one is on |
| `SessionDrop` | `comm_core.c:910` "dropped session -> all disabled", `comm_core.h:56-58`, `README.md:70-71` | an answer that cannot be sent drops the session; the next frame of the same buffer enables a subsystem, and nothing disables it until the next session |

Two more were met while modelling and have no run of their own, because the
models contain the behaviour and the properties are stated around it:

- `fwupdate_core.h:21-23` says only a matching FINISH switches to the new
  application; `ota_reboot` of the recovery build boots any image that is whole,
  without a FINISH (`Reboot` in `FwUpdate`). `AcceptedIsAnnounced` is therefore
  about the switch that FINISH makes.
- `hid_glue.c:47-48, 92` speak of one final STATE and of retrying one that
  failed; the loop returns before it looks at the pending flag once disabled
  (`HidUsb`). `HostLearns` is therefore about an enabled subsystem.

## 4. Proofs

Checked by `tlapm` to the last leaf, for every value of the constants that the
named assumptions admit: `PopulationAssumption` (the probe's limits),
`LinkFailuresAssumption`, `SizeAssumption` (an image fits its partition, sizes
are positive), `SessionsAssumption`, `MaxRequestsAssumption`,
`RxPiecesAssumption`, `ReportAssumption`, `MaxLabelsAssumption`,
`MaxPayloadAssumption` (a size fits a byte), `HeadAssumption` (the head is two
bytes), `RxSizeAssumption` (the buffer holds a packet), `InputAssumption`,
`RecordAssumption`, `PeerAssumption`, `LimitAssumption` (a bank has room for at
least one), `ProbesAssumption`, `PlantsAssumption`, `BlobMaxAssumption`,
`ChunkMaxAssumption` (a chunk has at least one byte), `AddressAssumption`,
`BurstAssumption`, `MaxEventsAssumption`, `CommAssumption` (the comm task is one
of finitely many), `SizesAssumption` (a line fits an empty ring and an empty
datagram), `RoomAssumption`, `WrapAssumption`, `MaxLinesAssumption`. TLC
evaluates them in the runs. `MaxRequests`, `MaxLines` and `MaxEvents` are bounds
of the models, not of the code: the theorems hold for each of their values.

Every safety invariant and every action property of the passing runs, the two
refinements included, is a theorem. `PROJECT.json` names the property each one
states.

| theorem | states | argument |
|---|---|---|
| `TypeCorrect` (`Rs485Worker_proofs`) | `TypeOK` | inductive by itself; it includes "the write under way is of a relay of its module" |
| `PublicationCorrect` | `ReadbackPublished` | inductive on top of `TypeOK`; `SuccessLinks` gives the step from a successful read to the link being up |
| `NoStaleReplayHolds` | `NoStaleReplay` | needs only types: both places that change `desired` look at `enabled` and the link in the critical section that stores it |
| `WorkerImplementsRelayBank` | `ImplementsRelayBank` | refinement mapping: *armed* is the energising write under way. Every step is a step of the bank or a stutter; publications need `ReadbackPublished` to show that nothing new is reported while the link stays down |
| `GlueImplementsRelayBank`, `GlueNoStaleReplay` (`Rs485Layers_proofs`) | the same, of the composition | every glue step is a worker step or a stutter (`GlueStepRefines`) |
| `LayersAgreeHolds` | `LayersAgree` | inductive with the flags' types |
| `GlueTypeCorrect`, `HostIsUpToDateHolds` | `GlueTypeOK`, `HostIsUpToDate` | the second is inductive on the first: a snapshot changes only where STATE becomes pending, and pending ends only with a send that succeeded |
| `AtMostOneHolds`, `ReportsOnlyReadbackHolds` | `AtMostOneUnreportedRelay`, `ReportsOnlyReadback` | strengthened by `Slack` (a module that was read and is neither blocked nor being written has nothing on that the image does not show; otherwise at most one relay, the one under way while a write is) and `SeenInv` (the image differs from the publication only in what was so since) |
| `PopulationSound` (`Discovery_proofs`) | `CountsAreSound` | strengthened by the invariant of the search (`SearchInv`: the address `low` exists, and nothing to be found lies above `high` unless an answer was lost) and by what is known of the banks an attempt is done with (`AbsentInv`). The steps of the network leave the probe alone |
| `TypeCorrect` | `TypeOK` | `DiscoveryInv`: types, an address only after the probe, a reader only at the present address |
| `DescriptorIsRead` | a host that is done has the descriptor | `ReadOK`: what was read is a front of the descriptor. A chunk continues it (`ChunkContinues`), and whatever changes the descriptor (a power loss, so a probe) takes the address and with it the reader |
| `PortsAreRead` | and a reader of it finds the card's ports: the safety half of `HostFindsCard` | `DescriptorReadsBack`: `PortGroups(Descriptor(i, o)) = Groups(i, o)` for all counts. At an entry the reader goes to the end of its value (`EntryIsRead`), and the writer's next entry begins there |
| `ChannelsCorrect`, `TruthCorrect` (`CommCore_proofs`) | `ArincTypeOK`, `TablesAgree` and `AnswerTellsTruth`, of the channels alone | `TablesAgree` is inductive; the truth of an answer needs `TruthInv`, which says at every point of a batch what an answer given then would say. A record touches one entry (`Local`), so the earlier ones stay in force unless superseded (`StaysInForce`) |
| `WireDrivesChannels` | `Spec => ArincSpec`: the wire implements the channels | each step of the wire is a step of the channels or a stutter; a payload within its frame decodes to records |
| `WireCorrect` | `TypeOK`, with "what is kept is less than a packet" | strengthened by `WireInv`: the bound holds except while a read is under way, whose buffer it then is. Where the scan stops, less than a packet is left (`RemainderFits`) |
| `TablesCorrect`, `AnswersCorrect` | `TablesAgree`, `AnswerTellsTruth` of the wire | from the implementation |
| `LatchCorrect` | `DatagramsOnlyLatch` | strengthened by `LatchInv`: no handler runs between two calls of the scanner, a datagram has none run but that of a manual word, and one that starts with a PING has been heeded. The test of `udp_is_valid_ping` and the reference agree on what starts with a PING (`ValidPingIs`) |
| `CutsCorrect` | `CutsDoNotMatter` | where the scanner takes a frame or gives a byte up, the reference does so too, whatever follows in the stream (`ScanInStream`); a tail of a stream has the frames the reference finds from there (`TailScans`). So a step of the scanner takes the first frame of what is unread or leaves its frames as they are |
| `UploadCorrect`, `TypeCorrect` (`FwUpdate_proofs`) | `TypeOK` and `UploadIsInFlash` | inductive together: programming starts where the written part ends, so the part already summed is not disturbed |
| `AcceptedIsAnnouncedHolds` | `AcceptedIsAnnounced` | from the invariant: at an accepting FINISH the stream is the announcement and the flash is the stream |
| `AppIsWholeHolds` | an application that runs is whole in ota_0, and no upload is under way beneath it | inductive with "confirmed or in its one unconfirmed start": only the recovery build takes a START, and a restart starts ota_0 only if it is bootable |
| `SessionCorrect`, `TypeCorrect` (`CommSession_proofs`) | `TypeOK` and `OwnedByLatest` | strengthened by `Latest`: every frame in the wire, the buffer or the batch was sent in the latest session. `OwnedByLatest` alone is not inductive, since a stale frame in the batch could enable something after a drop; `Quiet` says there is no batch outside *input* |
| `StreamCorrect` | `StreamIntact` | `FlowInv`: while the connection lasts, the requests answered, then those in what is buffered and in the wire, are those sent, in order (`Accounted`), and the two pieces of a frame follow each other (`Unbroken`); between two calls of the scanner less than a frame is kept. Each read, each frame and each piece given up moves the border without changing the whole (`FramesConcat`) |
| `TypeCorrect` (`LogRing_proofs`) | `TypeOK` | `RingInv` (the ring holds the latest lines, consecutively, up to `stored`; what was lost is out of it; `dropped` is their number modulo the wrap) and `BoundInv`, `FlushInv`. That a pushed line fits rests on `EvictedIs`: dropping all records makes room, so the least number that does exists |
| `OrderCorrect` | `InOrderOrDropped` | `DatagramInv`: every line out of the ring is in an earlier datagram, in this one, or lost, and the lines of this one are in order, before all in the ring |
| `GapsCorrect` | `GapsAnnounced` | `GapInv`: the count in the header lies between the number of losses before the last datagram's end and the number before this one's first line; until there is a line, the upper end is all losses so far. Evictions take the oldest line of the ring, which is later than every line in the datagram |
| `LatchCorrect`, `TypeCorrect`, `NothingDueIsToldHolds` (`HidUsb_proofs`) | `TypeOK`, `CleanIsShown`, `NothingDueIsTold` | strengthened by `CopyInv` (a copy to be sent is the latched report, the endpoint is free meanwhile) and `ShownInv` (a clean report is in the copy, in the endpoint or on the PC) |

**Induction over data.** The library's induction theorems cannot be used, since
they take an operator. `StreamIntact`, `CutsDoNotMatter`, the log's `Bytes` and
`PortGroups` are therefore proved by least counterexample: the set of natural
numbers at which a claim fails, were it not empty, would have a least element
(`NatLessThanWellFounded` and `WFMin` of the library, in `LeastNat`), or the set
of those at which it holds is all of them (`SetInduction`). The same argument
shows that the function behind a recursive definition exists (`ReaderExists`,
`SumExists`), without which its `CHOOSE` would say nothing.

**Only model-checked.** The liveness properties: `FailSafeOff`,
`CommandIsDriven`, `DisableEnds`, `HostLearns`, `AbandonedUploadEnds`,
`RepairIsPossible`, `HostGetsIn`, `RequestsAreAnswered`, `LinesLeave`,
`PcConverges`, `HostFindsCard`. They depend on fairness, which speaks of
`ENABLED`, out of the prover's reach.

## 5. Not modelled

- **Late Modbus replies**: a transaction is atomic. The protocol has no
  transaction number; the code flushes its input before each request, and a
  model would have to guess at the silence between two frames.
- **Fletcher-32, identity, the text of SSDP messages and of description.xml**:
  pure functions with test vectors in `host_tests`, or formatting. The sum of a
  stream is the stream in `FwUpdate`; a message is the address it carries in
  `Discovery`.
- **`find_me`**: a one-shot timer on a LED that nothing depends on.
- **Driver set-up** (`net_eth`, USB and UART installation, `lc_port_esp`): calls
  into ESP-IDF without state of their own. What the rest reads of the network
  is in `Discovery` and in the environment of `CommSession`.
- **The log threshold and the console mirror** in `LogRing`: lines under the
  threshold never reach the ring; the threshold itself is in `CommSession`.
- **A partial record at the end of a payload**, passed over by the handlers.
- **Tools, build files, host tests**: not part of the firmware; read for what
  they expect of it.

## 6. Plan

Done, in order of importance: the relay path (`RelayBank`, `Rs485Worker`,
`ReadbackHistory`, `DiscreteGlue`), updates and boot (`FwUpdate`), the session
(`CommSession`), the wire and the channels (`Framing`, `ArincChannels`,
`CommCore`), probe and discovery (`BootProbe`, `Capabilities`, `Discovery`), the
joystick (`HidUsb`), the log (`LogRing`).

Left:

1. `FwUpdate`: a history variable for "an accepted image survives until the next
   START", and the theorem.
2. `LogRing`: the level of a line against a threshold that changes.
3. `CommCore`: the commands of the other subsystems as records of the same wire,
   so that `DiscreteGlue` and `HidUsb` could be driven by it.
4. Abstract specifications, with their refinement proved, for the log (numbered
   lines of which some are announced as lost) and for the joystick's latch.
