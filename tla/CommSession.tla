----------------------------- MODULE CommSession -----------------------------
(***************************************************************************)
(* The control session: the loop of the comm task (main/comm_task.c), the  *)
(* TCP reassembly buffer, and the dispatch of framed requests              *)
(* (components/lccore/comm_core.c), in the application build.              *)
(*                                                                         *)
(* A turn of the loop is a fixed sequence of services (pc); the host and   *)
(* the network move between any two of them.  A frame on the wire is two   *)
(* pieces, so that a read may end inside a frame.  A failed TCP send drops *)
(* the client from inside the handler that was answering, and the          *)
(* dispatcher goes on with what it has in its hands.                       *)
(***************************************************************************)
EXTENDS Integers, Sequences

CONSTANTS
  Subsystem,    \* what a request can enable: the discrete bank, the joystick
  Address,      \* the addresses DHCP may give
  Sessions,     \* bound: session numbers are used again after this many
  MaxRequests,  \* bound: requests of one session
  RxPieces      \* COMM_RX_BUF_SIZE

ASSUME SessionsAssumption == Sessions \in Nat \ {0, 1}
ASSUME MaxRequestsAssumption == MaxRequests \in Nat
ASSUME RxPiecesAssumption == RxPieces \in Nat \ {0, 1}

VARIABLES
  \* comm_task.c
  pc,         \* the service that runs next
  bound,      \* the address the sockets are bound at: {} or {address}
  client,     \* the session of s_tcp_client; 0 is no client
  rx,         \* s_rxbuf[0 .. s_rxlen-1]
  \* the call of comm_core_input under way
  batch, off,
  \* what requests configured: the session that did, or 0
  enabled,    \* per subsystem
  verbose,    \* the log threshold, away from INFO
  \* the network and the control host
  up,         \* net_eth_ready
  addr,       \* net_eth_get_ip4
  alive,      \* the host still has its end of the accepted connection
  knocking,   \* a connection waits to be accepted
  wire,       \* received from the client by the TCP stack
  last,       \* the number of the latest session
  requests,   \* history: what the host sent in the latest session
  answered    \* history: the requests of that session that were answered

taskVars == <<pc, bound, client, rx, batch, off>>
confVars == <<enabled, verbose>>
netVars  == <<up, addr>>
hostVars == <<alive, knocking, wire, last, requests>>
vars     == <<taskVars, confVars, netVars, hostVars, answered>>
-----------------------------------------------------------------------------
Session == 1..Sessions

(* CHNL_* and DISCRETE_SET, HID_SET, queries and unknown commands are       *)
(* "query": answered, and of no effect here.                               *)
Command ==
  ({"enable", "disable"} \X Subsystem)
    \cup ({"query", "verbose", "reboot"} \X {"card"})

Frame == [session : Session, nr : 1..MaxRequests, cmd : Command]
Noise == [half |-> 0]   \* bytes that belong to no frame
Piece == [frame : Frame, half : {1, 2}] \cup {Noise}

(* The pieces of a sequence of frames *)
Pieces(frames) ==
  [i \in 1..(2 * Len(frames)) |->
     [frame |-> frames[(i + 1) \div 2], half |-> 2 - (i % 2)]]

AllOff == [s \in Subsystem |-> 0]

Init ==
  /\ pc = "wait" /\ bound = {} /\ client = 0 /\ rx = <<>>
  /\ batch = <<>> /\ off = 0
  /\ enabled = AllOff /\ verbose = 0
  /\ up \in BOOLEAN /\ addr \in Address
  /\ alive = FALSE /\ knocking = FALSE /\ wire = <<>>
  /\ last = Sessions /\ requests = <<>> /\ answered = <<>>
-----------------------------------------------------------------------------
(* tcp_client_drop with a client: comm_core_session(false) disables every  *)
(* subsystem and sets the log threshold to INFO.                           *)
DropClient ==
  /\ client' = 0
  /\ rx' = <<>>
  /\ enabled' = AllOff
  /\ verbose' = 0
  /\ alive' = FALSE
  /\ wire' = <<>>

(* The loop condition, tested at the end of each turn *)
NetworkStable == up /\ bound = {addr}

(* comm_task: sockets are opened when the network is ready; when one of    *)
(* them cannot be, the task sleeps and tries again.                        *)
Bind(ok) ==
  /\ pc = "wait"
  /\ up
  /\ IF ok THEN bound' = {addr} /\ pc' = "turn" ELSE UNCHANGED <<bound, pc>>
  /\ UNCHANGED <<client, rx, batch, off, confVars, netVars, hostVars, answered>>

(* Mutant: a new address goes unnoticed. *)
TurnIgnoresAddress ==
  /\ pc = "turn"
  /\ IF up
     THEN pc' = "accept" /\ UNCHANGED <<bound, client, rx, confVars, alive, wire, knocking>>
     ELSE /\ pc' = "wait"
          /\ bound' = {}
          /\ knocking' = FALSE
          /\ IF client # 0 THEN DropClient
             ELSE UNCHANGED <<client, rx, confVars, alive, wire>>
  /\ UNCHANGED <<batch, off, netVars, last, requests, answered>>

(* comm_sockets_close also loses a connection that waits in the backlog.   *)
Turn ==
  /\ pc = "turn"
  /\ IF NetworkStable
     THEN pc' = "accept" /\ UNCHANGED <<bound, client, rx, confVars, alive, wire, knocking>>
     ELSE /\ pc' = "wait"
          /\ bound' = {}
          /\ knocking' = FALSE
          /\ IF client # 0 THEN DropClient
             ELSE UNCHANGED <<client, rx, confVars, alive, wire>>
  /\ UNCHANGED <<batch, off, netVars, last, requests, answered>>

(* Mutant: a new session finds things as they are. *)
AcceptAsItIs ==
  /\ pc = "accept"
  /\ pc' = "client"
  /\ knocking' = FALSE
  /\ IF knocking /\ client = 0
     THEN /\ last' = (last % Sessions) + 1
          /\ client' = last'
          /\ rx' = <<>>
          /\ alive' = TRUE
          /\ wire' = <<>>
          /\ requests' = <<>> /\ answered' = <<>>
     ELSE UNCHANGED <<last, client, rx, alive, wire, requests, answered>>
  /\ UNCHANGED <<bound, batch, off, confVars, netVars>>

(* tcp_accept_service: one client at a time; a newcomer is closed.  A new  *)
(* session starts with everything disabled, and the log threshold as it is.*)
Accept ==
  /\ pc = "accept"
  /\ pc' = "client"
  /\ knocking' = FALSE
  /\ IF knocking /\ client = 0
     THEN /\ last' = (last % Sessions) + 1
          /\ client' = last'
          /\ rx' = <<>>
          /\ enabled' = AllOff
          /\ alive' = TRUE
          /\ wire' = <<>>
          /\ requests' = <<>> /\ answered' = <<>>
     ELSE UNCHANGED <<last, client, rx, enabled, alive, wire, requests, answered>>
  /\ UNCHANGED <<bound, batch, off, verbose, netVars>>

(* tcp_client_service reads up to the space left, and hands the buffer to  *)
(* comm_core_input.  Were there no space, it would drop what is buffered.  *)
Receive ==
  /\ pc = "client"
  /\ client # 0
  /\ LET kept == IF Len(rx) = RxPieces THEN <<>> ELSE rx
     IN  \E n \in 1..(RxPieces - Len(kept)) :
           /\ n <= Len(wire)
           /\ batch' = kept \o SubSeq(wire, 1, n)
           /\ wire' = SubSeq(wire, n + 1, Len(wire))
  /\ rx' = batch'
  /\ off' = 0
  /\ pc' = "input"
  /\ UNCHANGED <<bound, client, confVars, netVars, alive, knocking, last,
                 requests, answered>>

NothingToRead ==
  /\ pc = "client"
  /\ client = 0 \/ wire = <<>>
  /\ pc' = "status"
  /\ UNCHANGED <<bound, client, rx, batch, off, confVars, netVars, hostVars, answered>>

(* recv fails or returns 0: the host closed, or keepalive gave it up.      *)
ReadError ==
  /\ pc = "client"
  /\ client # 0
  /\ ~alive \/ ~up
  /\ DropClient
  /\ pc' = "status"
  /\ UNCHANGED <<bound, batch, off, netVars, knocking, last, requests, answered>>
-----------------------------------------------------------------------------
(* comm_core_input: the scanner, over the batch it was called with *)
Rest == Len(batch) - off

Whole ==
  /\ Rest >= 2
  /\ batch[off + 1].half = 1
  /\ batch[off + 2] = [frame |-> batch[off + 1].frame, half |-> 2]

Request == batch[off + 1].frame

(* Bytes that start no frame, or a frame whose checksum is wrong: resync.  *)
Skip ==
  /\ pc = "input"
  /\ Rest >= 1 /\ ~Whole
  /\ batch[off + 1].half # 1 \/ Rest >= 2
  /\ off' = off + 1
  /\ UNCHANGED <<pc, bound, client, rx, batch, confVars, netVars, hostVars, answered>>

(* What the handler does before it answers. *)
Applied(c) ==
  IF c[1] = "enable" THEN [enabled EXCEPT ![c[2]] = Request.session]
  ELSE IF c[1] = "disable" THEN [enabled EXCEPT ![c[2]] = 0]
  ELSE enabled

Threshold(c) == IF c[1] = "verbose" THEN Request.session ELSE verbose

Dispatching ==
  /\ pc = "input"
  /\ Whole
  /\ Request.cmd[1] # "reboot"
  /\ off' = off + 2
  /\ UNCHANGED <<pc, bound, batch, netVars, knocking, last, requests>>

(* Mutant: a command without a handler is not answered. *)
DispatchSilently ==
  /\ Dispatching
  /\ enabled' = Applied(Request.cmd)
  /\ verbose' = Threshold(Request.cmd)
  /\ answered' = IF client # 0 /\ Request.cmd[1] # "query"
                 THEN Append(answered, Request) ELSE answered
  /\ UNCHANGED <<client, rx, alive, wire>>

(* comm_dispatch with the answer sent; without a client ops_send_tcp       *)
(* returns at once, but the request has been carried out.                  *)
Dispatch ==
  /\ Dispatching
  /\ enabled' = Applied(Request.cmd)
  /\ verbose' = Threshold(Request.cmd)
  /\ answered' = IF client # 0 THEN Append(answered, Request) ELSE answered
  /\ UNCHANGED <<client, rx, alive, wire>>

(* comm_dispatch when the answer cannot be sent: the peer is gone, or it   *)
(* has not read for COMM_SND_TIMEOUT_S.                                    *)
DispatchDrops ==
  /\ Dispatching
  /\ client # 0
  /\ DropClient
  /\ UNCHANGED answered

(* Mutants of InputDone: s_rxlen - off without a look at the client wraps  *)
(* when s_rxlen is 0, and an incomplete frame is not kept.                 *)
InputDoneUnguarded ==
  /\ pc = "input"
  /\ Rest = 0 \/ (Rest = 1 /\ batch[off + 1].half = 1)
  /\ rx' = IF client = 0 /\ off > 0
           THEN [i \in 1..(RxPieces + 1) |-> batch[1]]
           ELSE SubSeq(batch, off + 1, Len(batch))
  /\ batch' = <<>>
  /\ off' = 0
  /\ pc' = "status"
  /\ UNCHANGED <<bound, client, confVars, netVars, hostVars, answered>>

InputDoneDiscards ==
  /\ pc = "input"
  /\ Rest = 0 \/ (Rest = 1 /\ batch[off + 1].half = 1)
  /\ rx' = <<>>
  /\ batch' = <<>>
  /\ off' = 0
  /\ pc' = "status"
  /\ UNCHANGED <<bound, client, confVars, netVars, hostVars, answered>>

(* What is left of the batch is kept for the next read, unless the client  *)
(* was dropped meanwhile.                                                  *)
InputDone ==
  /\ pc = "input"
  /\ Rest = 0 \/ (Rest = 1 /\ batch[off + 1].half = 1)
  /\ rx' = IF client # 0 THEN SubSeq(batch, off + 1, Len(batch)) ELSE rx
  /\ batch' = <<>>
  /\ off' = 0
  /\ pc' = "status"
  /\ UNCHANGED <<bound, client, confVars, netVars, hostVars, answered>>

(* A restart clears the memory of the card and cuts the connection. *)
Restart ==
  /\ pc' = "wait" /\ bound' = {} /\ client' = 0 /\ rx' = <<>>
  /\ batch' = <<>> /\ off' = 0
  /\ enabled' = AllOff /\ verbose' = 0
  /\ alive' = FALSE /\ knocking' = FALSE /\ wire' = <<>>
  /\ UNCHANGED <<netVars, last, requests, answered>>

(* REBOOT, and JUMP_TO_BOOTLOADER, with the right key *)
Reboot ==
  /\ pc = "input"
  /\ Whole
  /\ Request.cmd[1] = "reboot"
  /\ Restart

(* status_service, at most once a second *)
Status ==
  /\ pc = "status"
  /\ pc' = "turn"
  /\ UNCHANGED <<bound, client, rx, batch, off, confVars, netVars, hostVars, answered>>

StatusDrops ==
  /\ pc = "status"
  /\ client # 0
  /\ DropClient
  /\ pc' = "turn"
  /\ UNCHANGED <<bound, batch, off, netVars, knocking, last, requests, answered>>

CommStep ==
  \/ \E ok \in BOOLEAN : Bind(ok)
  \/ Turn \/ Accept
  \/ Receive \/ NothingToRead \/ ReadError
  \/ Skip \/ Dispatch \/ DispatchDrops \/ Reboot \/ InputDone
  \/ Status \/ StatusDrops
-----------------------------------------------------------------------------
PowerLoss == Restart

(* The network *)
LinkChange ==
  /\ up' = ~up
  /\ UNCHANGED <<taskVars, confVars, addr, hostVars, answered>>

AddressChange ==
  /\ addr' \in Address \ {addr}
  /\ UNCHANGED <<taskVars, confVars, up, hostVars, answered>>

(* The control host connects when it has no connection, sends a request or *)
(* bytes that make none, and closes or disappears, with or without what it *)
(* sent last.                                                              *)
Knock ==
  /\ NetworkStable
  /\ ~alive
  /\ ~knocking
  /\ knocking' = TRUE
  /\ UNCHANGED <<taskVars, confVars, netVars, alive, wire, last, requests, answered>>

Send(c) ==
  /\ alive
  /\ up
  /\ Len(requests) < MaxRequests
  /\ LET f == [session |-> client, nr |-> Len(requests) + 1, cmd |-> c]
     IN  requests' = Append(requests, f) /\ wire' = wire \o Pieces(<<f>>)
  /\ UNCHANGED <<taskVars, confVars, netVars, alive, knocking, last, answered>>

SendNoise ==
  /\ alive
  /\ up
  /\ \A i \in 1..Len(wire) : wire[i] # Noise
  /\ wire' = Append(wire, Noise)
  /\ UNCHANGED <<taskVars, confVars, netVars, alive, knocking, last, requests, answered>>

Leave ==
  /\ alive
  /\ alive' = FALSE
  /\ wire' \in {SubSeq(wire, 1, n) : n \in 0..Len(wire)}
  /\ UNCHANGED <<taskVars, confVars, netVars, knocking, last, requests, answered>>

WorldStep ==
  \/ PowerLoss
  \/ LinkChange \/ AddressChange
  \/ Knock \/ Leave \/ SendNoise
  \/ \E c \in Command : Send(c)

Next == CommStep \/ WorldStep

Spec == Init /\ [][Next]_vars

(***************************************************************************)
(* The comm task never blocks for ever: select, send and sleep are bounded.*)
(* Sockets can be opened at last, and keepalive ends a dead connection.    *)
(***************************************************************************)
FairSpec ==
  /\ Spec
  /\ WF_vars(CommStep)
  /\ SF_vars(Bind(TRUE))
  /\ SF_vars(ReadError)
-----------------------------------------------------------------------------
LoopOK ==
  /\ pc \in {"wait", "turn", "accept", "client", "input", "status"}
  /\ bound \in SUBSET Address
  /\ client \in {0, last}
  /\ last \in Session
  /\ alive \in BOOLEAN
  /\ knocking \in BOOLEAN

StreamOK ==
  /\ rx \in Seq(Piece) /\ Len(rx) <= RxPieces
  /\ batch \in Seq(Piece) /\ Len(batch) <= RxPieces
  /\ off \in 0..Len(batch)
  /\ wire \in Seq(Piece)

ConfOK ==
  /\ enabled \in [Subsystem -> 0..Sessions]
  /\ verbose \in 0..Sessions

NetOK == up \in BOOLEAN /\ addr \in Address

HistoryOK == requests \in Seq(Frame) /\ answered \in Seq(Frame)

TypeOK == LoopOK /\ StreamOK /\ ConfOK /\ NetOK /\ HistoryOK

(* Every request of a session is answered once and in order, or is still   *)
(* on its way: however reads cut the stream, whatever noise is in it,      *)
(* whatever is kept between two reads, and whatever earlier sessions left  *)
(* behind.                                                                 *)
Buffered == IF pc = "input" THEN SubSeq(batch, off + 1, Len(batch)) ELSE rx

FramesUpTo(pieces, i, upTo) ==
  IF i = 0 THEN <<>>
  ELSE IF pieces[i] = Noise THEN upTo[i - 1]
  ELSE Append(upTo[i - 1], pieces[i])

Frames(pieces) ==
  LET upTo[i \in 0..Len(pieces)] == FramesUpTo(pieces, i, upTo)
  IN  upTo[Len(pieces)]

StreamIntact ==
  alive => Pieces(requests) = Pieces(answered) \o Frames(Buffered \o wire)

(* Nothing outlives the session after it: what is enabled was enabled by a *)
(* request of the latest session, even after that session was dropped from *)
(* inside the handling of one of its requests.                             *)
OwnedByLatest == \A s \in Subsystem : enabled[s] \in {0, last}

(* A host that keeps trying gets in, after any number of half-open         *)
(* connections, rejected attempts, failed binds, lost links and changes of *)
(* address, once the network and the host are well.                        *)
Calm ==
  /\ <>[]up
  /\ <>[][/\ ~LinkChange /\ ~AddressChange /\ ~Restart /\ ~Leave
          /\ alive => ~DispatchDrops /\ ~StatusDrops]_vars

HostGetsIn == Calm /\ WF_vars(Knock) => <>[](alive /\ client # 0)

(* The gateway's waiter never hangs (comm_core.c:841): every request of a  *)
(* connection that lasts is answered, known command or not.                *)
RequestsAreAnswered == <>[]alive => []<>(answered = requests)

(* comm_core.c:910 "dropped session -> all disabled", comm_core.h:57       *)
(* "disconnect also resets the log threshold to INFO": when the loop goes  *)
(* on without a client, nothing is enabled and the threshold is INFO.      *)
DropDisablesAll ==
  client = 0 /\ pc # "input" => enabled = AllOff /\ verbose = 0
=============================================================================
