-------------------------------- MODULE CommCore --------------------------------
(***************************************************************************)
(* The wire in bytes: what the comm task reads from its two sockets        *)
(* (comm_task.c), the frames comm_core_input finds in it, and the channel  *)
(* commands they carry (comm_core.c).                                      *)
(*                                                                         *)
(* The control stream arrives in arbitrary cuts and may hold bytes that    *)
(* make no frame; a datagram is whole or lost.  Both go through the same   *)
(* scanner and dispatcher, but only the stream may configure and query,    *)
(* and only a valid PING moves the endpoint that datagrams are sent to.    *)
(***************************************************************************)
EXTENDS Framing, ArincChannels

CONSTANTS
  Peer,        \* who sends datagrams
  RxSize,      \* COMM_RX_BUF_SIZE
  Items,       \* what the host puts on the stream at a time: byte sequences
  Datagrams,   \* the datagrams that arrive
  MaxUnread    \* bound: with more bytes than this unread, the host waits

ASSUME RxSizeAssumption == RxSize \in Nat /\ RxSize >= MaxPacket
ASSUME InputAssumption == Items \cup Datagrams \subseteq Seq(Byte)
ASSUME RecordAssumption == Lbl # {} /\ {0, 1} \subseteq Sdi
ASSUME PeerAssumption == "none" \notin Peer /\ "tcp" \notin Peer

VARIABLES
  client,     \* s_tcp_client >= 0
  wire,       \* received from the client by the TCP stack
  rx,         \* s_rxbuf[0 .. s_rxlen-1]
  endpoint,   \* s_host_addr when s_host_known: {peer}, or {}
  \* the call of comm_core_input under way
  src,        \* "none", "tcp", or the peer whose datagram it is
  buf, off

commVars == <<client, wire, rx, endpoint, src, buf, off>>
vars     == <<arincVars, commVars>>
-----------------------------------------------------------------------------
(* The command bytes: those of the channel commands, then PING, the other  *)
(* queries, which are answered and change nothing; then the unknown ones.  *)
CodeOf == [setup |-> 1, enable |-> 2, manual |-> 3, add |-> 4, build |-> 5,
           update |-> 6]
Ping  == 7
Query == 8

(* A fixed-size record of a payload is one byte here; its value stands for *)
(* the fields: in the order of weight 1, 2, 4 and 8,                       *)
(*   setup, enable : mode beyond the last / is_enable, channel, direction  *)
(*   add           : sdi, channel                                          *)
(*   update        : enable, channel, sdi_is_data, sdi                     *)
(*   manual, build : -, channel                                            *)
Bit(b, weight) == (b \div weight) % 2

Decode(cmd, b) ==
  [dir    |-> IF cmd \notin {"setup", "enable"} \/ b \div 4 = 0 THEN "tx"
              ELSE IF b \div 4 = 1 THEN "rx" ELSE "none",
   ch     |-> Bit(b, 2),
   params |-> IF cmd = "setup" /\ Bit(b, 1) = 1 THEN "mode" ELSE "ok",
   on     |-> Bit(b, 1) = 1,
   any    |-> Bit(b, 4) = 1,
   lbl    |-> CHOOSE l \in Lbl : TRUE,
   sdi    |-> IF cmd = "add" THEN Bit(b, 1) ELSE Bit(b, 8)]

Records(cmd, payload) ==
  LET read == IF cmd = "build" /\ payload # <<>> THEN SubSeq(payload, 1, 1) ELSE payload
  IN  [i \in 1..Len(read) |-> Decode(cmd, read[i])]
-----------------------------------------------------------------------------
Init ==
  /\ ArincInit
  /\ client = FALSE /\ wire = <<>> /\ rx = <<>>
  /\ endpoint = {}
  /\ src = "none" /\ buf = <<>> /\ off = 0

Idle == src = "none"

(* tcp_accept_service: the rejection of a second client is in CommSession. *)
Connect ==
  /\ Idle
  /\ ~client
  /\ client' = TRUE
  /\ wire' = <<>> /\ rx' = <<>>
  /\ SessionEdge
  /\ UNCHANGED <<endpoint, src, buf, off>>

(* tcp_client_drop with a client *)
Drop ==
  /\ client
  /\ client' = FALSE
  /\ wire' = <<>> /\ rx' = <<>>
  /\ SessionEdge

(* recv fails or returns 0 *)
PeerGone ==
  /\ Idle
  /\ Drop
  /\ UNCHANGED <<endpoint, src, buf, off>>

(* comm_sockets_close *)
SocketsClose ==
  /\ Idle
  /\ IF client THEN Drop ELSE UNCHANGED <<arincVars, client, wire, rx>>
  /\ endpoint' = {}
  /\ UNCHANGED <<src, buf, off>>

(* tcp_client_service reads as much as there is room for, or less.         *)
Receive ==
  /\ Idle
  /\ client
  /\ LET kept == IF Len(rx) = RxSize THEN <<>> ELSE rx
     IN  \E n \in 1..(RxSize - Len(kept)) :
           /\ n <= Len(wire)
           /\ buf' = kept \o SubSeq(wire, 1, n)
           /\ wire' = SubSeq(wire, n + 1, Len(wire))
  /\ rx' = buf'
  /\ src' = "tcp"
  /\ off' = 0
  /\ UNCHANGED <<arincVars, client, endpoint>>

(* Mutant: the first bytes are looked at, the sum is not. *)
IsPingByHeader(d) ==
  /\ Len(d) >= HeaderSize + CsumSize
  /\ IsHead(d, 0)
  /\ Cmd(d, 0) = Ping

(* udp_is_valid_ping: a whole, valid PING at the start of a datagram.      *)
IsValidPing(d) ==
  /\ Len(d) >= HeaderSize + CsumSize
  /\ IsHead(d, 0)
  /\ Cmd(d, 0) = Ping
  /\ Size(d, 0) <= MaxPayload
  /\ Len(d) >= Total(d, 0)
  /\ CsumHolds(d, 0)

(* udp_service: the endpoint is latched or re-seated, then the datagram    *)
(* dispatched.                                                             *)
Datagram(d, p) ==
  /\ Idle
  /\ endpoint' = IF IsValidPing(d) THEN {p} ELSE endpoint
  /\ src' = p
  /\ buf' = d
  /\ off' = 0
  /\ UNCHANGED <<arincVars, client, wire, rx>>
-----------------------------------------------------------------------------
(* comm_core_input and comm_dispatch *)
Scanning == ~Idle /\ job = NoJob

AtFrame == Scanning /\ IsWhole(buf, off)

(* Mutant: a frame with a wrong sum is given up whole. *)
SkipFrame ==
  /\ Scanning
  /\ Skipped(buf, off)
  /\ off' = IF /\ IsHead(buf, off) /\ Size(buf, off) <= MaxPayload
               /\ Avail(buf, off) >= Total(buf, off)
            THEN off + Total(buf, off)
            ELSE off + 1
  /\ UNCHANGED <<arincVars, client, wire, rx, endpoint, src, buf>>

Skip ==
  /\ Scanning
  /\ Skipped(buf, off)
  /\ off' = off + 1
  /\ UNCHANGED <<arincVars, client, wire, rx, endpoint, src, buf>>

(* Mutant: a command was forgotten in the list. *)
TcpOnlyButBuild == (1..8) \ {3, 5, Ping}

(* What comm_dispatch drops without a word when it came in a datagram *)
TcpOnly == {CodeOf[c] : c \in BatchCommand \ {"manual"}} \cup {Query}

Dropped == src # "tcp" /\ Cmd(buf, off) \in TcpOnly

Consume == off' = off + Total(buf, off)

(* A channel command: its handler starts. *)
DispatchBatch ==
  /\ AtFrame
  /\ ~Dropped
  /\ \E c \in BatchCommand :
       /\ CodeOf[c] = Cmd(buf, off)
       /\ Begin(c, Records(c, Payload(buf, off)))
  /\ Consume
  /\ UNCHANGED <<client, wire, rx, endpoint, src, buf>>

(* A PING, a query or an unknown command, or one that is not for datagrams:*)
(* answered on the stream, passed over in a datagram.                      *)
DispatchOther ==
  /\ AtFrame
  /\ Dropped \/ \A c \in BatchCommand : CodeOf[c] # Cmd(buf, off)
  /\ Consume
  /\ UNCHANGED <<arincVars, client, wire, rx, endpoint, src, buf>>

(* The same, with an answer that cannot be sent *)
OtherAnswerFails ==
  /\ AtFrame
  /\ src = "tcp"
  /\ \A c \in BatchCommand : CodeOf[c] # Cmd(buf, off)
  /\ Drop
  /\ Consume
  /\ UNCHANGED <<endpoint, src, buf>>

Handle ==
  /\ RecordStep
  /\ UNCHANGED commVars

(* comm_send_ack: sent, or nobody to send it to *)
Answer ==
  /\ Answered
  /\ UNCHANGED commVars

(* The answer cannot be sent, which drops the client; the scanner goes on  *)
(* with the buffer it was called with.                                     *)
AnswerFails ==
  /\ src = "tcp"
  /\ job # NoJob
  /\ Drop
  /\ UNCHANGED <<endpoint, src, buf, off>>

(* Mutant: what is left is dropped with what was consumed. *)
InputDoneClears ==
  /\ Scanning
  /\ ~Skipped(buf, off) /\ ~IsWhole(buf, off)
  /\ rx' = IF src = "tcp" THEN <<>> ELSE rx
  /\ src' = "none" /\ buf' = <<>> /\ off' = 0
  /\ UNCHANGED <<arincVars, client, wire, endpoint>>

(* The remainder of the stream is kept for the next read, if there is a    *)
(* client; that of a datagram is forgotten.                                *)
InputDone ==
  /\ Scanning
  /\ ~Skipped(buf, off) /\ ~IsWhole(buf, off)
  /\ rx' = IF src = "tcp" /\ client THEN SubSeq(buf, off + 1, Len(buf)) ELSE rx
  /\ src' = "none" /\ buf' = <<>> /\ off' = 0
  /\ UNCHANGED <<arincVars, client, wire, endpoint>>

(* The host; what it sends during a turn is read in a later one.           *)
Send(bytes) ==
  /\ Idle
  /\ client
  /\ Len(rx) + Len(wire) <= MaxUnread
  /\ wire' = wire \o bytes
  /\ UNCHANGED <<arincVars, client, rx, endpoint, src, buf, off>>

Next ==
  \/ Connect \/ PeerGone \/ SocketsClose
  \/ Receive
  \/ \E d \in Datagrams, p \in Peer : Datagram(d, p)
  \/ Skip
  \/ DispatchBatch \/ DispatchOther \/ OtherAnswerFails
  \/ Handle \/ Answer \/ AnswerFails
  \/ InputDone
  \/ \E bytes \in Items : Send(bytes)

Spec == Init /\ [][Next]_vars
-----------------------------------------------------------------------------
(* Full buffers hold a frame: what is kept between two reads is less than  *)
(* the largest packet, so there is always room to read into.               *)
CommTypeOK ==
  /\ client \in BOOLEAN
  /\ wire \in Seq(Byte)
  /\ rx \in Seq(Byte)
  /\ Idle => Len(rx) < MaxPacket
  /\ endpoint \in SUBSET Peer
  /\ src \in {"none", "tcp"} \cup Peer
  /\ buf \in Seq(Byte)
  /\ off \in 0..Len(buf)

TypeOK == ArincTypeOK /\ CommTypeOK

(* However the stream is cut into reads, whatever in it makes no frame, and*)
(* whatever datagrams come in between: while a session lasts, the frames   *)
(* of the stream are consumed one by one, each once and in order.          *)
Unread == (IF src = "tcp" THEN SubSeq(buf, off + 1, Len(buf)) ELSE rx) \o wire

StreamStep ==
  IF src = "tcp" /\ off' > off + 1
  THEN FramesOf(Unread) = <<SubSeq(buf, off + 1, off')>> \o FramesOf(Unread')
  ELSE FramesOf(Unread) = FramesOf(Unread')

CutsDoNotMatter ==
  [][client /\ client' /\ Len(Unread') <= Len(Unread) => StreamStep]_vars

(* A datagram configures nothing, whatever frames it holds; and the card's *)
(* datagrams move to the sender of one that starts with a whole PING, and  *)
(* to nobody else.                                                         *)
StartsWithPing(d) == FrameAt(d, 0) /\ d[5] = Ping

DatagramsOnlyLatch ==
  [][/\ src \in Peer => UNCHANGED <<chnl, tx, client, rx>>
     /\ endpoint' \notin {endpoint, {}} =>
          endpoint' = {src'} /\ StartsWithPing(buf')
     /\ src' \in Peer /\ StartsWithPing(buf') => endpoint' = {src'}]_vars
================================================================================
