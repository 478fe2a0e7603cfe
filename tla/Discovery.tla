-------------------------------- MODULE Discovery --------------------------------
(***************************************************************************)
(* From power-on to a host that knows the card: the modules are looked for *)
(* (BootProbe), the descriptor is built from what was found (Capabilities),*)
(* the network comes and goes and changes its address (net_eth.c), the     *)
(* card advertises itself (ssdp_task.c), and the host takes its address,   *)
(* its description and its descriptor.                                     *)
(*                                                                         *)
(* Network state reaches the tasks on two ways: the address is read from   *)
(* the interface, s_got_ip is set and cleared by events that are handled   *)
(* later, and losing the lease clears the address without an event.        *)
(***************************************************************************)
EXTENDS BootProbe, Capabilities

CONSTANTS
  Address,     \* what the DHCP server may give out
  NoAddr,      \* 0.0.0.0
  BurstSize,   \* NOTIFYs at start-up
  MaxEvents    \* bound: with more unhandled events the network does not change

ASSUME AddressAssumption == NoAddr \notin Address
ASSUME BurstAssumption == BurstSize \in Nat \ {0}
ASSUME MaxEventsAssumption == MaxEvents \in Nat \ {0}

VARIABLES
  \* network
  addr,      \* the address of the interface
  events,    \* posted to the event loop and not yet handled
  gotIp,     \* s_got_ip
  member,    \* the network forwards the SSDP group to the card
  \* ssdp_task
  pc,        \* where the task is
  bound,     \* bound_ip
  left,      \* NOTIFYs left of the startup burst
  search,    \* an M-SEARCH waits at its socket
  \* http_desc_task
  http,      \* "wait", "listen", or "client": with one that has sent nothing
  \* the host
  kind,      \* it listens for NOTIFYs, or searches
  known,     \* the address it takes the card to have: {a}, or {}
  host,      \* "seek", "reading" the descriptor, "done"
  read       \* what it has of the descriptor

netVars  == <<addr, events, gotIp, member>>
ssdpVars == <<pc, bound, left, search>>
hostVars == <<kind, known, host, read>>
vars     == <<probeVars, netVars, ssdpVars, http, hostVars>>
-----------------------------------------------------------------------------
Blob == Descriptor(count["m31in"], count["waveshare"] + count["m31out"])

Init ==
  /\ ProbeInit
  /\ addr = NoAddr /\ events = <<>> /\ gotIp = FALSE /\ member = FALSE
  /\ pc = "wait" /\ bound = NoAddr /\ left = 0 /\ search = FALSE
  /\ http = "wait"
  /\ kind \in {"listener", "searcher"}
  /\ known = {} /\ host = "seek" /\ read = <<>>

(* The host starts over, with or without an address to try. *)
SeekAgain(addresses) ==
  /\ known' = addresses
  /\ host' = "seek"
  /\ read' = <<>>
  /\ kind' = kind
-----------------------------------------------------------------------------
(* app_main: the network starts when the population is known. *)
Probe ==
  /\ ProbeStep
  /\ UNCHANGED <<netVars, ssdpVars, http, hostVars>>

PowerLoss ==
  /\ PowerCycle
  /\ addr' = NoAddr /\ events' = <<>> /\ gotIp' = FALSE /\ member' = FALSE
  /\ pc' = "wait" /\ bound' = NoAddr /\ left' = 0 /\ search' = FALSE
  /\ http' = "wait"
  /\ SeekAgain(known)

(* The world.  A change of address ends every connection.                  *)
AddressBecomes(a) ==
  /\ Booted
  /\ Len(events) < MaxEvents
  /\ addr' = a
  /\ SeekAgain(known)
  /\ UNCHANGED <<probeVars, gotIp, ssdpVars, http>>

Lease(a) ==
  /\ addr # a
  /\ AddressBecomes(a)
  /\ events' = Append(events, "got_ip")
  /\ member' = member

LeaseLost ==
  /\ addr # NoAddr
  /\ AddressBecomes(NoAddr)
  /\ UNCHANGED <<events, member>>

LinkLost ==
  /\ AddressBecomes(NoAddr)
  /\ events' = Append(events, "disconnected")
  /\ member' = FALSE

(* A switch that snoops IGMP forgets the card. *)
AgeOut ==
  /\ member
  /\ member' = FALSE
  /\ UNCHANGED <<probeVars, addr, events, gotIp, ssdpVars, http, hostVars>>

(* eth_event_handler and ip_event_handler, in the order of the events *)
HandleEvent ==
  /\ events # <<>>
  /\ events' = Tail(events)
  /\ gotIp' = (Head(events) = "got_ip")
  /\ UNCHANGED <<probeVars, addr, member, ssdpVars, http, hostVars>>
-----------------------------------------------------------------------------
(* ssdp_task *)
Ready ==
  /\ Booted
  /\ pc = "wait"
  /\ gotIp
  /\ pc' = "read"
  /\ UNCHANGED <<probeVars, netVars, bound, left, search, http, hostVars>>

ReadAddress ==
  /\ pc = "read"
  /\ bound' = addr
  /\ pc' = "open"
  /\ UNCHANGED <<probeVars, netVars, left, search, http, hostVars>>

OpenFails ==
  /\ pc = "open"
  /\ pc' = "wait" /\ bound' = NoAddr
  /\ UNCHANGED <<probeVars, netVars, left, search, http, hostVars>>

(* ssdp_group_rejoin: joining on an address the interface does not have    *)
(* fails; an INADDR_ANY membership is on every interface.                  *)
Rejoin == member' = (member \/ (addr # NoAddr /\ bound \in {addr, NoAddr}))

Open ==
  /\ pc = "open"
  /\ Rejoin
  /\ left' = BurstSize
  /\ pc' = "burst"
  /\ UNCHANGED <<probeVars, addr, events, gotIp, bound, search, http, hostVars>>

(* What the host hears names the address of that moment, and it gives up   *)
(* what it had of the card if that is another.                             *)
Hears == IF known = {addr} THEN UNCHANGED hostVars ELSE SeekAgain({addr})

(* ssdp_send_notify; a multicast can be lost, and is without an address.   *)
Notify(heard) ==
  IF heard /\ addr # NoAddr /\ kind = "listener" THEN Hears ELSE UNCHANGED hostVars

Burst(heard) ==
  /\ pc = "burst"
  /\ Notify(heard)
  /\ left' = left - 1
  /\ pc' = IF left' = 0 THEN "turn" ELSE "burst"
  /\ UNCHANGED <<probeVars, netVars, bound, search, http>>

(* Mutant: it serves until the link drops, whatever becomes of the address.*)
StillServingLink == gotIp

StillServing == gotIp /\ addr = bound

Turn ==
  /\ pc = "turn"
  /\ StillServing
  /\ pc' = "select"
  /\ UNCHANGED <<probeVars, netVars, bound, left, search, http, hostVars>>

(* close(sock) leaves the group. *)
Leave ==
  /\ pc = "turn"
  /\ ~StillServing
  /\ pc' = "wait" /\ bound' = NoAddr /\ search' = FALSE
  /\ member' = FALSE
  /\ UNCHANGED <<probeVars, addr, events, gotIp, left, http, hostVars>>

AnswerSearch(heard) ==
  /\ pc = "select"
  /\ search
  /\ search' = FALSE
  /\ pc' = "timers"
  /\ IF heard /\ addr # NoAddr THEN Hears ELSE UNCHANGED hostVars
  /\ UNCHANGED <<probeVars, netVars, bound, left, http>>

(* A second without a datagram, or one that is no M-SEARCH *)
NoSearch ==
  /\ pc = "select"
  /\ ~search
  /\ pc' = "timers"
  /\ UNCHANGED <<probeVars, netVars, bound, left, search, http, hostVars>>

(* The timer of 30 s, and the one of 5 minutes *)
Periodic(notify, heard, rejoin) ==
  /\ pc = "timers"
  /\ IF notify THEN Notify(heard) ELSE UNCHANGED hostVars
  /\ IF rejoin THEN Rejoin ELSE member' = member
  /\ pc' = "turn"
  /\ UNCHANGED <<probeVars, addr, events, gotIp, bound, left, search, http>>

SsdpStep ==
  \/ Ready \/ ReadAddress \/ OpenFails \/ Open
  \/ \E heard \in BOOLEAN : Burst(heard)
  \/ Turn \/ Leave
  \/ \E heard \in BOOLEAN : AnswerSearch(heard)
  \/ NoSearch
  \/ \E notify, heard, rejoin \in BOOLEAN : Periodic(notify, heard, rejoin)
-----------------------------------------------------------------------------
(* http_desc_task: it serves one client at a time, for at most two seconds *)
(* when that one sends nothing.                                            *)
HttpOpen ==
  /\ Booted
  /\ http = "wait"
  /\ gotIp
  /\ http' = "listen"
  /\ UNCHANGED <<probeVars, netVars, ssdpVars, hostVars>>

AcceptFails ==
  /\ http = "listen"
  /\ http' = "wait"
  /\ UNCHANGED <<probeVars, netVars, ssdpVars, hostVars>>

SilentClient ==
  /\ http = "listen"
  /\ addr # NoAddr
  /\ http' = "client"
  /\ UNCHANGED <<probeVars, netVars, ssdpVars, hostVars>>

ReceiveTimeout ==
  /\ http = "client"
  /\ http' = "listen"
  /\ UNCHANGED <<probeVars, netVars, ssdpVars, hostVars>>

Reachable == addr # NoAddr /\ known = {addr}

(* A GET and its description, and the control connection (CommSession) *)
Fetch ==
  /\ http = "listen"
  /\ host = "seek"
  /\ Reachable
  /\ host' = "reading"
  /\ UNCHANGED <<probeVars, netVars, ssdpVars, http, kind, known, read>>

(* The host *)
SendSearch ==
  /\ kind = "searcher"
  /\ known = {}
  /\ member /\ addr # NoAddr /\ pc \notin {"wait", "read", "open"}
  /\ search' = TRUE
  /\ UNCHANGED <<probeVars, netVars, pc, bound, left, http, hostVars>>

(* Nobody answers at the address it has. *)
GivesUp ==
  /\ known # {}
  /\ ~Reachable
  /\ SeekAgain({})
  /\ UNCHANGED <<probeVars, netVars, ssdpVars, http>>

(* GET_CAPABILITIES from where it is, until it has the announced length *)
ReadChunk ==
  /\ host = "reading"
  /\ LET ack == GetCapabilities(Blob, Version, Len(read))
     IN  /\ ack.status = "ok"
         /\ read' = read \o ack.bytes
         /\ host' = IF Len(read') = ack.total THEN "done" ELSE "reading"
  /\ UNCHANGED <<probeVars, netVars, ssdpVars, http, kind, known>>

Next ==
  \/ Probe \/ PowerLoss
  \/ \E a \in Address : Lease(a)
  \/ LeaseLost \/ LinkLost \/ AgeOut
  \/ HandleEvent
  \/ SsdpStep
  \/ HttpOpen \/ AcceptFails \/ SilentClient \/ ReceiveTimeout
  \/ Fetch \/ SendSearch \/ GivesUp \/ ReadChunk

(* The tasks run and the host goes on trying.  A socket can be opened at   *)
(* last; the timers come round, and what is sent then does not always get  *)
(* lost; the server is not always busy with others when the host asks.     *)
Fairness ==
  /\ WF_vars(Probe) /\ WF_vars(HandleEvent) /\ WF_vars(SsdpStep)
  /\ SF_vars(Open)
  /\ SF_vars(bound = addr /\ \E rejoin \in BOOLEAN : Periodic(TRUE, TRUE, rejoin))
  /\ SF_vars(\E notify, heard \in BOOLEAN : Periodic(notify, heard, TRUE))
  /\ SF_vars(SendSearch) /\ SF_vars(AnswerSearch(TRUE))
  /\ WF_vars(HttpOpen \/ ReceiveTimeout)
  /\ SF_vars(Fetch)
  /\ WF_vars(GivesUp \/ ReadChunk)

Spec == Init /\ [][Next]_vars
FairSpec == Spec /\ Fairness
-----------------------------------------------------------------------------
TypeOK ==
  /\ ProbeTypeOK
  /\ addr \in Address \cup {NoAddr}
  /\ addr # NoAddr => Booted
  /\ events \in Seq({"got_ip", "disconnected"}) /\ Len(events) <= MaxEvents
  /\ gotIp \in BOOLEAN /\ member \in BOOLEAN /\ search \in BOOLEAN
  /\ pc \in {"wait", "read", "open", "burst", "turn", "select", "timers"}
  /\ bound \in Address \cup {NoAddr}
  /\ left \in 0..BurstSize /\ (left > 0 => pc = "burst")
  /\ http \in {"wait", "listen", "client"}
  /\ kind \in {"listener", "searcher"}
  /\ known \in SUBSET Address /\ known \in {{}} \cup {{a} : a \in Address}
  /\ host \in {"seek", "reading", "done"}
  /\ host \in {"reading", "done"} => addr # NoAddr /\ known = {addr}
  /\ Len(read) <= BlobMax

(* Once the network leaves the card an address, the host finds it there,   *)
(* however often and in whatever order link, lease, power and membership   *)
(* were lost before, whoever keeps the description server waiting, and     *)
(* whether it listens or searches; and the ports it reads of the card are  *)
(* those the card found at this boot.                                      *)
KnowsTheCard(a) ==
  /\ host = "done"
  /\ known = {a}
  /\ PortGroups(read) = Groups(count["m31in"], count["waveshare"] + count["m31out"])

HostFindsCard == \A a \in Address : <>[](addr = a) => <>[]KnowsTheCard(a)
=================================================================================
