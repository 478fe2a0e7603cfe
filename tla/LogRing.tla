------------------------------- MODULE LogRing -------------------------------
(***************************************************************************)
(* The log channel: the ring every task writes lines into                  *)
(* (components/lccore/lc_log.c) and the flush of the comm task that drains *)
(* it into numbered datagrams (main/comm_task.c).                          *)
(*                                                                         *)
(* A line passes the g_in_log test before its task takes the lock, and the *)
(* flush takes the lock once per record, so lines are stored and dropped   *)
(* between any two steps of the flush.  Lines are numbered as they are     *)
(* stored; a record is its number and its size.  Lines under the threshold *)
(* never reach the ring and are left out (CommSession has the threshold).  *)
(***************************************************************************)
EXTENDS Integers, Sequences, FiniteSets

CONSTANTS
  Tasks,       \* the tasks that log
  Comm,        \* the one that drains
  Sizes,       \* record sizes, overhead included
  RingSize,    \* LOG_RING_SIZE
  PacketSize,  \* the room for records in a payload
  Wrap,        \* 2^16: g_dropped and g_seq wrap
  MaxLines     \* bound: the lines stored in a behaviour

ASSUME CommAssumption == Comm \in Tasks /\ IsFiniteSet(Tasks)
ASSUME SizesAssumption ==
  Sizes \subseteq 1..RingSize /\ Sizes \subseteq 1..PacketSize
ASSUME RoomAssumption == RingSize \in Nat /\ PacketSize \in Nat
ASSUME WrapAssumption == Wrap \in Nat \ {0}
ASSUME MaxLinesAssumption == MaxLines \in Nat

VARIABLES
  ring,       \* g_ring from g_tail to g_head
  used,       \* g_used
  dropped,    \* g_dropped
  seq,        \* g_seq
  inLog,      \* g_in_log
  pending,    \* per task: the size of a line past the g_in_log test, or 0
  phase,      \* the flush: "idle", "open", "fill" or "built"
  left,       \* the datagrams this pass may still build
  hdr,        \* the dropped field of the datagram
  lines,      \* the records of the datagram
  hostKnown,  \* s_host_known
  stored,     \* history: the number of lines stored
  lost,       \* history: the numbers of the lines dropped for room
  prevLast    \* history: the last line of the datagram before this one

ringVars == <<ring, used, dropped, stored, lost>>
flushVars == <<phase, left, hdr, lines, prevLast>>
vars == <<ringVars, flushVars, seq, inLog, pending, hostKnown>>
-----------------------------------------------------------------------------
BytesUpTo(records, i, upTo) ==
  IF i = 0 THEN 0 ELSE upTo[i - 1] + records[i].size

Bytes(records) ==
  LET upTo[i \in 0..Len(records)] == BytesUpTo(records, i, upTo)
  IN  upTo[Len(records)]

Ids(records) == {records[i].id : i \in DOMAIN records}

LastId == lines[Len(lines)].id

Init ==
  /\ ring = <<>> /\ used = 0 /\ dropped = 0 /\ seq = 0 /\ inLog = FALSE
  /\ pending = [t \in Tasks |-> 0]
  /\ phase = "idle" /\ left = 0 /\ hdr = 0 /\ lines = <<>>
  /\ hostKnown = FALSE
  /\ stored = 0 /\ lost = {} /\ prevLast = 0

(* The comm task logs from its handlers only, never inside a flush.        *)
MayLog(t) == pending[t] = 0 /\ (t = Comm => phase = "idle")

(* log_emit up to the lock.  A line that finds g_in_log set goes to the     *)
(* console only, whichever task logs it: nothing changes here.             *)
Write(t, size) ==
  /\ MayLog(t)
  /\ ~inLog
  /\ stored + Cardinality({u \in Tasks : pending[u] # 0}) < MaxLines
  /\ pending' = [pending EXCEPT ![t] = size]
  /\ UNCHANGED <<ringVars, flushVars, seq, inLog, hostKnown>>

EvictedOnce(size) == IF used + size > RingSize THEN 1 ELSE 0

(* ring_push drops whole oldest records until the new one fits, each       *)
(* counted.                                                                *)
Evicted(size) ==
  CHOOSE k \in 0..Len(ring) :
    /\ used - Bytes(SubSeq(ring, 1, k)) + size =< RingSize
    /\ \A j \in 0..(k - 1) :
         used - Bytes(SubSeq(ring, 1, j)) + size > RingSize

Push(t) ==
  LET size == pending[t]
      k    == Evicted(size)
      gone == SubSeq(ring, 1, k)
  IN /\ size # 0
     /\ ring' = Append(SubSeq(ring, k + 1, Len(ring)),
                       [id |-> stored + 1, size |-> size])
     /\ used' = used - Bytes(gone) + size
     /\ dropped' = (dropped + k) % Wrap
     /\ lost' = lost \cup Ids(gone)
     /\ stored' = stored + 1
     /\ pending' = [pending EXCEPT ![t] = 0]
     /\ UNCHANGED <<flushVars, seq, inLog, hostKnown>>
-----------------------------------------------------------------------------
(* log_flush_service: a pass builds at most two datagrams.  How long the   *)
(* lines wait for the pass (200 bytes or 100 ms) is left to the scheduler. *)
Flush ==
  /\ phase = "idle" /\ pending[Comm] = 0
  /\ hostKnown
  /\ used # 0
  /\ phase' = "open" /\ left' = 2 /\ inLog' = TRUE
  /\ UNCHANGED <<ringVars, hdr, lines, prevLast, seq, pending, hostKnown>>

(* lc_log_net_build_packet: the header is read in a lock of its own.       *)
Header ==
  /\ phase = "open"
  /\ used # 0
  /\ phase' = "fill" /\ hdr' = dropped /\ lines' = <<>>
  /\ UNCHANGED <<ringVars, left, prevLast, seq, inLog, pending, hostKnown>>

NothingToBuild ==
  /\ phase = "open"
  /\ used = 0
  /\ phase' = "idle" /\ inLog' = FALSE
  /\ UNCHANGED <<ringVars, left, hdr, lines, prevLast, seq, pending,
                 hostKnown>>

FitsStrictly == used # 0 /\ Bytes(lines) + ring[1].size < PacketSize

Fits == used # 0 /\ Bytes(lines) + ring[1].size =< PacketSize
Pop ==
  /\ phase = "fill"
  /\ Fits
  /\ lines' = Append(lines, Head(ring))
  /\ ring' = Tail(ring)
  /\ used' = used - Head(ring).size
  /\ UNCHANGED <<dropped, stored, lost, phase, left, hdr, prevLast, seq,
                 inLog, pending, hostKnown>>

CloseRereads ==  \* the header is read with the last record
  /\ phase = "fill"
  /\ ~Fits
  /\ inLog' = FALSE
  /\ IF lines = <<>>
       THEN phase' = "idle" /\ seq' = seq
       ELSE phase' = "built" /\ seq' = (seq + 1) % Wrap
  /\ hdr' = dropped
  /\ UNCHANGED <<ringVars, left, lines, prevLast, pending, hostKnown>>

CloseConsumes ==  \* the record that does not fit is popped to find out
  /\ phase = "fill"
  /\ ~Fits
  /\ inLog' = FALSE
  /\ IF lines = <<>>
       THEN phase' = "idle" /\ seq' = seq
       ELSE phase' = "built" /\ seq' = (seq + 1) % Wrap
  /\ IF ring = <<>>
       THEN UNCHANGED <<ring, used>>
       ELSE ring' = Tail(ring) /\ used' = used - Head(ring).size
  /\ UNCHANGED <<dropped, stored, lost, left, hdr, lines, prevLast, pending,
                 hostKnown>>

(* Nothing fits any more: a sequence number is used for a datagram that    *)
(* has lines.                                                              *)
Close ==
  /\ phase = "fill"
  /\ ~Fits
  /\ inLog' = FALSE
  /\ IF lines = <<>>
       THEN phase' = "idle" /\ seq' = seq
       ELSE phase' = "built" /\ seq' = (seq + 1) % Wrap
  /\ UNCHANGED <<ringVars, left, hdr, lines, prevLast, pending, hostKnown>>

(* comm_core_send_udp: the records are out of the ring whatever it says.   *)
Sent ==
  /\ phase = "built"
  /\ left' = left - 1
  /\ IF left > 1 THEN phase' = "open" /\ inLog' = TRUE
                 ELSE phase' = "idle" /\ UNCHANGED inLog
  /\ prevLast' = LastId /\ lines' = <<>>
  /\ UNCHANGED <<ringVars, hdr, seq, pending, hostKnown>>

SendFailed ==
  /\ phase = "built"
  /\ phase' = "idle"
  /\ prevLast' = LastId /\ lines' = <<>>
  /\ UNCHANGED <<ringVars, left, hdr, seq, inLog, pending, hostKnown>>

(* A ping of the host; the sockets are closed and opened again.            *)
HostFound ==
  /\ ~hostKnown /\ phase = "idle"
  /\ hostKnown' = TRUE
  /\ UNCHANGED <<ringVars, flushVars, seq, inLog, pending>>

HostForgotten ==
  /\ hostKnown /\ phase = "idle"
  /\ hostKnown' = FALSE
  /\ UNCHANGED <<ringVars, flushVars, seq, inLog, pending>>
-----------------------------------------------------------------------------
FlushNext ==
  Flush \/ Header \/ NothingToBuild \/ Pop \/ Close \/ Sent \/ SendFailed

Next ==
  \/ FlushNext
  \/ HostFound \/ HostForgotten
  \/ \E t \in Tasks :
       Push(t) \/ \E size \in Sizes : Write(t, size)

Spec == Init /\ [][Next]_vars

(* The comm task keeps running, and so does a task that has a line in its  *)
(* hands: FreeRTOS schedules both, and the lock is held for one record.    *)
FairSpec ==
  Spec /\ WF_vars(FlushNext) /\ \A t \in Tasks : WF_vars(Push(t))
-----------------------------------------------------------------------------
(* The fill counter is the size of what is stored, within the ring.        *)
TypeOK ==
  /\ ring \in Seq([id : 1..MaxLines, size : Sizes])
  /\ used = Bytes(ring) /\ used =< RingSize
  /\ dropped \in 0..(Wrap - 1) /\ seq \in 0..(Wrap - 1)
  /\ pending \in [Tasks -> Sizes \cup {0}]
  /\ phase \in {"idle", "open", "fill", "built"}
  /\ left \in 0..2 /\ hdr \in 0..(Wrap - 1)
  /\ lines \in Seq([id : 1..MaxLines, size : Sizes])
  /\ Bytes(lines) =< PacketSize
  /\ inLog \in BOOLEAN /\ (inLog <=> phase \in {"open", "fill"})
  /\ hostKnown \in BOOLEAN
  /\ stored \in 0..MaxLines /\ lost \subseteq 1..MaxLines
  /\ prevLast \in 0..MaxLines

(* lc_log.c:192-218.  However lines are stored and dropped while a         *)
(* datagram is put together, it holds lines in the order they were stored, *)
(* and a line between two datagrams or inside one is missing only because  *)
(* it was dropped for room.                                                *)
InOrderOrDropped ==
  phase = "built" =>
    /\ lines # <<>>
    /\ \A i, j \in DOMAIN lines : i < j => lines[i].id < lines[j].id
    /\ prevLast < Head(lines).id
    /\ ((prevLast + 1)..LastId) \ Ids(lines) \subseteq lost

(* lc_log.c:180-190.  The dropped field is read before the lines, so it    *)
(* announces every gap up to the previous datagram's last line, and never  *)
(* a line lost after the first one here: a host that reads the difference  *)
(* of two datagrams is late by one at most, and never ahead.               *)
Missing(n) == Cardinality({i \in lost : i < n})
GapsAnnounced ==
  phase = "built" =>
    \E d \in Missing(prevLast)..Missing(Head(lines).id) : d % Wrap = hdr

(* comm_task.c:325-338.  While the host's endpoint is known, no line stays *)
(* in the ring: a record that never fitted would hold up all after it.     *)
LinesLeave ==
  \A n \in 1..MaxLines :
    <>[]hostKnown => (n \in Ids(ring) ~> n \notin Ids(ring))
=============================================================================
