-------------------------------- MODULE Framing --------------------------------
(***************************************************************************)
(* The framing of the wire protocol (proto.h): what comm_core_build_frame  *)
(* makes, and the scanner of comm_core_input (comm_core.c), over sequences *)
(* of bytes.  A frame is                                                   *)
(*   head (2) | id | size | cmd | payload (size) | sum of id .. payload    *)
(* Offsets count the bytes before a position, as in the code.              *)
(***************************************************************************)
EXTENDS Naturals, Sequences, Functions

CONSTANTS
  Radix,        \* the number of values of a byte: 256 in the code
  MaxPayload,   \* PROTO_MAX_PAYLOAD
  ProtoHead     \* the two bytes of PROTO_HEAD, as they come

ASSUME MaxPayloadAssumption == MaxPayload \in Nat /\ Radix \in Nat /\ MaxPayload < Radix
ASSUME HeadAssumption == ProtoHead \in (0..Radix - 1) \X (0..Radix - 1)

Byte       == 0..Radix - 1
HeaderSize == 5
CsumSize   == 1
CsumStart  == 2
MaxPacket  == HeaderSize + MaxPayload + CsumSize

Csum(bytes) == FoldFunction(LAMBDA b, sum : (sum + b) % Radix, 0, bytes)

(* comm_core_build_frame, with the payload in its limit *)
BuildFrame(id, cmd, payload) ==
  LET covered == <<id, Len(payload), cmd>> \o payload
  IN  ProtoHead \o covered \o <<Csum(covered)>>
-----------------------------------------------------------------------------
(* The scanner, at offset o of a buffer *)
Avail(buf, o) == Len(buf) - o
IsHead(buf, o) == <<buf[o + 1], buf[o + 2]>> = ProtoHead
Size(buf, o) == buf[o + 4]
Cmd(buf, o) == buf[o + 5]
Payload(buf, o) == SubSeq(buf, o + HeaderSize + 1, o + HeaderSize + Size(buf, o))
Total(buf, o) == HeaderSize + Size(buf, o) + CsumSize

CsumHolds(buf, o) ==
  Csum(SubSeq(buf, o + CsumStart + 1, o + HeaderSize + Size(buf, o)))
    = buf[o + Total(buf, o)]

(* Mutant: an impossible size is waited for. *)
SkippedAnySize(buf, o) ==
  /\ Avail(buf, o) >= HeaderSize
  /\ \/ ~IsHead(buf, o)
     \/ /\ Avail(buf, o) >= Total(buf, o)
        /\ ~CsumHolds(buf, o)

(* One byte is given up: no head, a size that cannot be, a wrong sum. *)
Skipped(buf, o) ==
  /\ Avail(buf, o) >= HeaderSize
  /\ \/ ~IsHead(buf, o)
     \/ Size(buf, o) > MaxPayload
     \/ /\ Avail(buf, o) >= Total(buf, o)
        /\ ~CsumHolds(buf, o)

(* A frame to dispatch; where there is neither that nor a byte to give up, *)
(* the scan waits for more bytes.                                          *)
IsWhole(buf, o) ==
  /\ ~Skipped(buf, o)
  /\ Avail(buf, o) >= HeaderSize
  /\ Avail(buf, o) >= Total(buf, o)
-----------------------------------------------------------------------------
(***************************************************************************)
(* The reference: a frame is what BuildFrame makes.  The frames of a byte  *)
(* stream, read from its start: at each byte take the frame that begins    *)
(* there; stop where what is left is the beginning of one, or too short to *)
(* tell; else give the byte up.                                            *)
(***************************************************************************)
FrameSize(stream, o) == HeaderSize + CsumSize + stream[o + 4]

BeginsFrame(stream, o) ==
  /\ Len(stream) - o >= HeaderSize
  /\ SubSeq(stream, o + 1, o + 2) = ProtoHead
  /\ stream[o + 4] <= MaxPayload

FrameAt(stream, o) ==
  /\ BeginsFrame(stream, o)
  /\ o + FrameSize(stream, o) <= Len(stream)
  /\ SubSeq(stream, o + 1, o + FrameSize(stream, o)) =
       BuildFrame(stream[o + 3], stream[o + 5],
                  SubSeq(stream, o + 6, o + FrameSize(stream, o) - 1))

FramesFrom(stream, o, from) ==
  IF FrameAt(stream, o)
  THEN <<SubSeq(stream, o + 1, o + FrameSize(stream, o))>>
          \o from[o + FrameSize(stream, o)]
  ELSE IF \/ Len(stream) - o < HeaderSize
          \/ /\ BeginsFrame(stream, o)
             /\ o + FrameSize(stream, o) > Len(stream)
  THEN <<>>
  ELSE from[o + 1]

FramesOf(stream) ==
  LET from[o \in 0..Len(stream)] == FramesFrom(stream, o, from)
  IN  from[0]
================================================================================
