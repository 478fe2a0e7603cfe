------------------------------ MODULE Capabilities ------------------------------
(***************************************************************************)
(* The capability descriptor (components/lccore/capabilities.c) and the    *)
(* reads of it in chunks (handle_get_capabilities, comm_core.c).  A field  *)
(* of two or four bytes, and a text, is one item of the sequence.          *)
(***************************************************************************)
EXTENDS Integers, Sequences

CONSTANTS
  BlobMax,    \* CAPS_BLOB_MAX
  ChunkMax    \* CAPS_CHUNK_MAX

ASSUME BlobMaxAssumption == BlobMax \in Nat
ASSUME ChunkMaxAssumption == ChunkMax \in Nat \ {0}

Version == 1

(* Tags, kinds and texts *)
BoardInfo == 1
PortGroup == 2
Discrete  == 2
HidAxis   == 5
HidButton == 6
GroupLabel == 1
OutDriver == 16
Relay == 0
Text == 99
Axes == 8
Buttons == 32

(* begin_tlv, the value, end_tlv *)
Tlv(tag, value) == <<tag, Len(value)>> \o value

Group(kind, inputs, outputs, more) ==
  Tlv(PortGroup, <<kind, 0, inputs, outputs, 0>> \o Tlv(GroupLabel, <<Text>>) \o more)

(* capabilities_init: the discrete group is left out when there is none.   *)
Descriptor(inputs, outputs) ==
  <<Version, 0, 0>>
    \o Tlv(BoardInfo, Tlv(1, <<Text>>) \o Tlv(2, <<Text>>))
    \o (IF inputs > 0 \/ outputs > 0
        THEN Group(Discrete, inputs, outputs, Tlv(OutDriver, <<Relay>>))
        ELSE <<>>)
    \o Group(HidAxis, 0, Axes, <<>>)
    \o Group(HidButton, 0, Buttons, <<>>)

Available(blob) == Len(blob) <= BlobMax

Chunk(blob, offset) ==
  SubSeq(blob, offset + 1, IF Len(blob) - offset < ChunkMax THEN Len(blob)
                           ELSE offset + ChunkMax)

(* handle_get_capabilities, for a payload that is long enough *)
GetCapabilities(blob, version, offset) ==
  LET refused(status) == [status |-> status, total |-> 0, bytes |-> <<>>]
  IN  IF ~Available(blob) THEN refused("error")
      ELSE IF version # Version THEN refused("unsupported")
      ELSE IF offset > Len(blob) THEN refused("error")
      ELSE [status |-> "ok", total |-> Len(blob), bytes |-> Chunk(blob, offset)]
-----------------------------------------------------------------------------
(***************************************************************************)
(* The reference: a reader that takes the items one after the other, steps *)
(* over what it does not know by its length, and collects the port groups  *)
(* as kind, inputs and outputs.                                            *)
(***************************************************************************)
GroupsFrom(blob, o, from) ==
  IF o + 2 > Len(blob) THEN <<>>
  ELSE (IF blob[o + 1] = PortGroup
        THEN <<[kind |-> blob[o + 3], inputs |-> blob[o + 5], outputs |-> blob[o + 6]]>>
        ELSE <<>>)
       \o from[o + 2 + blob[o + 2]]

PortGroups(blob) ==
  LET from[o \in Nat] == GroupsFrom(blob, o, from)
  IN  from[3]

Groups(inputs, outputs) ==
  (IF inputs + outputs > 0
   THEN <<[kind |-> Discrete, inputs |-> inputs, outputs |-> outputs]>> ELSE <<>>)
  \o <<[kind |-> HidAxis, inputs |-> 0, outputs |-> Axes],
       [kind |-> HidButton, inputs |-> 0, outputs |-> Buttons]>>
================================================================================
