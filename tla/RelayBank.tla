------------------------------ MODULE RelayBank ------------------------------
(***************************************************************************)
(* What the RS-485 backend promises to the rest of the firmware, without   *)
(* its bus, its two modules, its failure counters or its poll phases.      *)
(*                                                                         *)
(* A relay is energised only when it was armed, it is armed only while the *)
(* outputs are enabled and only when it is wanted, and what is wanted is   *)
(* changed by three things alone: a host command while the link is up, a   *)
(* change of enablement (which forgets everything), and the loss of the    *)
(* link (which replaces it by the last physical readback).                 *)
(***************************************************************************)

CONSTANT Channel   \* the relays of the bank

VARIABLES
  enabled,   \* outputs may be driven
  desired,   \* relays the host wants on
  reported,  \* relays on in the last published readback
  link,      \* the bank is reachable, as last published
  armed,     \* the relay an energising write is under way for: {} or {c}
  coils      \* relays that are physically on

vars == <<enabled, desired, reported, link, armed, coils>>

Init ==
  /\ enabled = FALSE
  /\ desired = {}
  /\ reported = {}
  /\ link = FALSE
  /\ armed = {}
  /\ coils \in SUBSET Channel

(* Enabling and disabling both forget every earlier command. *)
SetEnabled ==
  /\ enabled' \in BOOLEAN
  /\ desired' = {}
  /\ UNCHANGED <<reported, link, armed, coils>>

Command ==
  /\ enabled
  /\ link
  /\ desired' \in SUBSET Channel
  /\ UNCHANGED <<enabled, reported, link, armed, coils>>

(* A readback is published.  While the bank stays unreachable there is     *)
(* nothing new to read; when it becomes unreachable the readback is frozen *)
(* as what is wanted.                                                      *)
Report ==
  /\ reported' \in SUBSET Channel
  /\ link' \in BOOLEAN
  /\ (~link /\ ~link') => reported' = reported
  /\ desired' = IF link /\ ~link' /\ enabled THEN reported' ELSE desired
  /\ UNCHANGED <<enabled, armed, coils>>

Arm ==
  /\ enabled
  /\ armed = {}
  /\ \E c \in desired : armed' = {c}
  /\ UNCHANGED <<enabled, desired, reported, link, coils>>

(* The write ends: it took effect or it did not, and it is over. *)
Settle ==
  /\ armed # {}
  /\ armed' = {}
  /\ coils' \in {coils, coils \cup armed}
  /\ UNCHANGED <<enabled, desired, reported, link>>

Release ==
  /\ coils' \in SUBSET coils
  /\ UNCHANGED <<enabled, desired, reported, link, armed>>

Next == SetEnabled \/ Command \/ Report \/ Arm \/ Settle \/ Release

Spec == Init /\ [][Next]_vars
=============================================================================
