------------------------------- MODULE BootProbe -------------------------------
(***************************************************************************)
(* The discovery of the RS-485 modules at boot (probe_count and            *)
(* rs485_discrete_init, main/rs485_discrete.c): how many relays and inputs *)
(* answer, by a binary search over their addresses, on a bus that may lose *)
(* any request or reply.  The counts it ends with are in force until the   *)
(* next boot.                                                              *)
(***************************************************************************)
EXTENDS Integers

CONSTANTS
  Limit,     \* WAVESHARE_MAX_OUTPUTS, M31_MAX_OUTPUTS, M31_MAX_INPUTS
  Probes,    \* RS485_STARTUP_PROBES
  Plants     \* what may be wired to the card, per bank

Bank == {"waveshare", "m31out", "m31in"}

ASSUME LimitAssumption == Limit \in [Bank -> Nat \ {0}]
ASSUME ProbesAssumption == Probes \in Nat \ {0}
ASSUME PlantsAssumption == Plants \subseteq [Bank -> Nat]

VARIABLES
  attached,   \* the addresses each bank has
  attempt,    \* the discovery attempt under way
  bank,       \* the bank that is looked for, or "done"
  searching,  \* address 0 answered: the search proper
  low, high,  \* its bounds
  count,      \* s_bus: what each bank was found to have
  missed      \* history: the bank's latest search lost an answer it was due

probeVars == <<attached, attempt, bank, searching, low, high, count, missed>>
-----------------------------------------------------------------------------
BootValues ==
  /\ attempt = 1
  /\ bank = "waveshare"
  /\ searching = FALSE
  /\ low = 0 /\ high = 0
  /\ count = [b \in Bank |-> 0]
  /\ missed = [b \in Bank |-> FALSE]

ProbeInit == attached \in Plants /\ BootValues

Booted == bank = "done"

(* Looked for once in an attempt, unless found before; the inputs of the   *)
(* M31 only when its outputs were found.                                   *)
Wanted ==
  /\ count[bank] = 0
  /\ bank = "m31in" => count["m31out"] > 0

(* The rest of rs485_discrete_init: the next bank, the next attempt, or the*)
(* end, with the counts as they are by then.                               *)
Advance ==
  /\ searching' = FALSE
  /\ low' = 0 /\ high' = 0
  /\ IF bank # "m31in"
     THEN /\ bank' = IF bank = "waveshare" THEN "m31out" ELSE "m31in"
          /\ attempt' = attempt
     ELSE IF attempt < Probes /\ \E b \in Bank : count'[b] = 0
     THEN bank' = "waveshare" /\ attempt' = attempt + 1
     ELSE bank' = "done" /\ attempt' = 1

NotWanted ==
  /\ ~Booted /\ ~searching
  /\ ~Wanted
  /\ UNCHANGED <<attached, count, missed>>
  /\ Advance

(* An address that exists may fail to answer; none answers that does not.  *)
Answers(address, lost) == address < attached[bank] /\ ~lost

(* Mutant: the last address is taken to be the limit itself. *)
FirstReadWide(lost) ==
  /\ ~Booted /\ ~searching
  /\ Wanted
  /\ missed' = [missed EXCEPT ![bank] = lost /\ attached[bank] > 0]
  /\ UNCHANGED <<attached, count>>
  /\ IF Answers(0, lost)
     THEN /\ searching' = TRUE
          /\ low' = 0 /\ high' = Limit[bank]
          /\ UNCHANGED <<attempt, bank>>
     ELSE Advance

(* The first read of probe_count *)
FirstRead(lost) ==
  /\ ~Booted /\ ~searching
  /\ Wanted
  /\ missed' = [missed EXCEPT ![bank] = lost /\ attached[bank] > 0]
  /\ UNCHANGED <<attached, count>>
  /\ IF Answers(0, lost)
     THEN /\ searching' = TRUE
          /\ low' = 0 /\ high' = Limit[bank] - 1
          /\ UNCHANGED <<attempt, bank>>
     ELSE Advance

Middle == (low + high + 1) \div 2

(* Mutant: the search goes on past an address that answered. *)
SearchReadPast(lost) ==
  /\ searching
  /\ low < high
  /\ IF Answers(Middle, lost)
     THEN low' = Middle + 1 /\ high' = high
     ELSE low' = low /\ high' = Middle - 1
  /\ missed' = [missed EXCEPT ![bank] = @ \/ (lost /\ Middle < attached[bank])]
  /\ UNCHANGED <<attached, attempt, bank, searching, count>>

SearchRead(lost) ==
  /\ searching
  /\ low < high
  /\ IF Answers(Middle, lost)
     THEN low' = Middle /\ high' = high
     ELSE low' = low /\ high' = Middle - 1
  /\ missed' = [missed EXCEPT ![bank] = @ \/ (lost /\ Middle < attached[bank])]
  /\ UNCHANGED <<attached, attempt, bank, searching, count>>

Found ==
  /\ searching
  /\ low >= high
  /\ count' = [count EXCEPT ![bank] = low + 1]
  /\ UNCHANGED <<attached, missed>>
  /\ Advance

(* The card starts again, perhaps with other modules. *)
PowerCycle ==
  /\ attached' \in Plants
  /\ attempt' = 1
  /\ bank' = "waveshare"
  /\ searching' = FALSE
  /\ low' = 0 /\ high' = 0
  /\ count' = [b \in Bank |-> 0]
  /\ missed' = [b \in Bank |-> FALSE]

ProbeStep ==
  \/ NotWanted
  \/ \E lost \in BOOLEAN : FirstRead(lost) \/ SearchRead(lost)
  \/ Found

ProbeSpec == ProbeInit /\ [][ProbeStep \/ PowerCycle]_probeVars
-----------------------------------------------------------------------------
ProbeTypeOK ==
  /\ attached \in [Bank -> Nat]
  /\ attempt \in 1..Probes
  /\ bank \in Bank \cup {"done"}
  /\ searching \in BOOLEAN
  /\ searching => ~Booted
  /\ low \in Nat /\ high \in Nat
  /\ searching => low <= high /\ high < Limit[bank]
  /\ count \in [Bank -> Nat]
  /\ missed \in [Bank -> BOOLEAN]

Usable(b) == IF attached[b] < Limit[b] THEN attached[b] ELSE Limit[b]

(* Whatever answers the bus loses, the card never takes a bank for larger  *)
(* than it is; it takes it for smaller only if its latest search lost an   *)
(* answer; and one it takes for absent after every attempt did not answer  *)
(* in the last of them, or is the inputs of an M31 with no outputs found.  *)
CountsAreSound ==
  \A b \in Bank :
    /\ count[b] <= Usable(b)
    /\ count[b] > 0 /\ ~missed[b] => count[b] = Usable(b)
    /\ Booted /\ count[b] = 0 /\ attached[b] > 0
         => missed[b] \/ (b = "m31in" /\ count["m31out"] = 0)
================================================================================
