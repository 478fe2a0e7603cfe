--------------------------- MODULE ReadbackHistory ---------------------------
(***************************************************************************)
(* What the published readback is worth: Rs485Worker with a history of     *)
(* what was read and of what the relays did since the last publication.    *)
(***************************************************************************)
EXTENDS Rs485Worker

VARIABLES
  everRead,  \* modules whose relays were read at least once since boot
  wasOn,     \* relays that were on at some moment since the last publication
  wasOff     \* relays that were off at some moment since then

historyVars == <<everRead, wasOn, wasOff>>

ReadOf(d) == ConfirmRead(d, TRUE) \/ PollOutputs(d, TRUE)

HistoryInit ==
  /\ Init
  /\ everRead = {}
  /\ wasOn = coils
  /\ wasOff = Channel \ coils

HistoryNext ==
  /\ Next
  /\ everRead' = everRead \cup {d \in Device : ReadOf(d)}
  /\ wasOn' = IF WorkerPublish THEN coils' ELSE wasOn \cup coils'
  /\ wasOff' = IF WorkerPublish THEN Channel \ coils'
               ELSE wasOff \cup (Channel \ coils')

HistorySpec == HistoryInit /\ [][HistoryNext]_<<workerVars, historyVars>>
-----------------------------------------------------------------------------
HistoryTypeOK ==
  /\ TypeOK
  /\ everRead \in SUBSET Device
  /\ wasOn \in SUBSET Channel
  /\ wasOff \in SUBSET Channel

(* No publication anticipates a command: a relay newly reported on (off)   *)
(* has physically been on (off) at some moment since the publication       *)
(* before (README "relay_state is physical FC01 readback, not an           *)
(* optimistic echo of a gateway command"), a relay being taken as off      *)
(* until its module was first read.                                        *)
ReportsOnlyReadback ==
  [][/\ st'.relay_state \ st.relay_state \subseteq wasOn
     /\ st.relay_state \ st'.relay_state \subseteq wasOff]_st

(* Each change is written, confirmed and published before the next, and a  *)
(* module whose write went unanswered is read before it is written again:  *)
(* outside a publication, at most one relay of each module that was ever   *)
(* read can be on without the published readback saying so, however many   *)
(* writes failed, replies were lost, or modules were power cycled.         *)
AtMostOneUnreportedRelay ==
  pc # "publish" =>
    \A d \in everRead :
      Cardinality((coils \ st.relay_state) \cap Outputs(d)) <= 1

(* discrete_glue.h:20 and discrete_glue.c:5 "Reported relay/input values   *)
(* are physical readback only": with the link reported up, a relay that is *)
(* on and reported off belongs to a module whose relays have been read.    *)
LinkedImageWasRead ==
  st.link => \A d \in Device : d \in everRead \/ coils \cap Outputs(d) = {}
=============================================================================
