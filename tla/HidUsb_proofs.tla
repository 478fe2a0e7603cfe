---------------------------- MODULE HidUsb_proofs ----------------------------
(***************************************************************************)
(* Proofs about HidUsb: the types, what a clean latch means for the PC and *)
(* what an idle control layer means for the host, for every set of         *)
(* reports.                                                                *)
(***************************************************************************)
EXTENDS HidUsb, TLAPS

(* Every action of the module, once.                                       *)
LEMMA NextCases ==
  ASSUME [Next]_vars
  PROVE  \/ Enable \/ Disable \/ Reset \/ \E r \in Report : SetReport(r)
         \/ LoopStart \/ LoopSnap \/ LoopSend \/ LoopRefused
         \/ LoopNotice \/ LoopEmit \/ LoopNoEmit
         \/ Callback \/ Plug \/ Unplug \/ Suspend \/ Resume
         \/ PcPolls \/ PcAsks \/ HostFound \/ HostForgotten
         \/ UNCHANGED vars
  BY DEF Next, LoopStep, Handler, World
-----------------------------------------------------------------------------
(* The copy under way is the latched report: a report is submitted by the  *)
(* task that makes the copy.                                               *)
CopyInv ==
  /\ pc = "send" => snap = report
  /\ pc \in {"snap", "send"} => endpoint = None
  /\ bus = "detached" => endpoint = None

(* Where the latched report is, once the latch is clean: in the copy, in   *)
(* the endpoint or on the PC.                                              *)
ShownInv ==
  bus # "detached" /\ ~callback /\ ~dirty =>
    \/ pc = "send"
    \/ endpoint = report
    \/ endpoint = None /\ pcView = report

IInv == TypeOK /\ CopyInv /\ ShownInv /\ NothingDueIsTold

LEMMA InitInv == Init => IInv
<1> SUFFICES ASSUME Init PROVE IInv
  OBVIOUS
<1>1. TypeOK
  BY ReportAssumption DEF Init, TypeOK
<1>2. CopyInv /\ ShownInv /\ NothingDueIsTold
  BY DEF Init, CopyInv, ShownInv, NothingDueIsTold
<1> QED
  BY <1>1, <1>2 DEF IInv

(* A STATE that goes out is a position and a flag.                         *)
LEMMA SentType ==
  ASSUME NEW r \in Report, StateSent(r)
  PROVE  told' \in [axes : Report, mounted : BOOLEAN]
<1>1. told' = [axes |-> r, mounted |-> Mounted]
  BY DEF StateSent
<1> QED
  BY <1>1 DEF Mounted

(* A step keeps the types.                                                 *)
LEMMA StepType == TypeOK /\ [Next]_vars => TypeOK'
<1> SUFFICES ASSUME TypeOK, [Next]_vars PROVE TypeOK'
  OBVIOUS
<1> USE ReportAssumption DEF TypeOK
<1>1. CASE Enable
  BY <1>1 DEF Enable, Submit, usbVars
<1>2. CASE Disable
  <2>1. /\ enabled' \in BOOLEAN /\ axes' = Centre /\ report' = Centre
        /\ dirty' \in BOOLEAN
        /\ statePending' \in BOOLEAN
    BY <1>2 DEF Disable, Submit, StateSent, StateNotSent
  <2>2. told' \in [axes : Report, mounted : BOOLEAN] \cup {None}
    <3>1. StateSent(Centre) \/ told' = told
      BY <1>2 DEF Disable, StateNotSent
    <3> QED
      BY <3>1, SentType
  <2>3. UNCHANGED <<mountedLast, pc, snap, bus, callback, endpoint, pcView,
                    hostKnown>>
    BY <1>2 DEF Disable, usbVars
  <2> QED
    BY <2>1, <2>2, <2>3
<1>3. CASE Reset
  BY <1>3 DEF Reset, Submit, usbVars
<1>4. ASSUME NEW r \in Report, SetReport(r) PROVE TypeOK'
  BY <1>4 DEF SetReport, Submit, usbVars, hostVars
<1>5. CASE LoopStart \/ LoopSnap \/ LoopSend \/ LoopRefused
  BY <1>5 DEF LoopStart, LoopSnap, LoopSend, LoopRefused, glueVars, usbVars,
              hostVars
<1>6. CASE LoopNotice
  BY <1>6 DEF LoopNotice, Mounted, usbVars, hostVars
<1>7. CASE LoopEmit
  <2>1. statePending' = FALSE
    BY <1>7 DEF LoopEmit, StateSent
  <2>2. told' \in [axes : Report, mounted : BOOLEAN]
    BY <1>7, SentType DEF LoopEmit
  <2>3. /\ UNCHANGED <<enabled, axes, mountedLast, report, dirty, snap, bus>>
        /\ UNCHANGED <<callback, endpoint, pcView, hostKnown>>
        /\ pc' = "idle"
    BY <1>7 DEF LoopEmit, usbVars
  <2> QED
    BY <2>1, <2>2, <2>3
<1>8. CASE LoopNoEmit
  BY <1>8 DEF LoopNoEmit, glueVars, usbVars, hostVars
<1>9. CASE Callback \/ Plug \/ Unplug \/ Suspend \/ Resume
  <2>1. /\ UNCHANGED <<enabled, axes, statePending, mountedLast>>
        /\ UNCHANGED <<report, pc, snap, hostKnown, told>>
    BY <1>9 DEF Callback, Plug, Unplug, Suspend, Resume, glueVars, hostVars
  <2>2. /\ dirty' \in BOOLEAN /\ callback' \in BOOLEAN
        /\ bus' \in {"detached", "up", "suspended"}
        /\ endpoint' \in Report \cup {None}
        /\ pcView' \in Report \cup {None}
    BY <1>9 DEF Callback, Plug, Unplug, Suspend, Resume
  <2> QED
    BY <2>1, <2>2
<1>10. CASE PcPolls \/ PcAsks
  BY <1>10 DEF PcPolls, PcAsks, glueVars, hostVars
<1>11. CASE HostFound \/ HostForgotten
  BY <1>11 DEF HostFound, HostForgotten, glueVars, usbVars
<1>12. CASE UNCHANGED vars
  BY <1>12 DEF vars, glueVars, usbVars, hostVars
<1> QED
  BY <1>1, <1>2, <1>3, <1>4, <1>5, <1>6, <1>7, <1>8, <1>9, <1>10, <1>11,
     <1>12, NextCases

(* A step keeps the copy and the place of the latched report.              *)
LEMMA StepShown ==
  TypeOK /\ CopyInv /\ ShownInv /\ [Next]_vars => CopyInv' /\ ShownInv'
<1> SUFFICES ASSUME TypeOK, CopyInv, ShownInv, [Next]_vars
             PROVE  CopyInv' /\ ShownInv'
  OBVIOUS
<1> USE ReportAssumption DEF TypeOK, CopyInv, ShownInv
<1>1. CASE Enable \/ Disable \/ Reset \/ \E r \in Report : SetReport(r)
  BY <1>1 DEF Enable, Disable, Reset, SetReport, Submit, usbVars
<1>2. CASE LoopStart
  BY <1>2 DEF LoopStart, Ready, usbVars
<1>3. CASE LoopSnap
  BY <1>3 DEF LoopSnap, usbVars
<1>4. CASE LoopSend
  BY <1>4 DEF LoopSend
<1>5. CASE LoopRefused
  BY <1>5 DEF LoopRefused, usbVars
<1>6. CASE LoopNotice \/ LoopEmit \/ LoopNoEmit
  BY <1>6 DEF LoopNotice, LoopEmit, LoopNoEmit, usbVars
<1>7. CASE Callback \/ Plug \/ Unplug \/ Suspend \/ Resume
  BY <1>7 DEF Callback, Plug, Unplug, Suspend, Resume
<1>8. CASE PcPolls \/ PcAsks
  BY <1>8 DEF PcPolls, PcAsks
<1>9. CASE HostFound \/ HostForgotten
  BY <1>9 DEF HostFound, HostForgotten, usbVars
<1>10. CASE UNCHANGED vars
  BY <1>10 DEF vars, usbVars
<1> QED
  BY <1>1, <1>2, <1>3, <1>4, <1>5, <1>6, <1>7, <1>8, <1>9, <1>10, NextCases

(* A step that leaves no STATE due has told the position there is.         *)
LEMMA StepTold ==
  TypeOK /\ NothingDueIsTold /\ [Next]_vars => NothingDueIsTold'
<1> SUFFICES ASSUME TypeOK, NothingDueIsTold, [Next]_vars
             PROVE  NothingDueIsTold'
  OBVIOUS
<1> USE ReportAssumption DEF TypeOK, NothingDueIsTold
<1>1. CASE Enable \/ Disable \/ Reset \/ \E r \in Report : SetReport(r)
  BY <1>1 DEF Enable, Disable, Reset, SetReport
<1>2. CASE LoopStart \/ LoopSnap \/ LoopSend \/ LoopRefused
  BY <1>2 DEF LoopStart, LoopSnap, LoopSend, LoopRefused, glueVars, hostVars
<1>3. CASE LoopNotice
  BY <1>3 DEF LoopNotice, hostVars
<1>4. CASE LoopEmit
  <2>1. told' = [axes |-> axes, mounted |-> Mounted] /\ axes' = axes
    BY <1>4 DEF LoopEmit, StateSent
  <2>2. told' \in [axes : Report, mounted : BOOLEAN]
    BY <1>4, SentType DEF LoopEmit
  <2> QED
    BY <2>1, <2>2
<1>5. CASE LoopNoEmit
  BY <1>5 DEF LoopNoEmit, glueVars, hostVars
<1>6. CASE Callback \/ Plug \/ Unplug \/ Suspend \/ Resume
  BY <1>6 DEF Callback, Plug, Unplug, Suspend, Resume, glueVars, hostVars
<1>7. CASE PcPolls \/ PcAsks
  BY <1>7 DEF PcPolls, PcAsks, glueVars, hostVars
<1>8. CASE HostFound \/ HostForgotten
  BY <1>8 DEF HostFound, HostForgotten, glueVars
<1>9. CASE UNCHANGED vars
  BY <1>9 DEF vars, glueVars, hostVars
<1> QED
  BY <1>1, <1>2, <1>3, <1>4, <1>5, <1>6, <1>7, <1>8, <1>9, NextCases
-----------------------------------------------------------------------------
(* The latch and the control layer are right for every set of reports      *)
(* (hid_usb.c:160-183, hid_glue.c:36-131): a clean latch is shown by the   *)
(* PC, and an enabled subsystem with no STATE due has told its position.   *)
THEOREM LatchCorrect == Spec => [](TypeOK /\ CleanIsShown /\ NothingDueIsTold)
<1>1. IInv /\ [Next]_vars => IInv'
  BY StepType, StepShown, StepTold DEF IInv
<1>2. IInv => TypeOK /\ CleanIsShown /\ NothingDueIsTold
  BY ReportAssumption DEF IInv, TypeOK, ShownInv, CleanIsShown
<1> QED
  BY InitInv, <1>1, <1>2, PTL DEF Spec

(* The types of the latch, the endpoint and the bus. *)
THEOREM TypeCorrect == Spec => []TypeOK
<1>1. TypeOK /\ CleanIsShown /\ NothingDueIsTold => TypeOK
  OBVIOUS
<1> QED
  BY <1>1, LatchCorrect, PTL

(* hid_glue.c:36-49, 83-131.  While the subsystem is enabled and no STATE  *)
(* is due, the last STATE that was sent carries the confirmed position.    *)
THEOREM NothingDueIsToldHolds == Spec => []NothingDueIsTold
<1>1. TypeOK /\ CleanIsShown /\ NothingDueIsTold => NothingDueIsTold
  OBVIOUS
<1> QED
  BY <1>1, LatchCorrect, PTL
=============================================================================
