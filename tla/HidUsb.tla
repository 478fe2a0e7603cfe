-------------------------------- MODULE HidUsb --------------------------------
(***************************************************************************)
(* The joystick: the control layer (components/lccore/hid_glue.c) and the  *)
(* latch that hands its report to the USB stack (main/hid_usb.c).          *)
(*                                                                         *)
(* Two tasks touch the latch.  The comm task submits a report and, once    *)
(* per turn, hands a copy to the endpoint in steps that the bus and the    *)
(* USB task's callbacks fall between.  The control host is told over UDP,  *)
(* the PC over USB, and either may be away.                                *)
(***************************************************************************)
EXTENDS Integers

CONSTANTS
  Report,   \* positions of the axes and buttons
  Centre,   \* all centred and released
  None      \* no report

ASSUME ReportAssumption ==
  /\ Centre \in Report
  /\ None \notin Report \cup [axes : Report, mounted : BOOLEAN]

VARIABLES
  \* hid_glue.c, in the comm task
  enabled, axes, statePending, mountedLast,
  \* hid_usb.c
  report,     \* s_report
  dirty,      \* s_dirty
  pc,         \* the turn: "idle", "snap", "send", "notice" or "emit"
  snap,       \* hid_port_loop's copy
  \* the USB stack and the PC
  bus,        \* "detached", "up" or "suspended"
  callback,   \* a mount or resume callback is due in the USB task
  endpoint,   \* the report the IN endpoint holds, or None
  pcView,     \* the report the PC saw last, or None
  \* the control host
  hostKnown,  \* its UDP endpoint is latched
  told        \* the last STATE that was sent, or None

glueVars == <<enabled, axes, statePending, mountedLast>>
usbVars  == <<bus, callback, endpoint, pcView>>
hostVars == <<hostKnown, told>>
vars     == <<glueVars, report, dirty, pc, snap, usbVars, hostVars>>
-----------------------------------------------------------------------------
Init ==
  /\ enabled = FALSE /\ axes = Centre
  /\ statePending = FALSE /\ mountedLast = FALSE
  /\ report = Centre /\ dirty = FALSE
  /\ pc = "idle" /\ snap = Centre
  /\ bus = "detached" /\ callback = FALSE
  /\ endpoint = None /\ pcView = None
  /\ hostKnown = FALSE /\ told = None

(* hid_port_mounted reads the USB stack, never a copy.                     *)
Mounted == bus = "up"

SubmitIfChanged(r) == report' = r /\ dirty' = (r # report)

(* hid_port_submit: unsent, even if the report is the one latched.         *)
Submit(r) == report' = r /\ dirty' = TRUE

(* emit_state: a datagram that does not go out leaves the STATE pending.   *)
StateSent(r) ==
  /\ hostKnown
  /\ told' = [axes |-> r, mounted |-> Mounted]
  /\ statePending' = FALSE

StateNotSent ==
  /\ statePending' = TRUE
  /\ UNCHANGED told
-----------------------------------------------------------------------------
EnableQuietly ==  \* no baseline STATE
  /\ pc = "idle"
  /\ enabled' = TRUE
  /\ Submit(axes)
  /\ UNCHANGED <<axes, statePending, mountedLast, pc, snap, usbVars,
                 hostKnown, told>>

(* hid_glue_setup, enable: a baseline STATE is due.                        *)
Enable ==
  /\ pc = "idle"
  /\ enabled' = TRUE
  /\ statePending' = TRUE
  /\ Submit(axes)
  /\ UNCHANGED <<axes, mountedLast, pc, snap, usbVars, hostKnown, told>>

(* hid_glue_setup, disable: centre, then one final STATE.                  *)
Disable ==
  /\ pc = "idle"
  /\ axes' = Centre
  /\ Submit(Centre)
  /\ IF enabled
       THEN StateSent(Centre) \/ StateNotSent
       ELSE UNCHANGED <<statePending, told>>
  /\ enabled' = FALSE
  /\ UNCHANGED <<mountedLast, pc, snap, usbVars, hostKnown>>

(* hid_glue_set: dropped while disabled; a change confirms at once.        *)
SetReport(r) ==
  /\ pc = "idle"
  /\ enabled
  /\ r # axes
  /\ axes' = r
  /\ Submit(r)
  /\ statePending' = TRUE
  /\ UNCHANGED <<enabled, mountedLast, pc, snap, usbVars, hostVars>>

ResetKeepsReport ==  \* the PC is not told
  /\ pc = "idle"
  /\ enabled' = FALSE /\ axes' = Centre
  /\ UNCHANGED <<statePending, mountedLast, report, dirty, pc, snap, usbVars,
                 hostKnown, told>>

(* hid_glue_reset: the session is over, no STATE; statePending stays.      *)
Reset ==
  /\ pc = "idle"
  /\ enabled' = FALSE /\ axes' = Centre
  /\ Submit(Centre)
  /\ UNCHANGED <<statePending, mountedLast, pc, snap, usbVars, hostKnown,
                 told>>
-----------------------------------------------------------------------------
Ready == dirty /\ bus = "up" /\ endpoint = None

LoopStartReturns ==  \* nothing for the PC ends the turn
  /\ pc = "idle"
  /\ pc' = IF Ready THEN "snap" ELSE "idle"
  /\ UNCHANGED <<glueVars, report, dirty, snap, usbVars, hostVars>>

(* hid_port_loop: the three tests take no lock.                            *)
LoopStart ==
  /\ pc = "idle"
  /\ pc' = IF Ready THEN "snap" ELSE "notice"
  /\ UNCHANGED <<glueVars, report, dirty, snap, usbVars, hostVars>>

LoopSnap ==
  /\ pc = "snap"
  /\ snap' = report /\ dirty' = FALSE
  /\ pc' = "send"
  /\ UNCHANGED <<glueVars, report, usbVars, hostVars>>

(* tud_hid_report: a free endpoint of a bus that is there takes the        *)
(* report; once the bus is gone it may still say yes, and nothing is sent. *)
LoopSend ==
  /\ pc = "send"
  /\ endpoint' = IF bus = "detached" THEN endpoint ELSE snap
  /\ pc' = "notice"
  /\ UNCHANGED <<glueVars, report, dirty, snap, bus, callback, pcView,
                 hostVars>>

LoopRefusedGivesUp ==  \* no retry
  /\ pc = "send"
  /\ pc' = "notice"
  /\ UNCHANGED <<glueVars, report, dirty, snap, usbVars, hostVars>>

LoopRefused ==
  /\ pc = "send"
  /\ dirty' = TRUE
  /\ pc' = "notice"
  /\ UNCHANGED <<glueVars, report, snap, usbVars, hostVars>>

(* hid_glue_loop: the edge of the mounted state.                           *)
LoopNotice ==
  /\ pc = "notice"
  /\ mountedLast' = Mounted
  /\ statePending' = (statePending \/ (enabled /\ Mounted # mountedLast))
  /\ pc' = IF enabled THEN "emit" ELSE "idle"
  /\ UNCHANGED <<enabled, axes, report, dirty, snap, usbVars, hostVars>>

(* hid_glue_loop: a pending STATE, or the heartbeat when its time is up.   *)
LoopEmit ==
  /\ pc = "emit"
  /\ StateSent(axes)
  /\ pc' = "idle"
  /\ UNCHANGED <<enabled, axes, mountedLast, report, dirty, snap, usbVars,
                 hostKnown>>

(* Nothing is due, or it does not go out; what was pending stays pending.  *)
LoopNoEmit ==
  /\ pc = "emit"
  /\ pc' = "idle"
  /\ UNCHANGED <<glueVars, report, dirty, snap, usbVars, hostVars>>
-----------------------------------------------------------------------------
(* The USB task.  A configured bus is seen by tud_mounted before           *)
(* tud_mount_cb runs; a suspended one that is unplugged emits no resume.   *)
Callback ==
  /\ callback
  /\ dirty' = TRUE /\ callback' = FALSE
  /\ UNCHANGED <<glueVars, report, pc, snap, bus, endpoint, pcView, hostVars>>

Plug ==
  /\ bus = "detached"
  /\ bus' = "up" /\ callback' = TRUE
  /\ UNCHANGED <<glueVars, report, dirty, pc, snap, endpoint, pcView,
                 hostVars>>

Unplug ==
  /\ bus # "detached"
  /\ bus' = "detached" /\ callback' = FALSE
  /\ endpoint' = None /\ pcView' = None
  /\ UNCHANGED <<glueVars, report, dirty, pc, snap, hostVars>>

Suspend ==
  /\ bus = "up"
  /\ bus' = "suspended"
  /\ UNCHANGED <<glueVars, report, dirty, pc, snap, callback, endpoint,
                 pcView, hostVars>>

Resume ==
  /\ bus = "suspended"
  /\ bus' = "up" /\ callback' = TRUE
  /\ UNCHANGED <<glueVars, report, dirty, pc, snap, endpoint, pcView,
                 hostVars>>

(* The PC polls the IN endpoint, or asks with GET_REPORT, which            *)
(* tud_hid_get_report_cb answers from the latch.                           *)
PcPolls ==
  /\ bus = "up" /\ endpoint # None
  /\ pcView' = endpoint /\ endpoint' = None
  /\ UNCHANGED <<glueVars, report, dirty, pc, snap, bus, callback, hostVars>>

PcAsks ==
  /\ bus = "up"
  /\ pcView' = report
  /\ UNCHANGED <<glueVars, report, dirty, pc, snap, bus, callback, endpoint,
                 hostVars>>

(* A ping latches the host's endpoint; closing the sockets forgets it.     *)
HostFound ==
  /\ ~hostKnown /\ pc = "idle"
  /\ hostKnown' = TRUE
  /\ UNCHANGED <<glueVars, report, dirty, pc, snap, usbVars, told>>

HostForgotten ==
  /\ hostKnown /\ pc = "idle"
  /\ hostKnown' = FALSE
  /\ UNCHANGED <<glueVars, report, dirty, pc, snap, usbVars, told>>
-----------------------------------------------------------------------------
LoopStep ==
  \/ LoopStart \/ LoopSnap \/ LoopSend \/ LoopRefused
  \/ LoopNotice \/ LoopEmit \/ LoopNoEmit

Handler ==
  \/ Enable \/ Disable \/ Reset
  \/ \E r \in Report : SetReport(r)

World ==
  \/ Callback \/ Plug \/ Unplug \/ Suspend \/ Resume
  \/ PcPolls \/ PcAsks
  \/ HostFound \/ HostForgotten

Next == LoopStep \/ Handler \/ World

Spec == Init /\ [][Next]_vars

(* Both tasks run, a PC polls its joystick, an endpoint that is free and a *)
(* socket that is open do not refuse for ever, and a heartbeat period      *)
(* ends.                                                                   *)
FairSpec ==
  /\ Spec
  /\ WF_vars(LoopStep) /\ WF_vars(Callback) /\ WF_vars(PcPolls)
  /\ SF_vars(LoopSend) /\ SF_vars(LoopEmit)
-----------------------------------------------------------------------------
(* A STATE the host gets is of a position and a mounted flag.              *)
TypeOK ==
  /\ enabled \in BOOLEAN /\ axes \in Report
  /\ statePending \in BOOLEAN /\ mountedLast \in BOOLEAN
  /\ report \in Report /\ dirty \in BOOLEAN
  /\ pc \in {"idle", "snap", "send", "notice", "emit"}
  /\ snap \in Report
  /\ bus \in {"detached", "up", "suspended"} /\ callback \in BOOLEAN
  /\ endpoint \in Report \cup {None} /\ pcView \in Report \cup {None}
  /\ hostKnown \in BOOLEAN
  /\ told \in [axes : Report, mounted : BOOLEAN] \cup {None}
  /\ ~enabled => report = Centre

(* hid_usb.c:160-183 and the callbacks.  When nothing is left to do - the  *)
(* latch is clean, no copy is on its way and no callback is due - the PC   *)
(* shows the latched report, wherever a mount, a resume or a new report    *)
(* fell among the steps of the turn.                                       *)
CleanIsShown ==
  /\ bus = "up" /\ ~callback
  /\ ~dirty /\ pc # "send" /\ endpoint = None
  => pcView = report

(* hid_glue.c:36-49, 83-131.  While the subsystem is enabled and no STATE *)
(* is due, the last STATE that was sent carries the confirmed position,    *)
(* across resets that send none.                                           *)
NothingDueIsTold ==
  enabled /\ ~statePending => told # None /\ told.axes = axes

(* hid_glue.c:61-81 and hid_usb.c:160-183.  A report that stays latched    *)
(* while a PC is there is shown there; in particular the centre, after the *)
(* control host is gone.                                                   *)
PcConverges ==
  \A r \in Report :
    <>[](report = r /\ bus = "up") => <>[](pcView = r)

(* hid_glue.c:133-157.  While the subsystem is enabled and the host's      *)
(* endpoint known, the host learns the position and whether a PC is there. *)
HostLearns ==
  \A r \in Report, m \in BOOLEAN :
    <>[](enabled /\ axes = r /\ Mounted = m /\ hostKnown)
      => <>[](told = [axes |-> r, mounted |-> m])
=============================================================================
