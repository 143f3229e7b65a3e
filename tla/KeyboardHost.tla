---------------------------- MODULE KeyboardHost ----------------------------
(***************************************************************************)
(* The KeyboardHost library on the LUFA host core: the enumeration of the  *)
(* keyboard in EVENT_USB_Host_DeviceEnumerationComplete and getKeys, which *)
(* the sketch calls for ever.  The keys of a report are one value here;    *)
(* what _mapKey makes of each key is in KeyMap.                            *)
(***************************************************************************)
EXTENDS UsbHost, KeyMap

CONSTANTS
  Reports,    \* what a keyboard may report
  Devices     \* what may be plugged in: "keyboard", "other" (no boot keyboard interface)

ASSUME KeyboardAssumption ==
  /\ Devices \subseteq {"keyboard", "other"}
  /\ {"none", "stack"} \cap Reports = {}

VARIABLES
  device,             \* what is or was last on the cable
  IsActive,           \* Keyboard_HID_Interface.State.IsActive (and SupportsBootProtocol)
  UsingBootProtocol,  \* Keyboard_HID_Interface.State.UsingBootProtocol
  keys,               \* the keys of this getKeys so far
  result,             \* what the last getKeys returned: status and keys
  live                \* whether a ready keyboard was on the bus when its state was tested

hidVars == <<device, IsActive, UsingBootProtocol>>
callVars == <<keys, result, live>>
vars == <<hostVars, hidVars, callVars>>

Stats == {"CONNECTED", "NOTCONNECTED", "ERROR"}
Errors == {"NONE", "CFGDESC", "DEV", "SETCFG", "SETPROTO", "HARD"}
Places == {"loop", "task", "switch", "case", "waited", "reset", "frame", "described", "address",
           "addressed", "failed", "failure", "detach", "reinit", "descriptor", "pipes",
           "setconfig", "configured", "protocol", "boot", "unset", "deconfigured",
           "noDescriptor", "noConfig", "noProtocol", "check", "state", "poll", "receive", "verdict"}

Init ==
  /\ HostInit
  /\ device = "keyboard" /\ IsActive = FALSE /\ UsingBootProtocol = FALSE
  /\ keys = "none" /\ result = [status |-> "NOTCONNECTED", keys |-> "none"]
  /\ live = FALSE

-----------------------------------------------------------------------------
(***************************************************************************)
(* EVENT_USB_Host_DeviceEnumerationComplete                                *)
(***************************************************************************)
Local == UNCHANGED <<hidVars, callVars>>

GetConfigDescriptor == Request("descriptor", "pipes", "noDescriptor") /\ Local

\* status(STAT_ERROR) and error(err), and the return.
GiveUp(place, err, next) ==
  /\ At(place)
  /\ Tell("ERROR", err)
  /\ Goto(next)
  /\ UNCHANGED <<busVars, ctlVars, waitVars, bank, seen>> /\ Local

NoDescriptor == GiveUp("noDescriptor", "CFGDESC", "check")

\* HID_Host_ConfigurePipes clears the state of the interface.  It answers
\* "no error" also when a pipe could not be configured.
HID_Host_ConfigurePipes ==
  /\ At("pipes")
  /\ UsingBootProtocol' = FALSE
  /\ \/ /\ device = "other"
        /\ IsActive' = FALSE /\ Tell("ERROR", "DEV") /\ Goto("check")
     \/ /\ device = "keyboard"
        /\ IsActive' \in {TRUE} \cup (IF "refuse" \in Faults THEN {FALSE} ELSE {})
        /\ Goto("setconfig") /\ UNCHANGED keyVars
  /\ UNCHANGED <<busVars, ctlVars, waitVars, bank, seen, device, callVars>>

SetConfiguration == Request("setconfig", "configured", "noConfig") /\ Local

NoConfiguration == GiveUp("noConfig", "SETCFG", "check")

SetState(place, state, next) ==
  /\ At(place)
  /\ USB_HostState' = state
  /\ Goto(next)
  /\ UNCHANGED <<busVars, vbus, flags, enabled, USB_CurrentMode, waitVars, keyVars, bank, seen>>
  /\ Local

Configured == SetState("configured", "Configured", "protocol")

\* Mutant: SupportsBootProtocol is not tested.
HID_Host_SetBootProtocol_always == Request("protocol", "boot", "noProtocol") /\ Local

\* HID_Host_SetBootProtocol makes no request when ConfigurePipes stopped
\* before it noted that the boot protocol is supported.
HID_Host_SetBootProtocol ==
  \/ IsActive /\ Request("protocol", "boot", "noProtocol") /\ Local
  \/ ~IsActive /\ At("protocol") /\ Goto("noProtocol") /\ UNCHANGED <<core, seen>> /\ Local

BootProtocolSet ==
  /\ At("boot")
  /\ UsingBootProtocol' = TRUE
  /\ Goto("check")
  /\ UNCHANGED <<core, seen, device, IsActive, callVars>>

NoProtocol == GiveUp("noProtocol", "SETPROTO", "unset")
Unconfigure == Request("unset", "deconfigured", "check") /\ Local
Unconfigured == SetState("deconfigured", "Addressed", "check")

EnumerationComplete ==
  \/ GetConfigDescriptor \/ NoDescriptor \/ HID_Host_ConfigurePipes \/ SetConfiguration
  \/ NoConfiguration \/ Configured \/ HID_Host_SetBootProtocol \/ BootProtocolSet \/ NoProtocol
  \/ Unconfigure \/ Unconfigured

-----------------------------------------------------------------------------
(***************************************************************************)
(* getKeys                                                                 *)
(***************************************************************************)
getKeys ==
  /\ At("loop")
  /\ Goto("task")
  /\ keys' = "none" /\ live' = FALSE
  /\ UNCHANGED <<core, seen, hidVars, result>>

Return(status) ==
  /\ result' = [status |-> status, keys |-> keys]
  /\ Goto("loop")

CheckStatus ==
  /\ At("check")
  /\ IF m_stat = "ERROR" THEN Return("ERROR") ELSE Goto("state") /\ UNCHANGED result
  /\ UNCHANGED <<core, seen, hidVars, keys, live>>

Ready == line # "out" /\ USB_CurrentMode = "Host" /\ IsActive /\ UsingBootProtocol

CheckState ==
  /\ At("state")
  /\ IF USB_HostState # "Configured" THEN Return("NOTCONNECTED")
     ELSE Goto("poll") /\ UNCHANGED result
  /\ live' = Ready
  /\ UNCHANGED <<core, seen, hidVars, keys>>

Usable == USB_HostState = "Configured" /\ IsActive

HID_Host_IsReportReceived ==
  /\ At("poll")
  /\ Goto(IF Usable /\ bank # "none" THEN "receive" ELSE "verdict")
  /\ UNCHANGED <<core, seen, hidVars, callVars>>

\* The return value is not looked at: without a report the keys are mapped
\* from the uninitialized KeyboardReport on the stack.
HID_Host_ReceiveReport ==
  /\ At("receive")
  /\ keys' = IF Usable THEN bank ELSE "stack"
  /\ bank' = IF Usable THEN "none" ELSE bank
  /\ Goto("verdict")
  /\ UNCHANGED <<busVars, ctlVars, waitVars, keyVars, seen, hidVars, result, live>>

Verdict ==
  /\ At("verdict")
  /\ Return(IF m_err # "NONE" THEN "ERROR" ELSE "CONNECTED")
  /\ UNCHANGED <<core, seen, hidVars, keys, live>>

\* External: the keyboard answers the IN token of an earlier poll.
ReportArrives ==
  /\ line = "connected" /\ Usable /\ UsingBootProtocol /\ bank = "none"
  /\ bank' \in Reports
  /\ UNCHANGED <<busVars, ctlVars, waitVars, keyVars, pc, seen, hidVars, callVars>>

-----------------------------------------------------------------------------
Library ==
  \/ /\ HostTask
     /\ Local
  \/ EnumerationComplete
  \/ getKeys \/ CheckStatus \/ CheckState
  \/ HID_Host_IsReportReceived \/ HID_Host_ReceiveReport \/ Verdict

Interrupt == USB_GEN_vect /\ Local

World ==
  \/ /\ Environment
     /\ device' \in IF line = "out" /\ line' = "in" THEN Devices ELSE {device}
     /\ UNCHANGED <<IsActive, UsingBootProtocol, callVars>>
  \/ ReportArrives

Next == (Library \/ Interrupt \/ World) /\ UNCHANGED Faults

Spec == Init /\ [][Next]_vars

\* The main program and the handler run; the controller reports a device
\* that stays.  Nothing is plugged, pressed or broken by fairness.
FairSpec ==
  /\ Spec
  /\ WF_vars(Library /\ UNCHANGED Faults) /\ WF_vars(Interrupt /\ UNCHANGED Faults)
  /\ SF_vars(DetectAttach /\ Local /\ UNCHANGED Faults)
  /\ SF_vars(DetectConnect /\ Local /\ UNCHANGED Faults)

-----------------------------------------------------------------------------
(***************************************************************************)
(* Properties                                                              *)
(***************************************************************************)

\* Every variable has its type; ConnectedTrue includes it.
TypeOK ==
  /\ HostTypeOK
  /\ m_stat \in Stats /\ m_err \in Errors /\ bank \in Reports \cup {"none"}
  /\ pc \in Places
  /\ device \in {"keyboard", "other"} /\ IsActive \in BOOLEAN /\ UsingBootProtocol \in BOOLEAN
  /\ keys \in Reports \cup {"none", "stack"}
  /\ result \in [status : Stats, keys : Reports \cup {"none", "stack"}]
  /\ live \in BOOLEAN

\* getKeys returns STAT_CONNECTED only when, as it tested the host state, a
\* keyboard was on the bus in host mode with its pipe and the boot protocol
\* set up, whatever the interrupt and the enumeration did to that state.  A
\* change to a device cable is excepted: USB_ResetInterface then leaves the
\* host state Configured.
ConnectedTrue ==
  /\ TypeOK
  /\ "swap" \notin Faults => (pc = "loop" /\ result.status = "CONNECTED" => live)

\* With no interrupt left to serve, the controller is in the mode the cable
\* asks for, or EVENT_USB_Host_HostError has disabled it; and between two
\* calls status() is not STAT_CONNECTED when nothing is plugged in: a
\* disconnection is never missed, at whatever step of the enumeration it comes.
\* Two are excepted: one as USB_Host_ResetDevice sees a frame, which clears
\* the flag, and one together with a change of the cable, whose flag
\* USB_ResetInterface clears.
EventsServed ==
  Faults \cap {"frame", "swapPlugged"} = {} /\ Pending = {} =>
    /\ USB_CurrentMode \in {uid, "None"}
    /\ pc = "loop" /\ line = "out" => m_stat # "CONNECTED"

\* Whatever report is about to be read and whatever the map, _mapKey gives a
\* value of the table or leaves the 0 of the descriptor, and with the US map
\* every printing key but the shifted 8 gives the character printed on it
\* and every code without a character gives 0.
KeysMapped ==
  pc = "receive" =>
    \A key \in 0..255, shift \in BOOLEAN :
      LET value(m_map) == _mapKey(m_map, key, shift).value IN
      /\ \A m_map \in Maps : value(m_map) \in 0..255
      /\ key \in Printing /\ ~(key = 37 /\ shift) => value("US_English") = Typed(key, shift)
      /\ key \notin Printing \cup Control \cup {50, 100} => value("US_English") = 0

\* A keyboard that is plugged in and then stays is used, however often and at
\* whatever step of the enumeration one was unplugged before: from some call
\* on getKeys returns STAT_CONNECTED every time.  Nothing else goes wrong.
KeyboardUsed ==
  Faults = {} => (<>[](line # "out" /\ device = "keyboard") => <>[](result.status = "CONNECTED"))
=============================================================================
