------------------------------ MODULE UsbHost ------------------------------
(***************************************************************************)
(* The LUFA host core: the host branches of USB_GEN_vect and the           *)
(* enumeration steps of USB_Host_ProcessNextHostState, which run in the    *)
(* main program and which the interrupt can change the host state under,   *)
(* with the event handlers of KeyboardHost that both call.  The bus, the   *)
(* attached device and the registers of the controller are external.       *)
(*                                                                         *)
(* pc is the place of the main program.  A pass of USB_USBTask starts at   *)
(* pc = "task" and ends at pc = "check", or at pc = "descriptor" where     *)
(* EVENT_USB_Host_DeviceEnumerationComplete is called.  Interrupts stay    *)
(* enabled in all of it, so the main program takes no step while an        *)
(* enabled interrupt is pending.                                           *)
(***************************************************************************)
EXTENDS Integers

CONSTANTS
  SettleMS,   \* HOST_DEVICE_SETTLE_DELAY_MS
  StepMS,     \* the 100 and 200 ms of HOST_TASK_NONBLOCK_WAIT
  FaultSets   \* the environments to consider, each a set of what may go wrong

\* "refuse" (a request or a pipe fails), "nodevice" (no connection after the
\* attachment), "vbus" (VBUS dips), "swap" (the other cable), "swapPlugged"
\* (with its device), "frame" (unplugged as a frame is seen), "early" (plugged
\* in while the host enumerates a device that is gone).
Fault == {"refuse", "nodevice", "vbus", "swap", "swapPlugged", "frame", "early"}

ASSUME HostAssumption ==
  /\ SettleMS \in Nat \ {0} /\ StepMS \in Nat \ {0}
  /\ SettleMS <= 65535 /\ StepMS <= 65535              \* uint16_t
  /\ FaultSets \subseteq SUBSET Fault

VARIABLES
  Faults,     \* the environment this behaviour is in
  line,       \* the device: "out", "in" (plugged) or "connected" (seen by the controller)
  uid,        \* what the ID pin of the cable asks for: "Host" or "Device"
  vbus,       \* "off", "manual" or "auto"
  flags, enabled,      \* interrupt flags that are set, interrupts that are enabled
  USB_CurrentMode, USB_HostState, WaitMSRemaining, PostWaitState,
  m_stat, m_err,       \* KeyHost.status(), KeyHost.error()
  bank,       \* the report in the IN pipe of the keyboard, or "none"
  pc,
  seen        \* the host state this pass of the task switches on

busVars == <<line, uid>>
ctlVars == <<vbus, flags, enabled, USB_CurrentMode, USB_HostState>>
waitVars == <<WaitMSRemaining, PostWaitState>>
keyVars == <<m_stat, m_err>>
core == <<busVars, ctlVars, waitVars, keyVars, bank>>
hostVars == <<core, pc, seen, Faults>>

HostStates ==
  {"Unattached", "WaitForDevice", "Powered", "Settle", "WaitForConnect", "DoReset",
   "ConfigPipe", "Default", "PostReset", "PostAddressSet", "Addressed", "Configured"}

\* In the order in which USB_GEN_vect tests them.
Interrupts == <<"DDISCI", "VBERRI", "SRPI", "BCERRI", "IDTI">>
Sources == {Interrupts[i] : i \in 1..5}

HostTypeOK ==
  /\ Faults \in FaultSets
  /\ line \in {"out", "in", "connected"} /\ uid \in {"Host", "Device"}
  /\ vbus \in {"off", "manual", "auto"}
  /\ flags \subseteq Sources \cup {"DCONNI"} /\ enabled \subseteq Sources
  /\ USB_CurrentMode \in {"Host", "Device", "None"}
  /\ USB_HostState \in HostStates /\ PostWaitState \in HostStates /\ seen \in HostStates
  /\ WaitMSRemaining \in Nat /\ WaitMSRemaining <= 65535

-----------------------------------------------------------------------------
(***************************************************************************)
(* Event handlers of KeyboardHost, and USB_ResetInterface.                 *)
(***************************************************************************)
Tell(stat, err) == m_stat' = stat /\ m_err' = err

EVENT_USB_Host_DeviceAttached == Tell("CONNECTED", "NONE")
EVENT_USB_Host_DeviceUnattached == Tell("NOTCONNECTED", "NONE")
EVENT_USB_Host_DeviceEnumerationFailed == Tell("ERROR", "HARD")

\* Every interrupt is disabled while it runs.  In device mode, and with no
\* mode, the host state is left as it is.  UIDE stays set from USB_Init on.
USB_ResetInterface(mode) ==
  /\ flags' = {}
  /\ enabled' = {"IDTI"} \cup (IF mode = "Host" THEN {"SRPI", "BCERRI"} ELSE {})
  /\ IF mode = "Host"
     THEN USB_HostState' = "Unattached" /\ vbus' = "manual"
     ELSE UNCHANGED <<USB_HostState, vbus>>
  /\ line' = IF line = "connected" THEN "in" ELSE line
  /\ bank' = "none"

\* KeyHost is constructed and ArduinoLUFA::init() has run with a host cable.
HostInit ==
  /\ Faults \in FaultSets
  /\ line = "out" /\ uid = "Host" /\ vbus = "manual"
  /\ flags = {} /\ enabled = {"IDTI", "SRPI", "BCERRI"}
  /\ USB_CurrentMode = "Host" /\ USB_HostState = "Unattached"
  /\ WaitMSRemaining = 0 /\ PostWaitState = "Unattached"
  /\ m_stat = "NOTCONNECTED" /\ m_err = "NONE"
  /\ bank = "none" /\ pc = "loop" /\ seen = "Unattached"

-----------------------------------------------------------------------------
(***************************************************************************)
(* USB_GEN_vect.  A branch is taken when no earlier one is pending; the    *)
(* branches of one run of the handler follow each other as separate steps. *)
(***************************************************************************)
Pending == flags \cap enabled

Taken(i) ==
  /\ Interrupts[i] \in Pending
  /\ \A j \in 1..(i - 1) : Interrupts[j] \notin Pending

\* Mutant: the interface is not reset, and nothing waits for the next device.
ISR_DDISCI_noreset ==
  /\ Taken(1)
  /\ flags' = flags \ {"DDISCI", "DCONNI"} /\ enabled' = enabled \ {"DDISCI"}
  /\ EVENT_USB_Host_DeviceUnattached
  /\ USB_HostState' = "Unattached"
  /\ UNCHANGED <<busVars, vbus, USB_CurrentMode, waitVars, bank, pc, seen>>

ISR_DDISCI ==
  /\ Taken(1)
  /\ EVENT_USB_Host_DeviceUnattached
  /\ USB_ResetInterface(USB_CurrentMode)
  /\ UNCHANGED <<uid, USB_CurrentMode, waitVars, pc, seen>>

\* EVENT_USB_Host_HostError disables the controller and sets STAT_ERROR; the
\* event that follows replaces it.
ISR_VBERRI ==
  /\ Taken(2)
  /\ flags' = {} /\ enabled' = {} /\ vbus' = "off" /\ USB_CurrentMode' = "None"
  /\ EVENT_USB_Host_DeviceUnattached
  /\ USB_HostState' = "Unattached" /\ bank' = "none"
  /\ line' = IF line = "connected" THEN "in" ELSE line
  /\ UNCHANGED <<uid, waitVars, pc, seen>>

ISR_SRPI ==
  /\ Taken(3)
  /\ flags' = flags \ {"SRPI"} /\ enabled' = (enabled \ {"SRPI"}) \cup {"DDISCI"}
  /\ EVENT_USB_Host_DeviceAttached
  /\ USB_HostState' = "Powered"
  /\ UNCHANGED <<busVars, vbus, USB_CurrentMode, waitVars, bank, pc, seen>>

ISR_BCERRI ==
  /\ Taken(4)
  /\ EVENT_USB_Host_DeviceUnattached
  /\ USB_ResetInterface(USB_CurrentMode)
  /\ UNCHANGED <<uid, USB_CurrentMode, waitVars, pc, seen>>

ISR_IDTI ==
  /\ Taken(5)
  /\ IF USB_HostState # "Unattached" THEN EVENT_USB_Host_DeviceUnattached
     ELSE UNCHANGED keyVars
  /\ USB_CurrentMode' = uid
  /\ USB_ResetInterface(uid)
  /\ UNCHANGED <<uid, waitVars, pc, seen>>

USB_GEN_vect == ISR_DDISCI \/ ISR_VBERRI \/ ISR_SRPI \/ ISR_BCERRI \/ ISR_IDTI

-----------------------------------------------------------------------------
(***************************************************************************)
(* External: the cable, the device and the controller.                     *)
(***************************************************************************)

\* Replugging takes longer than what the main program does after it has
\* noticed a disconnection, so a device comes between two calls.  It comes
\* after the host has stopped enumerating the last one, or earlier.
Plug ==
  /\ line = "out" /\ uid = "Host" /\ pc = "loop"
  /\ \/ USB_HostState \in {"Unattached", "WaitForConnect", "Addressed", "Configured"}
     \/ "early" \in Faults
  /\ line' = "in"
  /\ UNCHANGED <<uid, ctlVars, waitVars, keyVars, bank, pc, seen>>

Unplug ==
  /\ line # "out"
  /\ pc # "frame" \/ "frame" \in Faults
  /\ line' = "out"
  /\ flags' = IF USB_CurrentMode = "Host" THEN flags \cup {"DDISCI"} ELSE flags
  /\ UNCHANGED <<uid, vbus, enabled, USB_CurrentMode, USB_HostState, waitVars, keyVars, bank,
                 pc, seen>>

\* The data lines show an attached device: SRPI is raised when it is armed,
\* later than the few instructions in which an error is dealt with.
DetectAttach ==
  /\ line = "in" /\ USB_CurrentMode = "Host"
  /\ pc \notin {"failed", "failure", "detach", "reinit"}
  /\ "SRPI" \in enabled \ flags
  /\ flags' = flags \cup {"SRPI"}
  /\ UNCHANGED <<busVars, vbus, enabled, USB_CurrentMode, USB_HostState, waitVars, keyVars,
                 bank, pc, seen>>

\* With VBUS on, the controller connects to the device or reports that it cannot.
DetectConnect ==
  /\ line = "in" /\ USB_CurrentMode = "Host" /\ vbus = "auto"
  /\ \/ line' = "connected" /\ flags' = flags \cup {"DCONNI"}
     \/ "nodevice" \in Faults /\ flags' = flags \cup {"BCERRI"} /\ UNCHANGED line
  /\ UNCHANGED <<uid, vbus, enabled, USB_CurrentMode, USB_HostState, waitVars, keyVars, bank,
                 pc, seen>>

VbusDip ==
  /\ "vbus" \in Faults /\ line = "connected"
  /\ flags' = flags \cup {"VBERRI"}
  /\ UNCHANGED <<busVars, vbus, enabled, USB_CurrentMode, USB_HostState, waitVars, keyVars,
                 bank, pc, seen>>

\* The cable is changed for one with the other plug.  Its device leaves with
\* it: before it, when the two are apart, or at the same time.
SwapCable ==
  /\ "swap" \in Faults
  /\ "swapPlugged" \in Faults \/ (line = "out" /\ flags = {})
  /\ uid' = IF uid = "Host" THEN "Device" ELSE "Host"
  /\ line' = "out"
  /\ flags' = flags \cup {"IDTI"}
                \cup (IF line # "out" /\ USB_CurrentMode = "Host" THEN {"DDISCI"} ELSE {})
  /\ UNCHANGED <<vbus, enabled, USB_CurrentMode, USB_HostState, waitVars, keyVars, bank, pc, seen>>

Environment ==
  Plug \/ Unplug \/ DetectAttach \/ DetectConnect \/ VbusDip \/ SwapCable

-----------------------------------------------------------------------------
(***************************************************************************)
(* USB_USBTask.  The state is read once; the case that was chosen goes on  *)
(* whatever the interrupt has made of the state since.                     *)
(***************************************************************************)
Main == Pending = {}

At(place) == Main /\ pc = place
Goto(place) == pc' = place

USB_USBTask ==
  /\ At("task")
  /\ Goto(IF USB_CurrentMode = "Host" THEN "switch" ELSE "check")
  /\ UNCHANGED <<core, seen>>

USB_HostTask ==
  /\ At("switch")
  /\ seen' = USB_HostState
  /\ Goto(CASE USB_HostState \in {"Unattached", "Addressed", "Configured"} -> "check"
            [] USB_HostState = "WaitForDevice" /\ WaitMSRemaining = 0 -> "check"
            [] USB_HostState = "WaitForConnect" /\ "DCONNI" \notin flags -> "check"
            [] OTHER -> "case")
  /\ UNCHANGED core

In(state) == At("case") /\ seen = state

HOST_TASK_NONBLOCK_WAIT(next) ==
  USB_HostState' = "WaitForDevice" /\ WaitMSRemaining' = StepMS /\ PostWaitState' = next

\* USB_Host_WaitMS: a frame passes, or the host has lost the device or its mode.
Lost == USB_HostState = "Unattached" \/ USB_CurrentMode # "Host"

WaitFails ==
  /\ In("WaitForDevice") /\ Lost
  /\ USB_HostState' = PostWaitState
  /\ Goto("failed")
  /\ UNCHANGED <<busVars, vbus, flags, enabled, USB_CurrentMode, waitVars, keyVars, bank, seen>>

WaitPasses ==
  /\ In("WaitForDevice") /\ ~Lost
  /\ Goto("waited")
  /\ UNCHANGED <<core, seen>>

Waited ==
  /\ At("waited")
  /\ WaitMSRemaining' = WaitMSRemaining - 1
  /\ USB_HostState' = IF WaitMSRemaining = 1 THEN PostWaitState ELSE USB_HostState
  /\ Goto("check")
  /\ UNCHANGED <<busVars, vbus, flags, enabled, USB_CurrentMode, PostWaitState, keyVars, bank, seen>>

Powered ==
  /\ In("Powered")
  /\ WaitMSRemaining' = SettleMS /\ USB_HostState' = "Settle"
  /\ Goto("check")
  /\ UNCHANGED <<busVars, vbus, flags, enabled, USB_CurrentMode, PostWaitState, keyVars, bank, seen>>

\* The test of WaitMSRemaining-- leaves 65535 behind when the wait is over.
Settle ==
  /\ In("Settle")
  /\ IF WaitMSRemaining # 0
     THEN WaitMSRemaining' = WaitMSRemaining - 1 /\ UNCHANGED <<vbus, USB_HostState>>
     ELSE WaitMSRemaining' = 65535 /\ vbus' = "auto" /\ USB_HostState' = "WaitForConnect"
  /\ Goto("check")
  /\ UNCHANGED <<busVars, flags, enabled, USB_CurrentMode, PostWaitState, keyVars, bank, seen>>

WaitForConnect ==
  /\ In("WaitForConnect")
  /\ flags' = flags \ {"DCONNI", "DDISCI", "VBERRI"}
  /\ enabled' = enabled \cup {"VBERRI"}
  /\ HOST_TASK_NONBLOCK_WAIT("DoReset")
  /\ Goto("check")
  /\ UNCHANGED <<busVars, vbus, USB_CurrentMode, keyVars, bank, seen>>

\* USB_Host_ResetDevice: disconnections are suppressed during the bus reset,
\* and forgotten when a frame is seen after it.  The wait that follows leads
\* to the next state of the case that called it.
ResetDevice(place) ==
  /\ At(place)
  /\ enabled' = enabled \ {"DDISCI"}
  /\ Goto("reset")
  /\ UNCHANGED <<busVars, vbus, flags, USB_CurrentMode, USB_HostState, waitVars, keyVars, bank,
                 seen>>

\* Mutant: disconnections stay suppressed.
AfterReset_deaf ==
  /\ HOST_TASK_NONBLOCK_WAIT(IF seen = "DoReset" THEN "ConfigPipe" ELSE "PostReset")
  /\ Goto("check")
  /\ UNCHANGED <<busVars, vbus, enabled, USB_CurrentMode, keyVars, bank, seen>>

AfterReset ==
  /\ enabled' = enabled \cup {"DDISCI"}
  /\ HOST_TASK_NONBLOCK_WAIT(IF seen = "DoReset" THEN "ConfigPipe" ELSE "PostReset")
  /\ Goto("check")
  /\ UNCHANGED <<busVars, vbus, USB_CurrentMode, keyVars, bank, seen>>

DoReset == ResetDevice("case") /\ seen = "DoReset"

FrameSeen ==
  /\ At("reset") /\ line = "connected"
  /\ Goto("frame")
  /\ UNCHANGED <<core, seen>>

FrameCleared == At("frame") /\ flags' = flags \ {"DDISCI"} /\ AfterReset

NoFrame == At("reset") /\ line # "connected" /\ UNCHANGED flags /\ AfterReset

\* USB_Host_SendControlRequest, and Pipe_ConfigurePipe: the device answers,
\* or the request fails: lost device, pipe error, stall or timeout.
Answered == ~Lost /\ line = "connected"

Request(place, ok, failed) ==
  /\ At(place)
  /\ \/ Answered /\ Goto(ok)
     \/ (~Answered \/ "refuse" \in Faults) /\ Goto(failed)
  /\ UNCHANGED <<core, seen>>

ConfigurePipe(ok) ==
  \/ ok
  \/ "refuse" \in Faults /\ Goto("failed") /\ UNCHANGED <<core, seen>>

ConfigPipe ==
  /\ In("ConfigPipe")
  /\ ConfigurePipe(/\ USB_HostState' = "Default"
                   /\ Goto("check")
                   /\ UNCHANGED <<busVars, vbus, flags, enabled, USB_CurrentMode, waitVars,
                                  keyVars, bank, seen>>)

GetDeviceDescriptor == Request("case", "described", "failed") /\ seen = "Default"

Described == ResetDevice("described")

PostReset ==
  /\ In("PostReset")
  /\ ConfigurePipe(Goto("address") /\ UNCHANGED <<core, seen>>)

SetAddress == Request("address", "addressed", "failed")

AddressSet ==
  /\ At("addressed")
  /\ HOST_TASK_NONBLOCK_WAIT("PostAddressSet")
  /\ Goto("check")
  /\ UNCHANGED <<busVars, vbus, flags, enabled, USB_CurrentMode, keyVars, bank, seen>>

PostAddressSet ==
  /\ In("PostAddressSet")
  /\ USB_HostState' = "Addressed"
  /\ Goto("descriptor")
  /\ UNCHANGED <<busVars, vbus, flags, enabled, USB_CurrentMode, waitVars, keyVars, bank, seen>>

\* What USB_Host_ProcessNextHostState does with an error.
Failed ==
  /\ At("failed")
  /\ Goto(IF USB_HostState # "Unattached" THEN "failure" ELSE "check")
  /\ UNCHANGED <<core, seen>>

TellFailure ==
  /\ At("failure")
  /\ EVENT_USB_Host_DeviceEnumerationFailed
  /\ vbus' = "off"
  /\ Goto("detach")
  /\ UNCHANGED <<busVars, flags, enabled, USB_CurrentMode, USB_HostState, waitVars, bank, seen>>

TellUnattached ==
  /\ At("detach")
  /\ EVENT_USB_Host_DeviceUnattached
  /\ Goto("reinit")
  /\ UNCHANGED <<busVars, ctlVars, waitVars, bank, seen>>

ResetAfterFailure ==
  /\ At("reinit")
  /\ USB_ResetInterface(USB_CurrentMode)
  /\ Goto("check")
  /\ UNCHANGED <<uid, USB_CurrentMode, waitVars, keyVars, seen>>

HostTask ==
  \/ USB_USBTask \/ USB_HostTask \/ WaitFails \/ WaitPasses \/ Waited \/ Powered \/ Settle
  \/ WaitForConnect \/ DoReset \/ FrameSeen \/ FrameCleared \/ NoFrame \/ ConfigPipe
  \/ GetDeviceDescriptor \/ Described \/ PostReset \/ SetAddress \/ AddressSet
  \/ PostAddressSet \/ Failed \/ TellFailure \/ TellUnattached \/ ResetAfterFailure
=============================================================================
