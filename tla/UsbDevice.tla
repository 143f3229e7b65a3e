----------------------------- MODULE UsbDevice -----------------------------
(***************************************************************************)
(* The LUFA device core: the controller's general interrupt (device        *)
(* branches of USB_GEN_vect), USB_Init and USB_Disable, and the control    *)
(* requests that USB_DeviceTask serves in the main program, whose waits    *)
(* the interrupt can change the device state under.  The bus, the host and *)
(* the registers of the controller are external.                           *)
(*                                                                         *)
(* pc is the place of the main program.  The steps of a control request    *)
(* end at pc = "body", where the operation of the sketch that called       *)
(* USB_USBTask goes on.                                                    *)
(***************************************************************************)
EXTENDS Integers, Sequences

VARIABLES
  HostEvents,   \* what else this host does: "unplug", "reset", "suspend",
                \* "reconfigure" (configure a configured device), "nak" (not fetch a packet),
                \* "dtr" (open and close the port)
  bus,          \* "off", "live" (frames run) or "suspended"
  view,         \* how far the host has come: "none", "default", "addressed", "configured"
  transfer,     \* what the host has yet to do of a control transfer
  flags,        \* interrupt flags that are set
  enabled,      \* interrupts that are enabled
  running,      \* USB_CurrentMode = USB_MODE_Device: between USB_Init and USB_Disable
  USB_DeviceState, USB_Device_ConfigurationNumber,
  address,      \* ADDEN of UDADDR
  RXSTPI, TXINI, RXOUTI,   \* the control endpoint: the SETUP packet, IN bank free, OUT received
  pc,
  request       \* USB_ControlRequest while it is served, else "none"

hostVars == <<bus, view, transfer>>
interruptVars == <<flags, enabled>>
stateVars == <<running, USB_DeviceState, USB_Device_ConfigurationNumber, address>>
ep0 == <<RXSTPI, TXINI, RXOUTI>>
core == <<hostVars, interruptVars, stateVars, ep0>>

HostChoices == {"unplug", "reset", "suspend", "reconfigure", "nak", "dtr"}
Interrupts == {"VBUSTI", "SUSPI", "WAKEUPI", "EORSTI"}
DeviceStates == {"Unattached", "Powered", "Default", "Addressed", "Configured", "Suspended"}

\* Requests by who may ask what: GetDescriptor stands for every control read,
\* DtrOn and DtrOff for SetControlLineState, Unconfigure for
\* SetConfiguration(0), Unsupported for what nobody handles.
Configures == {"SetConfiguration", "Unconfigure"}
Asked(v) ==
  CASE v = "none" -> {}
    [] v = "default" -> {"SetAddress", "GetDescriptor"}
    [] v = "addressed" -> Configures \cup {"GetDescriptor"}
    [] v = "configured" ->
         {"GetDescriptor", "Unsupported", "SetLineEncoding"}
           \cup (IF "dtr" \in HostEvents THEN {"DtrOn", "DtrOff"} ELSE {})
           \cup (IF "reconfigure" \in HostEvents THEN Configures ELSE {})
Requests == Asked("default") \cup Asked("addressed") \cup Asked("configured")

CoreTypeOK ==
  /\ HostEvents \subseteq HostChoices
  /\ bus \in {"off", "live", "suspended"}
  /\ view \in {"none", "default", "addressed", "configured"}
  /\ transfer \in {"none", "data", "read", "status", "SetAddress"} \cup Configures
  /\ flags \subseteq Interrupts /\ enabled \subseteq Interrupts
  /\ running \in BOOLEAN
  /\ USB_DeviceState \in DeviceStates /\ USB_Device_ConfigurationNumber \in 0..1
  /\ address \in BOOLEAN
  /\ RXSTPI \in Requests \cup {"none"} /\ TXINI \in BOOLEAN /\ RXOUTI \in BOOLEAN
  /\ request \in Requests \cup {"none"}

CoreInit ==
  /\ bus = "off" /\ view = "none" /\ transfer = "none"
  /\ flags = {} /\ enabled = {} /\ running = FALSE
  /\ USB_DeviceState = "Unattached" /\ USB_Device_ConfigurationNumber = 0
  /\ address = FALSE
  /\ RXSTPI = "none" /\ TXINI = TRUE /\ RXOUTI = FALSE
  /\ pc = "off" /\ request = "none"

ControlEndpointReset == RXSTPI' = "none" /\ TXINI' = TRUE /\ RXOUTI' = FALSE

-----------------------------------------------------------------------------
(***************************************************************************)
(* External: the bus and the host.                                         *)
(***************************************************************************)

\* VBUS comes or goes; the controller sees it through the OTG pad, which is
\* on only between USB_Init and USB_Disable.
Plug ==
  /\ bus = "off"
  /\ bus' = "live" /\ view' = "none" /\ transfer' = "none"
  /\ flags' = IF running THEN flags \cup {"VBUSTI"} ELSE flags
  /\ UNCHANGED <<enabled, stateVars, ep0>>

Unplug ==
  /\ "unplug" \in HostEvents /\ bus # "off"
  /\ bus' = "off" /\ view' = "none" /\ transfer' = "none"
  /\ flags' = IF running THEN flags \cup {"VBUSTI"} ELSE flags
  /\ UNCHANGED <<enabled, stateVars, ep0>>

\* A bus reset: the controller forgets its address and its endpoints.
BusReset ==
  /\ bus # "off" /\ running
  /\ "VBUSTI" \notin flags      \* its handler starts the clock
  /\ view = "none" \/ "reset" \in HostEvents
  /\ bus' = "live" /\ view' = "default" /\ transfer' = "none"
  /\ flags' = flags \cup {"EORSTI"}
  /\ address' = FALSE
  /\ ControlEndpointReset
  /\ UNCHANGED <<enabled, running, USB_DeviceState, USB_Device_ConfigurationNumber>>

\* The controller answers while its clock runs, once the handler has served
\* the event that started it.
Talking == bus = "live" /\ running /\ flags \cap enabled = {}

\* Three idle milliseconds, in which pending interrupts are served.
Suspend ==
  /\ "suspend" \in HostEvents /\ Talking
  /\ bus' = "suspended"
  /\ flags' = flags \cup {"SUSPI"}
  /\ UNCHANGED <<view, transfer, enabled, stateVars, ep0>>

\* The host resumes the bus; hardware takes SUSPI back.
Resume ==
  /\ bus = "suspended"
  /\ bus' = "live"
  /\ flags' = IF running THEN (flags \ {"SUSPI"}) \cup {"WAKEUPI"} ELSE flags
  /\ UNCHANGED <<view, transfer, enabled, stateVars, ep0>>

\* Traffic on the bus raises WAKEUPI, which EORSTI has enabled.
Traffic ==
  /\ bus = "live" /\ running /\ "WAKEUPI" \in enabled \ flags
  /\ flags' = flags \cup {"WAKEUPI"}
  /\ UNCHANGED <<hostVars, enabled, stateVars, ep0>>

HostSetup(r) ==
  /\ Talking /\ transfer = "none" /\ r \in Asked(view)
  /\ transfer' = CASE r = "SetLineEncoding" -> "data"
                   [] r = "GetDescriptor" -> "read"
                   [] r \in Configures \cup {"SetAddress"} -> r
                   [] OTHER -> "status"
  /\ RXSTPI' = r
  /\ UNCHANGED <<bus, view, interruptVars, stateVars, TXINI, RXOUTI>>

HostData ==
  /\ Talking /\ transfer = "data" /\ RXSTPI = "none"
  /\ transfer' = "status"
  /\ RXOUTI' = TRUE
  /\ UNCHANGED <<bus, view, interruptVars, stateVars, RXSTPI, TXINI>>

\* The host fetches the data of a control read and acknowledges it.
HostRead ==
  /\ Talking /\ transfer = "read" /\ ~TXINI
  /\ transfer' = "none"
  /\ TXINI' = TRUE /\ RXOUTI' = TRUE
  /\ UNCHANGED <<bus, view, interruptVars, stateVars, RXSTPI>>

\* The host fetches the empty packet that ends a control write.
HostStatus ==
  /\ Talking /\ transfer \notin {"none", "data", "read"} /\ ~TXINI
  /\ transfer' = "none"
  /\ TXINI' = TRUE
  /\ view' = CASE transfer = "SetConfiguration" -> "configured"
               [] transfer \in {"SetAddress", "Unconfigure"} -> "addressed"
               [] OTHER -> view
  /\ UNCHANGED <<bus, interruptVars, stateVars, RXSTPI, RXOUTI>>

-----------------------------------------------------------------------------
(***************************************************************************)
(* USB_GEN_vect, one branch at a time in the order of the code.            *)
(***************************************************************************)

Pending(i) == i \in flags \cap enabled

OnVBUSTI ==
  /\ Pending("VBUSTI")
  /\ flags' = flags \ {"VBUSTI"}
  /\ USB_DeviceState' = IF bus = "off" THEN "Unattached" ELSE "Powered"
  /\ UNCHANGED <<enabled, running, USB_Device_ConfigurationNumber, address, hostVars, ep0>>

\* The handler as it would be if WAKEUPI had been left disabled.
OnSUSPI_asleep ==
  /\ Pending("SUSPI") /\ ~Pending("VBUSTI")
  /\ enabled' = enabled \ {"SUSPI"}
  /\ USB_DeviceState' = "Suspended"
  /\ UNCHANGED <<flags, running, USB_Device_ConfigurationNumber, address, hostVars, ep0>>

OnSUSPI ==
  /\ Pending("SUSPI") /\ ~Pending("VBUSTI")
  /\ enabled' = (enabled \ {"SUSPI"}) \cup {"WAKEUPI"}
  /\ USB_DeviceState' = "Suspended"
  /\ UNCHANGED <<flags, running, USB_Device_ConfigurationNumber, address, hostVars, ep0>>

ConfiguredState(number) ==
  IF number # 0 \/ address THEN "Configured" ELSE "Powered"

OnWAKEUPI ==
  /\ Pending("WAKEUPI") /\ ~Pending("VBUSTI") /\ ~Pending("SUSPI")
  /\ flags' = flags \ {"WAKEUPI"}
  /\ enabled' = (enabled \ {"WAKEUPI"}) \cup {"SUSPI"}
  /\ USB_DeviceState' = ConfiguredState(USB_Device_ConfigurationNumber)
  /\ UNCHANGED <<running, USB_Device_ConfigurationNumber, address, hostVars, ep0>>

OnEORSTI ==
  /\ Pending("EORSTI") /\ ~Pending("VBUSTI") /\ ~Pending("SUSPI") /\ ~Pending("WAKEUPI")
  /\ flags' = flags \ {"EORSTI", "SUSPI"}
  /\ enabled' = (enabled \ {"SUSPI"}) \cup {"WAKEUPI"}
  /\ USB_DeviceState' = "Default" /\ USB_Device_ConfigurationNumber' = 0
  /\ ControlEndpointReset
  /\ UNCHANGED <<running, address, hostVars>>

USB_GEN_vect == OnVBUSTI \/ OnSUSPI \/ OnWAKEUPI \/ OnEORSTI

-----------------------------------------------------------------------------
(***************************************************************************)
(* The main program.                                                       *)
(***************************************************************************)

\* USB_Init, USB_ResetInterface and USB_Init_Device; the pad, switched on
\* last, reports a VBUS that is already there.
USB_Init ==
  /\ flags' = IF bus = "off" THEN {} ELSE {"VBUSTI"}
  /\ enabled' = {"VBUSTI", "SUSPI", "EORSTI"}
  /\ running' = TRUE
  /\ USB_DeviceState' = "Unattached" /\ USB_Device_ConfigurationNumber' = 0
  /\ address' = FALSE
  /\ ControlEndpointReset
  /\ view' = "none" /\ transfer' = "none"
  /\ bus' = IF bus = "off" THEN "off" ELSE "live"

\* USB_Disable: the host sees the device leave; USB_DeviceState stays.
USB_Disable ==
  /\ flags' = {} /\ enabled' = {}
  /\ running' = FALSE /\ address' = FALSE
  /\ ControlEndpointReset
  /\ view' = "none" /\ transfer' = "none"
  /\ UNCHANGED <<bus, USB_DeviceState, USB_Device_ConfigurationNumber>>

\* Nothing to do for USB_USBTask, or USB_Disable has set USB_MODE_None.
NothingToServe ==
  \/ ~running
  \/ USB_DeviceState = "Unattached"
  \/ RXSTPI = "none"

USB_DeviceTask_idle ==
  /\ pc = "device" /\ NothingToServe
  /\ pc' = "body"
  /\ UNCHANGED <<core, request>>

\* USB_Device_ProcessControlRequest up to the first wait.
USB_Device_ProcessControlRequest ==
  /\ pc = "device" /\ ~NothingToServe
  /\ request' = IF RXSTPI = "Unsupported" THEN "none" ELSE RXSTPI
  /\ RXSTPI' = "none"
  /\ pc' = CASE RXSTPI = "Unsupported" -> "body"
             [] RXSTPI = "SetLineEncoding" -> "line"
             [] OTHER -> "status"
  /\ TXINI' = (TXINI /\ RXSTPI # "GetDescriptor")
  /\ transfer' = IF RXSTPI = "Unsupported" THEN "none" ELSE transfer
  /\ USB_Device_ConfigurationNumber' =
       CASE RXSTPI = "SetConfiguration" -> 1
         [] RXSTPI = "Unconfigure" -> 0
         [] OTHER -> USB_Device_ConfigurationNumber
  /\ UNCHANGED <<bus, view, interruptVars, running, USB_DeviceState, address, RXOUTI>>

\* Endpoint_ClearStatusStage: it returns as well when the device is detached,
\* and its callers go on.
Endpoint_ClearStatusStage ==
  /\ pc = "status"
  /\ IF request = "GetDescriptor"
     THEN /\ RXOUTI \/ USB_DeviceState = "Unattached"
          /\ RXOUTI' = FALSE /\ TXINI' = TXINI
     ELSE /\ TXINI \/ USB_DeviceState = "Unattached"
          /\ TXINI' = FALSE /\ RXOUTI' = RXOUTI
  /\ pc' = CASE request = "SetAddress" -> "address"
             [] request \in {"GetDescriptor", "SetLineEncoding"} -> "body"
             [] OTHER -> "apply"
  /\ request' = IF pc' = "apply" THEN request ELSE "none"
  /\ UNCHANGED <<hostVars, interruptVars, stateVars, RXSTPI>>

\* The end of USB_Device_SetAddress (address # 0), after a wait that looks at nothing else.
USB_Device_SetAddress ==
  /\ pc = "address" /\ TXINI
  /\ address' = TRUE /\ USB_DeviceState' = "Addressed"
  /\ pc' = "body" /\ request' = "none"
  /\ UNCHANGED <<hostVars, interruptVars, running, USB_Device_ConfigurationNumber, ep0>>
=============================================================================
