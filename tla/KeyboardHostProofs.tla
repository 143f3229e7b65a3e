------------------------- MODULE KeyboardHostProofs -------------------------
(***************************************************************************)
(* Proofs about the keyboard host: whatever faults the environment is      *)
(* allowed, for every length of the waits and every set of reports.        *)
(***************************************************************************)
EXTENDS KeyboardHost, TLAPS

-----------------------------------------------------------------------------
(* The inductive invariant.                                                 *)

\* A wait that was looked at has a millisecond left.
Waits ==
  (pc = "case" /\ seen = "WaitForDevice") \/ pc = "waited" => WaitMSRemaining > 0

\* The states, and the places of the main program, that follow the first
\* reset of the device.
Late == {"ConfigPipe", "Default", "PostReset", "PostAddressSet", "Addressed", "Configured"}

LatePlaces ==
  {"described", "address", "addressed", "descriptor", "pipes", "setconfig", "configured",
   "protocol", "boot", "noProtocol", "unset", "deconfigured"}

Enumerating ==
  \/ USB_HostState \in Late
  \/ /\ PostWaitState \in Late
     /\ USB_HostState = "WaitForDevice" \/ pc = "waited" \/ (pc = "case" /\ seen = "WaitForDevice")
  \/ pc = "case" /\ seen \in Late
  \/ pc \in LatePlaces

\* While VBUS is on, a disconnection interrupts the enumeration from the first
\* reset on, but for the resets themselves; and a connected device has VBUS,
\* but for the last steps of a failure.
Watched ==
  /\ /\ USB_CurrentMode = "Host" /\ vbus = "auto"
     /\ Enumerating /\ pc \notin {"reset", "frame"}
     => "DDISCI" \in enabled
  /\ line = "connected" =>
       USB_CurrentMode = "Host" /\ (pc \notin {"detach", "reinit"} => vbus = "auto")

\* Without another cable the controller is a host, or is disabled for good.
OneCable ==
  /\ uid = "Host" /\ USB_CurrentMode \in {"Host", "None"}
  /\ USB_CurrentMode = "None" => flags = {}
  /\ "IDTI" \notin flags

\* The places at which the host state is not Configured.
BeforeConfigured ==
  {"case", "waited", "reset", "frame", "described", "address", "addressed", "failed", "failure",
   "detach", "reinit", "descriptor", "pipes", "setconfig", "configured", "noDescriptor",
   "noConfig"}

\* The keyboard is in use, or its disconnection is about to be served.
Up ==
  /\ USB_CurrentMode = "Host" /\ IsActive /\ (UsingBootProtocol \/ pc = "boot")
  /\ "DDISCI" \in enabled
  /\ line = "connected" \/ "DDISCI" \in flags

\* The host state is Configured for a keyboard in use, or status() tells.
ConfiguredTrue ==
  /\ PostWaitState # "Configured"
  /\ USB_HostState = "Configured" =>
       /\ pc \notin BeforeConfigured
       /\ m_stat = "ERROR" \/ pc \in {"protocol", "noProtocol"} \/ Up

\* getKeys has tested both states.
Tested ==
  /\ pc = "state" => m_stat # "ERROR"
  /\ pc \in {"poll", "receive", "verdict"} => live
  /\ pc = "loop" /\ result.status = "CONNECTED" => live

\* Which interrupt is to come when the cable has changed or the device has gone.
Noticed ==
  /\ USB_CurrentMode \notin {uid, "None"} =>
       flags = {"IDTI"} /\ line # "connected" /\ (USB_CurrentMode = "Host" => line = "out")
  /\ "IDTI" \in flags => USB_CurrentMode # uid
  /\ USB_CurrentMode # "None" => "IDTI" \in enabled
  /\ m_stat = "CONNECTED" =>
       /\ USB_CurrentMode = "Host"
       /\ pc \notin {"reset", "frame"} => "DDISCI" \in enabled
       /\ line = "out" => "DDISCI" \in flags
  /\ "SRPI" \in flags =>
       /\ "SRPI" \in enabled /\ USB_CurrentMode = "Host"
       /\ line = "out" => "DDISCI" \in flags
       /\ pc \notin {"failed", "failure", "detach", "reinit"}
  /\ pc = "frame" => line # "out"
  /\ pc = "reinit" => m_stat # "CONNECTED"

IInv ==
  /\ TypeOK /\ Waits /\ Watched
  /\ "swap" \notin Faults => OneCable /\ ConfiguredTrue /\ Tested
  /\ Faults \cap {"frame", "swapPlugged"} = {} => Noticed


-----------------------------------------------------------------------------
(* Every step of the main program, of the handler and of the world keeps    *)
(* each part.                                                               *)

\* What a step of the bus and its devices leaves alone.
Around ==
  UNCHANGED <<IsActive, UsingBootProtocol, callVars>> /\ device' \in {device} \cup Devices

\* Every step keeps the types.
LEMMA StepType ==
  ASSUME TypeOK, Waits, Next
  PROVE  TypeOK'
<1> USE DEF core, busVars, ctlVars, waitVars, keyVars, hidVars, callVars, At, Goto, Main,
             Pending, Tell, Local, Interrupts
<1>1. CASE USB_USBTask /\ Local /\ UNCHANGED Faults
  BY <1>1, HostAssumption, KeyboardAssumption DEF USB_USBTask, TypeOK, HostTypeOK, HostStates,
      Stats, Errors, Places, Sources, Waits, Lost, Answered
<1>2. CASE USB_HostTask /\ Local /\ UNCHANGED Faults
  BY <1>2, HostAssumption, KeyboardAssumption DEF USB_HostTask, TypeOK, HostTypeOK, HostStates,
      Stats, Errors, Places, Sources, Waits, Lost, Answered
<1>3. CASE WaitFails /\ Local /\ UNCHANGED Faults
  BY <1>3, HostAssumption, KeyboardAssumption DEF WaitFails, In, TypeOK, HostTypeOK, HostStates,
      Stats, Errors, Places, Sources, Waits, Lost, Answered
<1>4. CASE WaitPasses /\ Local /\ UNCHANGED Faults
  BY <1>4, HostAssumption, KeyboardAssumption DEF WaitPasses, In, TypeOK, HostTypeOK,
      HostStates, Stats, Errors, Places, Sources, Waits, Lost, Answered
<1>5. CASE Waited /\ Local /\ UNCHANGED Faults
  BY <1>5, HostAssumption, KeyboardAssumption DEF Waited, TypeOK, HostTypeOK, HostStates, Stats,
      Errors, Places, Sources, Waits, Lost, Answered
<1>6. CASE Powered /\ Local /\ UNCHANGED Faults
  BY <1>6, HostAssumption, KeyboardAssumption DEF Powered, In, TypeOK, HostTypeOK, HostStates,
      Stats, Errors, Places, Sources, Waits, Lost, Answered
<1>7. CASE Settle /\ Local /\ UNCHANGED Faults
  BY <1>7, HostAssumption, KeyboardAssumption DEF Settle, In, TypeOK, HostTypeOK, HostStates,
      Stats, Errors, Places, Sources, Waits, Lost, Answered
<1>8. CASE WaitForConnect /\ Local /\ UNCHANGED Faults
  BY <1>8, HostAssumption, KeyboardAssumption DEF WaitForConnect, In, HOST_TASK_NONBLOCK_WAIT,
      TypeOK, HostTypeOK, HostStates, Stats, Errors, Places, Sources, Waits, Lost, Answered
<1>9. CASE DoReset /\ Local /\ UNCHANGED Faults
  BY <1>9, HostAssumption, KeyboardAssumption DEF DoReset, ResetDevice, TypeOK, HostTypeOK,
      HostStates, Stats, Errors, Places, Sources, Waits, Lost, Answered
<1>10. CASE FrameSeen /\ Local /\ UNCHANGED Faults
  BY <1>10, HostAssumption, KeyboardAssumption DEF FrameSeen, TypeOK, HostTypeOK, HostStates,
      Stats, Errors, Places, Sources, Waits, Lost, Answered
<1>11. CASE FrameCleared /\ Local /\ UNCHANGED Faults
  BY <1>11, HostAssumption, KeyboardAssumption DEF FrameCleared, AfterReset,
      HOST_TASK_NONBLOCK_WAIT, TypeOK, HostTypeOK, HostStates, Stats, Errors, Places, Sources,
      Waits, Lost, Answered
<1>12. CASE NoFrame /\ Local /\ UNCHANGED Faults
  BY <1>12, HostAssumption, KeyboardAssumption DEF NoFrame, AfterReset, HOST_TASK_NONBLOCK_WAIT,
      TypeOK, HostTypeOK, HostStates, Stats, Errors, Places, Sources, Waits, Lost, Answered
<1>13. CASE ConfigPipe /\ Local /\ UNCHANGED Faults
  BY <1>13, HostAssumption, KeyboardAssumption DEF ConfigPipe, In, ConfigurePipe, TypeOK,
      HostTypeOK, HostStates, Stats, Errors, Places, Sources, Waits, Lost, Answered
<1>14. CASE GetDeviceDescriptor /\ Local /\ UNCHANGED Faults
  BY <1>14, HostAssumption, KeyboardAssumption DEF GetDeviceDescriptor, Request, TypeOK,
      HostTypeOK, HostStates, Stats, Errors, Places, Sources, Waits, Lost, Answered
<1>15. CASE Described /\ Local /\ UNCHANGED Faults
  BY <1>15, HostAssumption, KeyboardAssumption DEF Described, ResetDevice, TypeOK, HostTypeOK,
      HostStates, Stats, Errors, Places, Sources, Waits, Lost, Answered
<1>16. CASE PostReset /\ Local /\ UNCHANGED Faults
  BY <1>16, HostAssumption, KeyboardAssumption DEF PostReset, In, ConfigurePipe, TypeOK,
      HostTypeOK, HostStates, Stats, Errors, Places, Sources, Waits, Lost, Answered
<1>17. CASE SetAddress /\ Local /\ UNCHANGED Faults
  BY <1>17, HostAssumption, KeyboardAssumption DEF SetAddress, Request, TypeOK, HostTypeOK,
      HostStates, Stats, Errors, Places, Sources, Waits, Lost, Answered
<1>18. CASE AddressSet /\ Local /\ UNCHANGED Faults
  BY <1>18, HostAssumption, KeyboardAssumption DEF AddressSet, HOST_TASK_NONBLOCK_WAIT, TypeOK,
      HostTypeOK, HostStates, Stats, Errors, Places, Sources, Waits, Lost, Answered
<1>19. CASE PostAddressSet /\ Local /\ UNCHANGED Faults
  BY <1>19, HostAssumption, KeyboardAssumption DEF PostAddressSet, In, TypeOK, HostTypeOK,
      HostStates, Stats, Errors, Places, Sources, Waits, Lost, Answered
<1>20. CASE Failed /\ Local /\ UNCHANGED Faults
  BY <1>20, HostAssumption, KeyboardAssumption DEF Failed, TypeOK, HostTypeOK, HostStates,
      Stats, Errors, Places, Sources, Waits, Lost, Answered
<1>21. CASE TellFailure /\ Local /\ UNCHANGED Faults
  BY <1>21, HostAssumption, KeyboardAssumption DEF TellFailure,
      EVENT_USB_Host_DeviceEnumerationFailed, TypeOK, HostTypeOK, HostStates, Stats, Errors,
      Places, Sources, Waits, Lost, Answered
<1>22. CASE TellUnattached /\ Local /\ UNCHANGED Faults
  BY <1>22, HostAssumption, KeyboardAssumption DEF TellUnattached,
      EVENT_USB_Host_DeviceUnattached, TypeOK, HostTypeOK, HostStates, Stats, Errors, Places,
      Sources, Waits, Lost, Answered
<1>23. CASE ResetAfterFailure /\ Local /\ UNCHANGED Faults
  BY <1>23, HostAssumption, KeyboardAssumption DEF ResetAfterFailure, USB_ResetInterface,
      TypeOK, HostTypeOK, HostStates, Stats, Errors, Places, Sources, Waits, Lost, Answered
<1>24. CASE GetConfigDescriptor /\ UNCHANGED Faults
  BY <1>24, HostAssumption, KeyboardAssumption DEF GetConfigDescriptor, Request, TypeOK,
      HostTypeOK, HostStates, Stats, Errors, Places, Sources, Waits, Lost, Answered
<1>25. CASE NoDescriptor /\ UNCHANGED Faults
  BY <1>25, HostAssumption, KeyboardAssumption DEF NoDescriptor, GiveUp, TypeOK, HostTypeOK,
      HostStates, Stats, Errors, Places, Sources, Waits, Lost, Answered
<1>26. CASE HID_Host_ConfigurePipes /\ UNCHANGED Faults
  <2>1. HostTypeOK'
    BY <1>26 DEF HID_Host_ConfigurePipes, TypeOK, HostTypeOK
  <2>2. pc' \in {"check", "setconfig"} /\ UsingBootProtocol' = FALSE /\ IsActive' \in BOOLEAN
    BY <1>26, Zenon DEF HID_Host_ConfigurePipes
  <2>3. m_stat' \in Stats /\ m_err' \in Errors
    BY <1>26 DEF HID_Host_ConfigurePipes, TypeOK, Stats, Errors
  <2>4. UNCHANGED <<bank, device, keys, result, live>>
    BY <1>26, Zenon DEF HID_Host_ConfigurePipes
  <2> QED  BY <2>1, <2>2, <2>3, <2>4 DEF TypeOK, Places
<1>27. CASE SetConfiguration /\ UNCHANGED Faults
  BY <1>27, HostAssumption, KeyboardAssumption DEF SetConfiguration, Request, TypeOK,
      HostTypeOK, HostStates, Stats, Errors, Places, Sources, Waits, Lost, Answered
<1>28. CASE NoConfiguration /\ UNCHANGED Faults
  BY <1>28, HostAssumption, KeyboardAssumption DEF NoConfiguration, GiveUp, TypeOK, HostTypeOK,
      HostStates, Stats, Errors, Places, Sources, Waits, Lost, Answered
<1>29. CASE Configured /\ UNCHANGED Faults
  BY <1>29, HostAssumption, KeyboardAssumption DEF Configured, SetState, TypeOK, HostTypeOK,
      HostStates, Stats, Errors, Places, Sources, Waits, Lost, Answered
<1>30. CASE HID_Host_SetBootProtocol /\ UNCHANGED Faults
  BY <1>30, HostAssumption, KeyboardAssumption DEF HID_Host_SetBootProtocol, Request, TypeOK,
      HostTypeOK, HostStates, Stats, Errors, Places, Sources, Waits, Lost, Answered
<1>31. CASE BootProtocolSet /\ UNCHANGED Faults
  BY <1>31, HostAssumption, KeyboardAssumption DEF BootProtocolSet, TypeOK, HostTypeOK,
      HostStates, Stats, Errors, Places, Sources, Waits, Lost, Answered
<1>32. CASE NoProtocol /\ UNCHANGED Faults
  BY <1>32, HostAssumption, KeyboardAssumption DEF NoProtocol, GiveUp, TypeOK, HostTypeOK,
      HostStates, Stats, Errors, Places, Sources, Waits, Lost, Answered
<1>33. CASE Unconfigure /\ UNCHANGED Faults
  BY <1>33, HostAssumption, KeyboardAssumption DEF Unconfigure, Request, TypeOK, HostTypeOK,
      HostStates, Stats, Errors, Places, Sources, Waits, Lost, Answered
<1>34. CASE Unconfigured /\ UNCHANGED Faults
  BY <1>34, HostAssumption, KeyboardAssumption DEF Unconfigured, SetState, TypeOK, HostTypeOK,
      HostStates, Stats, Errors, Places, Sources, Waits, Lost, Answered
<1>35. CASE getKeys /\ UNCHANGED Faults
  <2>1. HostTypeOK'
    BY <1>35 DEF getKeys, TypeOK, HostTypeOK
  <2>2. pc' = "task" /\ keys' = "none" /\ live' = FALSE
    BY <1>35, Zenon DEF getKeys
  <2>3. UNCHANGED <<m_stat, m_err, bank, hidVars, result>>
    BY <1>35, Zenon DEF getKeys
  <2> QED  BY <2>1, <2>2, <2>3 DEF TypeOK, Places
<1>36. CASE CheckStatus /\ UNCHANGED Faults
  BY <1>36, HostAssumption, KeyboardAssumption DEF CheckStatus, Return, TypeOK, HostTypeOK,
      HostStates, Stats, Errors, Places, Sources, Waits, Lost, Answered
<1>37. CASE CheckState /\ UNCHANGED Faults
  BY <1>37, HostAssumption, KeyboardAssumption DEF CheckState, Return, Ready, TypeOK,
      HostTypeOK, HostStates, Stats, Errors, Places, Sources, Waits, Lost, Answered
<1>38. CASE HID_Host_IsReportReceived /\ UNCHANGED Faults
  BY <1>38, HostAssumption, KeyboardAssumption DEF HID_Host_IsReportReceived, Usable, TypeOK,
      HostTypeOK, HostStates, Stats, Errors, Places, Sources, Waits, Lost, Answered
<1>39. CASE HID_Host_ReceiveReport /\ UNCHANGED Faults
  BY <1>39, HostAssumption, KeyboardAssumption DEF HID_Host_ReceiveReport, Usable, TypeOK,
      HostTypeOK, HostStates, Stats, Errors, Places, Sources, Waits, Lost, Answered
<1>40. CASE Verdict /\ UNCHANGED Faults
  BY <1>40, HostAssumption, KeyboardAssumption DEF Verdict, Return, TypeOK, HostTypeOK,
      HostStates, Stats, Errors, Places, Sources, Waits, Lost, Answered
<1>41. CASE ISR_DDISCI /\ Local /\ UNCHANGED Faults
  BY <1>41, HostAssumption, KeyboardAssumption DEF ISR_DDISCI, Taken,
      EVENT_USB_Host_DeviceUnattached, USB_ResetInterface, TypeOK, HostTypeOK, HostStates,
      Stats, Errors, Places, Sources, Waits, Lost, Answered
<1>42. CASE ISR_VBERRI /\ Local /\ UNCHANGED Faults
  BY <1>42, HostAssumption, KeyboardAssumption DEF ISR_VBERRI, Taken,
      EVENT_USB_Host_DeviceUnattached, TypeOK, HostTypeOK, HostStates, Stats, Errors, Places,
      Sources, Waits, Lost, Answered
<1>43. CASE ISR_SRPI /\ Local /\ UNCHANGED Faults
  BY <1>43, HostAssumption, KeyboardAssumption DEF ISR_SRPI, Taken,
      EVENT_USB_Host_DeviceAttached, TypeOK, HostTypeOK, HostStates, Stats, Errors, Places,
      Sources, Waits, Lost, Answered
<1>44. CASE ISR_BCERRI /\ Local /\ UNCHANGED Faults
  BY <1>44, HostAssumption, KeyboardAssumption DEF ISR_BCERRI, Taken,
      EVENT_USB_Host_DeviceUnattached, USB_ResetInterface, TypeOK, HostTypeOK, HostStates,
      Stats, Errors, Places, Sources, Waits, Lost, Answered
<1>45. CASE ISR_IDTI /\ Local /\ UNCHANGED Faults
  BY <1>45, HostAssumption, KeyboardAssumption DEF ISR_IDTI, Taken,
      EVENT_USB_Host_DeviceUnattached, USB_ResetInterface, TypeOK, HostTypeOK, HostStates,
      Stats, Errors, Places, Sources, Waits, Lost, Answered
<1>46. CASE Plug /\ Around /\ UNCHANGED Faults
  BY <1>46, HostAssumption, KeyboardAssumption DEF Plug, Around, TypeOK, HostTypeOK, HostStates,
      Stats, Errors, Places, Sources, Waits, Lost, Answered
<1>47. CASE Unplug /\ Around /\ UNCHANGED Faults
  BY <1>47, HostAssumption, KeyboardAssumption DEF Unplug, Around, TypeOK, HostTypeOK,
      HostStates, Stats, Errors, Places, Sources, Waits, Lost, Answered
<1>48. CASE DetectAttach /\ Around /\ UNCHANGED Faults
  BY <1>48, HostAssumption, KeyboardAssumption DEF DetectAttach, Around, TypeOK, HostTypeOK,
      HostStates, Stats, Errors, Places, Sources, Waits, Lost, Answered
<1>49. CASE DetectConnect /\ Around /\ UNCHANGED Faults
  BY <1>49, HostAssumption, KeyboardAssumption DEF DetectConnect, Around, TypeOK, HostTypeOK,
      HostStates, Stats, Errors, Places, Sources, Waits, Lost, Answered
<1>50. CASE VbusDip /\ Around /\ UNCHANGED Faults
  BY <1>50, HostAssumption, KeyboardAssumption DEF VbusDip, Around, TypeOK, HostTypeOK,
      HostStates, Stats, Errors, Places, Sources, Waits, Lost, Answered
<1>51. CASE SwapCable /\ Around /\ UNCHANGED Faults
  BY <1>51, HostAssumption, KeyboardAssumption DEF SwapCable, Around, TypeOK, HostTypeOK,
      HostStates, Stats, Errors, Places, Sources, Waits, Lost, Answered
<1>52. CASE ReportArrives /\ UNCHANGED Faults
  BY <1>52, HostAssumption, KeyboardAssumption DEF ReportArrives, Usable, TypeOK, HostTypeOK,
      HostStates, Stats, Errors, Places, Sources, Waits, Lost, Answered
<1> QED  BY <1>1, <1>2, <1>3, <1>4, <1>5, <1>6, <1>7, <1>8, <1>9, <1>10, <1>11, <1>12, <1>13,
            <1>14, <1>15, <1>16, <1>17, <1>18, <1>19, <1>20, <1>21, <1>22, <1>23, <1>24, <1>25,
            <1>26, <1>27, <1>28, <1>29, <1>30, <1>31, <1>32, <1>33, <1>34, <1>35, <1>36, <1>37,
            <1>38, <1>39, <1>40, <1>41, <1>42, <1>43, <1>44, <1>45, <1>46, <1>47, <1>48, <1>49,
            <1>50, <1>51, <1>52, Zenon
         DEF Next, Library, HostTask, EnumerationComplete, Interrupt, USB_GEN_vect, World,
             Environment, Around

\* Nothing but the main program touches the wait it has looked at.
LEMMA StepWaits ==
  ASSUME Waits, TypeOK, Next
  PROVE  Waits'
<1> USE DEF core, busVars, ctlVars, waitVars, keyVars, hidVars, callVars, At, Goto, Main,
             Pending, Tell, Local, Interrupts
<1>1. CASE USB_USBTask /\ Local /\ UNCHANGED Faults  BY <1>1 DEF USB_USBTask, Waits
<1>2. CASE USB_HostTask /\ Local /\ UNCHANGED Faults
  BY <1>2, HostAssumption DEF USB_HostTask, Waits, TypeOK, HostTypeOK
<1>3. CASE WaitFails /\ Local /\ UNCHANGED Faults
  BY <1>3, HostAssumption DEF WaitFails, In, Waits, TypeOK, HostTypeOK
<1>4. CASE WaitPasses /\ Local /\ UNCHANGED Faults
  BY <1>4, HostAssumption DEF WaitPasses, In, Waits, TypeOK, HostTypeOK
<1>5. CASE Waited /\ Local /\ UNCHANGED Faults
  BY <1>5, HostAssumption DEF Waited, Waits, TypeOK, HostTypeOK
<1>6. CASE Powered /\ Local /\ UNCHANGED Faults
  BY <1>6, HostAssumption DEF Powered, In, Waits, TypeOK, HostTypeOK
<1>7. CASE Settle /\ Local /\ UNCHANGED Faults  BY <1>7 DEF Settle, In, Waits
<1>8. CASE WaitForConnect /\ Local /\ UNCHANGED Faults
  BY <1>8 DEF WaitForConnect, In, HOST_TASK_NONBLOCK_WAIT, Waits
<1>9. CASE DoReset /\ Local /\ UNCHANGED Faults  BY <1>9 DEF DoReset, ResetDevice, Waits
<1>10. CASE FrameSeen /\ Local /\ UNCHANGED Faults  BY <1>10 DEF FrameSeen, Waits
<1>11. CASE FrameCleared /\ Local /\ UNCHANGED Faults
  BY <1>11 DEF FrameCleared, AfterReset, HOST_TASK_NONBLOCK_WAIT, Waits
<1>12. CASE NoFrame /\ Local /\ UNCHANGED Faults
  BY <1>12 DEF NoFrame, AfterReset, HOST_TASK_NONBLOCK_WAIT, Waits
<1>13. CASE ConfigPipe /\ Local /\ UNCHANGED Faults
  BY <1>13 DEF ConfigPipe, In, ConfigurePipe, Waits
<1>14. CASE GetDeviceDescriptor /\ Local /\ UNCHANGED Faults
  BY <1>14 DEF GetDeviceDescriptor, Request, Waits
<1>15. CASE Described /\ Local /\ UNCHANGED Faults  BY <1>15 DEF Described, ResetDevice, Waits
<1>16. CASE PostReset /\ Local /\ UNCHANGED Faults
  BY <1>16 DEF PostReset, In, ConfigurePipe, Waits
<1>17. CASE SetAddress /\ Local /\ UNCHANGED Faults  BY <1>17 DEF SetAddress, Request, Waits
<1>18. CASE AddressSet /\ Local /\ UNCHANGED Faults
  BY <1>18 DEF AddressSet, HOST_TASK_NONBLOCK_WAIT, Waits
<1>19. CASE PostAddressSet /\ Local /\ UNCHANGED Faults  BY <1>19 DEF PostAddressSet, In, Waits
<1>20. CASE Failed /\ Local /\ UNCHANGED Faults  BY <1>20 DEF Failed, Waits
<1>21. CASE TellFailure /\ Local /\ UNCHANGED Faults
  BY <1>21 DEF TellFailure, EVENT_USB_Host_DeviceEnumerationFailed, Waits
<1>22. CASE TellUnattached /\ Local /\ UNCHANGED Faults
  BY <1>22 DEF TellUnattached, EVENT_USB_Host_DeviceUnattached, Waits
<1>23. CASE ResetAfterFailure /\ Local /\ UNCHANGED Faults
  BY <1>23 DEF ResetAfterFailure, USB_ResetInterface, Waits
<1>24. CASE GetConfigDescriptor /\ UNCHANGED Faults
  BY <1>24 DEF GetConfigDescriptor, Request, Waits
<1>25. CASE NoDescriptor /\ UNCHANGED Faults  BY <1>25 DEF NoDescriptor, GiveUp, Waits
<1>26. CASE HID_Host_ConfigurePipes /\ UNCHANGED Faults
  BY <1>26 DEF HID_Host_ConfigurePipes, Waits
<1>27. CASE SetConfiguration /\ UNCHANGED Faults  BY <1>27 DEF SetConfiguration, Request, Waits
<1>28. CASE NoConfiguration /\ UNCHANGED Faults  BY <1>28 DEF NoConfiguration, GiveUp, Waits
<1>29. CASE Configured /\ UNCHANGED Faults  BY <1>29 DEF Configured, SetState, Waits
<1>30. CASE HID_Host_SetBootProtocol /\ UNCHANGED Faults
  BY <1>30 DEF HID_Host_SetBootProtocol, Request, Waits
<1>31. CASE BootProtocolSet /\ UNCHANGED Faults  BY <1>31 DEF BootProtocolSet, Waits
<1>32. CASE NoProtocol /\ UNCHANGED Faults  BY <1>32 DEF NoProtocol, GiveUp, Waits
<1>33. CASE Unconfigure /\ UNCHANGED Faults  BY <1>33 DEF Unconfigure, Request, Waits
<1>34. CASE Unconfigured /\ UNCHANGED Faults  BY <1>34 DEF Unconfigured, SetState, Waits
<1>35. CASE getKeys /\ UNCHANGED Faults  BY <1>35 DEF getKeys, Waits
<1>36. CASE CheckStatus /\ UNCHANGED Faults  BY <1>36 DEF CheckStatus, Return, Waits
<1>37. CASE CheckState /\ UNCHANGED Faults  BY <1>37 DEF CheckState, Return, Ready, Waits
<1>38. CASE HID_Host_IsReportReceived /\ UNCHANGED Faults
  BY <1>38 DEF HID_Host_IsReportReceived, Usable, Waits
<1>39. CASE HID_Host_ReceiveReport /\ UNCHANGED Faults
  BY <1>39 DEF HID_Host_ReceiveReport, Usable, Waits
<1>40. CASE Verdict /\ UNCHANGED Faults  BY <1>40 DEF Verdict, Return, Waits
<1>41. CASE ISR_DDISCI /\ Local /\ UNCHANGED Faults
  BY <1>41 DEF ISR_DDISCI, Taken, EVENT_USB_Host_DeviceUnattached, USB_ResetInterface, Waits
<1>42. CASE ISR_VBERRI /\ Local /\ UNCHANGED Faults
  BY <1>42 DEF ISR_VBERRI, Taken, EVENT_USB_Host_DeviceUnattached, Waits
<1>43. CASE ISR_SRPI /\ Local /\ UNCHANGED Faults
  BY <1>43 DEF ISR_SRPI, Taken, EVENT_USB_Host_DeviceAttached, Waits
<1>44. CASE ISR_BCERRI /\ Local /\ UNCHANGED Faults
  BY <1>44 DEF ISR_BCERRI, Taken, EVENT_USB_Host_DeviceUnattached, USB_ResetInterface, Waits
<1>45. CASE ISR_IDTI /\ Local /\ UNCHANGED Faults
  BY <1>45 DEF ISR_IDTI, Taken, EVENT_USB_Host_DeviceUnattached, USB_ResetInterface, Waits
<1>46. CASE Plug /\ Around /\ UNCHANGED Faults  BY <1>46 DEF Plug, Around, Waits
<1>47. CASE Unplug /\ Around /\ UNCHANGED Faults  BY <1>47 DEF Unplug, Around, Waits
<1>48. CASE DetectAttach /\ Around /\ UNCHANGED Faults  BY <1>48 DEF DetectAttach, Around, Waits
<1>49. CASE DetectConnect /\ Around /\ UNCHANGED Faults
  BY <1>49 DEF DetectConnect, Around, Waits
<1>50. CASE VbusDip /\ Around /\ UNCHANGED Faults  BY <1>50 DEF VbusDip, Around, Waits
<1>51. CASE SwapCable /\ Around /\ UNCHANGED Faults  BY <1>51 DEF SwapCable, Around, Waits
<1>52. CASE ReportArrives /\ UNCHANGED Faults  BY <1>52 DEF ReportArrives, Usable, Waits
<1> QED  BY <1>1, <1>2, <1>3, <1>4, <1>5, <1>6, <1>7, <1>8, <1>9, <1>10, <1>11, <1>12, <1>13,
            <1>14, <1>15, <1>16, <1>17, <1>18, <1>19, <1>20, <1>21, <1>22, <1>23, <1>24, <1>25,
            <1>26, <1>27, <1>28, <1>29, <1>30, <1>31, <1>32, <1>33, <1>34, <1>35, <1>36, <1>37,
            <1>38, <1>39, <1>40, <1>41, <1>42, <1>43, <1>44, <1>45, <1>46, <1>47, <1>48, <1>49,
            <1>50, <1>51, <1>52, Zenon
         DEF Next, Library, HostTask, EnumerationComplete, Interrupt, USB_GEN_vect, World,
             Environment, Around

\* Every step keeps a device under watch: the handler takes VBUS or the mode away
\* when it disarms DDISCI, and AfterReset arms it again.
LEMMA StepWatched ==
  ASSUME Watched, TypeOK, Next
  PROVE  Watched'
<1> USE DEF core, busVars, ctlVars, waitVars, keyVars, hidVars, callVars, At, Goto, Main,
             Pending, Tell, Local, Interrupts, Watched, Enumerating, Late, LatePlaces, Lost
<1>1. CASE USB_USBTask /\ Local /\ UNCHANGED Faults  BY <1>1 DEF USB_USBTask
<1>2. CASE USB_HostTask /\ Local /\ UNCHANGED Faults  BY <1>2 DEF USB_HostTask
<1>3. CASE WaitFails /\ Local /\ UNCHANGED Faults  BY <1>3 DEF WaitFails, In
<1>4. CASE WaitPasses /\ Local /\ UNCHANGED Faults  BY <1>4 DEF WaitPasses, In
<1>5. CASE Waited /\ Local /\ UNCHANGED Faults  BY <1>5 DEF Waited
<1>6. CASE Powered /\ Local /\ UNCHANGED Faults  BY <1>6 DEF Powered, In
<1>7. CASE Settle /\ Local /\ UNCHANGED Faults  BY <1>7 DEF Settle, In
<1>8. CASE WaitForConnect /\ Local /\ UNCHANGED Faults
  BY <1>8 DEF WaitForConnect, In, HOST_TASK_NONBLOCK_WAIT
<1>9. CASE DoReset /\ Local /\ UNCHANGED Faults  BY <1>9 DEF DoReset, ResetDevice
<1>10. CASE FrameSeen /\ Local /\ UNCHANGED Faults  BY <1>10 DEF FrameSeen
<1>11. CASE FrameCleared /\ Local /\ UNCHANGED Faults
  BY <1>11 DEF FrameCleared, AfterReset, HOST_TASK_NONBLOCK_WAIT
<1>12. CASE NoFrame /\ Local /\ UNCHANGED Faults
  BY <1>12 DEF NoFrame, AfterReset, HOST_TASK_NONBLOCK_WAIT
<1>13. CASE ConfigPipe /\ Local /\ UNCHANGED Faults  BY <1>13 DEF ConfigPipe, In, ConfigurePipe
<1>14. CASE GetDeviceDescriptor /\ Local /\ UNCHANGED Faults
  BY <1>14 DEF GetDeviceDescriptor, Request
<1>15. CASE Described /\ Local /\ UNCHANGED Faults  BY <1>15 DEF Described, ResetDevice
<1>16. CASE PostReset /\ Local /\ UNCHANGED Faults  BY <1>16 DEF PostReset, In, ConfigurePipe
<1>17. CASE SetAddress /\ Local /\ UNCHANGED Faults  BY <1>17 DEF SetAddress, Request
<1>18. CASE AddressSet /\ Local /\ UNCHANGED Faults
  BY <1>18 DEF AddressSet, HOST_TASK_NONBLOCK_WAIT
<1>19. CASE PostAddressSet /\ Local /\ UNCHANGED Faults  BY <1>19 DEF PostAddressSet, In
<1>20. CASE Failed /\ Local /\ UNCHANGED Faults  BY <1>20 DEF Failed
<1>21. CASE TellFailure /\ Local /\ UNCHANGED Faults
  BY <1>21 DEF TellFailure, EVENT_USB_Host_DeviceEnumerationFailed
<1>22. CASE TellUnattached /\ Local /\ UNCHANGED Faults
  BY <1>22 DEF TellUnattached, EVENT_USB_Host_DeviceUnattached
<1>23. CASE ResetAfterFailure /\ Local /\ UNCHANGED Faults
  BY <1>23 DEF ResetAfterFailure, USB_ResetInterface
<1>24. CASE GetConfigDescriptor /\ UNCHANGED Faults  BY <1>24 DEF GetConfigDescriptor, Request
<1>25. CASE NoDescriptor /\ UNCHANGED Faults  BY <1>25 DEF NoDescriptor, GiveUp
<1>26. CASE HID_Host_ConfigurePipes /\ UNCHANGED Faults  BY <1>26 DEF HID_Host_ConfigurePipes
<1>27. CASE SetConfiguration /\ UNCHANGED Faults  BY <1>27 DEF SetConfiguration, Request
<1>28. CASE NoConfiguration /\ UNCHANGED Faults  BY <1>28 DEF NoConfiguration, GiveUp
<1>29. CASE Configured /\ UNCHANGED Faults  BY <1>29 DEF Configured, SetState
<1>30. CASE HID_Host_SetBootProtocol /\ UNCHANGED Faults
  BY <1>30 DEF HID_Host_SetBootProtocol, Request
<1>31. CASE BootProtocolSet /\ UNCHANGED Faults  BY <1>31 DEF BootProtocolSet
<1>32. CASE NoProtocol /\ UNCHANGED Faults  BY <1>32 DEF NoProtocol, GiveUp
<1>33. CASE Unconfigure /\ UNCHANGED Faults  BY <1>33 DEF Unconfigure, Request
<1>34. CASE Unconfigured /\ UNCHANGED Faults  BY <1>34 DEF Unconfigured, SetState
<1>35. CASE getKeys /\ UNCHANGED Faults  BY <1>35 DEF getKeys
<1>36. CASE CheckStatus /\ UNCHANGED Faults  BY <1>36 DEF CheckStatus, Return
<1>37. CASE CheckState /\ UNCHANGED Faults  BY <1>37 DEF CheckState, Return, Ready
<1>38. CASE HID_Host_IsReportReceived /\ UNCHANGED Faults
  BY <1>38 DEF HID_Host_IsReportReceived, Usable
<1>39. CASE HID_Host_ReceiveReport /\ UNCHANGED Faults
  BY <1>39 DEF HID_Host_ReceiveReport, Usable
<1>40. CASE Verdict /\ UNCHANGED Faults  BY <1>40 DEF Verdict, Return
<1>41. CASE ISR_DDISCI /\ Local /\ UNCHANGED Faults
  BY <1>41 DEF ISR_DDISCI, Taken, EVENT_USB_Host_DeviceUnattached, USB_ResetInterface
<1>42. CASE ISR_VBERRI /\ Local /\ UNCHANGED Faults
  BY <1>42 DEF ISR_VBERRI, Taken, EVENT_USB_Host_DeviceUnattached
<1>43. CASE ISR_SRPI /\ Local /\ UNCHANGED Faults
  BY <1>43 DEF ISR_SRPI, Taken, EVENT_USB_Host_DeviceAttached
<1>44. CASE ISR_BCERRI /\ Local /\ UNCHANGED Faults
  BY <1>44 DEF ISR_BCERRI, Taken, EVENT_USB_Host_DeviceUnattached, USB_ResetInterface
<1>45. CASE ISR_IDTI /\ Local /\ UNCHANGED Faults
  BY <1>45 DEF ISR_IDTI, Taken, EVENT_USB_Host_DeviceUnattached, USB_ResetInterface
<1>46. CASE Plug /\ Around /\ UNCHANGED Faults  BY <1>46 DEF Plug, Around
<1>47. CASE Unplug /\ Around /\ UNCHANGED Faults  BY <1>47 DEF Unplug, Around
<1>48. CASE DetectAttach /\ Around /\ UNCHANGED Faults  BY <1>48 DEF DetectAttach, Around
<1>49. CASE DetectConnect /\ Around /\ UNCHANGED Faults  BY <1>49 DEF DetectConnect, Around
<1>50. CASE VbusDip /\ Around /\ UNCHANGED Faults  BY <1>50 DEF VbusDip, Around
<1>51. CASE SwapCable /\ Around /\ UNCHANGED Faults  BY <1>51 DEF SwapCable, Around
<1>52. CASE ReportArrives /\ UNCHANGED Faults  BY <1>52 DEF ReportArrives, Usable
<1> QED  BY <1>1, <1>2, <1>3, <1>4, <1>5, <1>6, <1>7, <1>8, <1>9, <1>10, <1>11, <1>12, <1>13,
            <1>14, <1>15, <1>16, <1>17, <1>18, <1>19, <1>20, <1>21, <1>22, <1>23, <1>24, <1>25,
            <1>26, <1>27, <1>28, <1>29, <1>30, <1>31, <1>32, <1>33, <1>34, <1>35, <1>36, <1>37,
            <1>38, <1>39, <1>40, <1>41, <1>42, <1>43, <1>44, <1>45, <1>46, <1>47, <1>48, <1>49,
            <1>50, <1>51, <1>52, Zenon
         DEF Next, Library, HostTask, EnumerationComplete, Interrupt, USB_GEN_vect, World,
             Environment, Around

\* Without another cable nothing raises IDTI, and a disabled controller raises nothing.
LEMMA StepOneCable ==
  ASSUME OneCable, TypeOK, Watched, "swap" \notin Faults, Next
  PROVE  OneCable'
<1> USE DEF core, busVars, ctlVars, waitVars, keyVars, hidVars, callVars, At, Goto, Main,
             Pending, Tell, Local, Interrupts, OneCable, Watched
<1>1. CASE USB_USBTask /\ Local /\ UNCHANGED Faults  BY <1>1 DEF USB_USBTask
<1>2. CASE USB_HostTask /\ Local /\ UNCHANGED Faults  BY <1>2 DEF USB_HostTask
<1>3. CASE WaitFails /\ Local /\ UNCHANGED Faults  BY <1>3 DEF WaitFails, In
<1>4. CASE WaitPasses /\ Local /\ UNCHANGED Faults  BY <1>4 DEF WaitPasses, In
<1>5. CASE Waited /\ Local /\ UNCHANGED Faults  BY <1>5 DEF Waited
<1>6. CASE Powered /\ Local /\ UNCHANGED Faults  BY <1>6 DEF Powered, In
<1>7. CASE Settle /\ Local /\ UNCHANGED Faults  BY <1>7 DEF Settle, In
<1>8. CASE WaitForConnect /\ Local /\ UNCHANGED Faults
  BY <1>8 DEF WaitForConnect, In, HOST_TASK_NONBLOCK_WAIT
<1>9. CASE DoReset /\ Local /\ UNCHANGED Faults  BY <1>9 DEF DoReset, ResetDevice
<1>10. CASE FrameSeen /\ Local /\ UNCHANGED Faults  BY <1>10 DEF FrameSeen
<1>11. CASE FrameCleared /\ Local /\ UNCHANGED Faults
  BY <1>11 DEF FrameCleared, AfterReset, HOST_TASK_NONBLOCK_WAIT
<1>12. CASE NoFrame /\ Local /\ UNCHANGED Faults
  BY <1>12 DEF NoFrame, AfterReset, HOST_TASK_NONBLOCK_WAIT
<1>13. CASE ConfigPipe /\ Local /\ UNCHANGED Faults  BY <1>13 DEF ConfigPipe, In, ConfigurePipe
<1>14. CASE GetDeviceDescriptor /\ Local /\ UNCHANGED Faults
  BY <1>14 DEF GetDeviceDescriptor, Request
<1>15. CASE Described /\ Local /\ UNCHANGED Faults  BY <1>15 DEF Described, ResetDevice
<1>16. CASE PostReset /\ Local /\ UNCHANGED Faults  BY <1>16 DEF PostReset, In, ConfigurePipe
<1>17. CASE SetAddress /\ Local /\ UNCHANGED Faults  BY <1>17 DEF SetAddress, Request
<1>18. CASE AddressSet /\ Local /\ UNCHANGED Faults
  BY <1>18 DEF AddressSet, HOST_TASK_NONBLOCK_WAIT
<1>19. CASE PostAddressSet /\ Local /\ UNCHANGED Faults  BY <1>19 DEF PostAddressSet, In
<1>20. CASE Failed /\ Local /\ UNCHANGED Faults  BY <1>20 DEF Failed
<1>21. CASE TellFailure /\ Local /\ UNCHANGED Faults
  BY <1>21 DEF TellFailure, EVENT_USB_Host_DeviceEnumerationFailed
<1>22. CASE TellUnattached /\ Local /\ UNCHANGED Faults
  BY <1>22 DEF TellUnattached, EVENT_USB_Host_DeviceUnattached
<1>23. CASE ResetAfterFailure /\ Local /\ UNCHANGED Faults
  BY <1>23 DEF ResetAfterFailure, USB_ResetInterface
<1>24. CASE GetConfigDescriptor /\ UNCHANGED Faults  BY <1>24 DEF GetConfigDescriptor, Request
<1>25. CASE NoDescriptor /\ UNCHANGED Faults  BY <1>25 DEF NoDescriptor, GiveUp
<1>26. CASE HID_Host_ConfigurePipes /\ UNCHANGED Faults  BY <1>26 DEF HID_Host_ConfigurePipes
<1>27. CASE SetConfiguration /\ UNCHANGED Faults  BY <1>27 DEF SetConfiguration, Request
<1>28. CASE NoConfiguration /\ UNCHANGED Faults  BY <1>28 DEF NoConfiguration, GiveUp
<1>29. CASE Configured /\ UNCHANGED Faults  BY <1>29 DEF Configured, SetState
<1>30. CASE HID_Host_SetBootProtocol /\ UNCHANGED Faults
  BY <1>30 DEF HID_Host_SetBootProtocol, Request
<1>31. CASE BootProtocolSet /\ UNCHANGED Faults  BY <1>31 DEF BootProtocolSet
<1>32. CASE NoProtocol /\ UNCHANGED Faults  BY <1>32 DEF NoProtocol, GiveUp
<1>33. CASE Unconfigure /\ UNCHANGED Faults  BY <1>33 DEF Unconfigure, Request
<1>34. CASE Unconfigured /\ UNCHANGED Faults  BY <1>34 DEF Unconfigured, SetState
<1>35. CASE getKeys /\ UNCHANGED Faults  BY <1>35 DEF getKeys
<1>36. CASE CheckStatus /\ UNCHANGED Faults  BY <1>36 DEF CheckStatus, Return
<1>37. CASE CheckState /\ UNCHANGED Faults  BY <1>37 DEF CheckState, Return, Ready
<1>38. CASE HID_Host_IsReportReceived /\ UNCHANGED Faults
  BY <1>38 DEF HID_Host_IsReportReceived, Usable
<1>39. CASE HID_Host_ReceiveReport /\ UNCHANGED Faults
  BY <1>39 DEF HID_Host_ReceiveReport, Usable
<1>40. CASE Verdict /\ UNCHANGED Faults  BY <1>40 DEF Verdict, Return
<1>41. CASE ISR_DDISCI /\ Local /\ UNCHANGED Faults
  BY <1>41 DEF ISR_DDISCI, Taken, EVENT_USB_Host_DeviceUnattached, USB_ResetInterface
<1>42. CASE ISR_VBERRI /\ Local /\ UNCHANGED Faults
  BY <1>42 DEF ISR_VBERRI, Taken, EVENT_USB_Host_DeviceUnattached
<1>43. CASE ISR_SRPI /\ Local /\ UNCHANGED Faults
  BY <1>43 DEF ISR_SRPI, Taken, EVENT_USB_Host_DeviceAttached
<1>44. CASE ISR_BCERRI /\ Local /\ UNCHANGED Faults
  BY <1>44 DEF ISR_BCERRI, Taken, EVENT_USB_Host_DeviceUnattached, USB_ResetInterface
<1>45. CASE ISR_IDTI /\ Local /\ UNCHANGED Faults
  BY <1>45 DEF ISR_IDTI, Taken, EVENT_USB_Host_DeviceUnattached, USB_ResetInterface
<1>46. CASE Plug /\ Around /\ UNCHANGED Faults  BY <1>46 DEF Plug, Around
<1>47. CASE Unplug /\ Around /\ UNCHANGED Faults  BY <1>47 DEF Unplug, Around
<1>48. CASE DetectAttach /\ Around /\ UNCHANGED Faults  BY <1>48 DEF DetectAttach, Around
<1>49. CASE DetectConnect /\ Around /\ UNCHANGED Faults  BY <1>49 DEF DetectConnect, Around
<1>50. CASE VbusDip /\ Around /\ UNCHANGED Faults  BY <1>50 DEF VbusDip, Around
<1>51. CASE SwapCable /\ Around /\ UNCHANGED Faults  BY <1>51 DEF SwapCable, Around
<1>52. CASE ReportArrives /\ UNCHANGED Faults  BY <1>52 DEF ReportArrives, Usable
<1> QED  BY <1>1, <1>2, <1>3, <1>4, <1>5, <1>6, <1>7, <1>8, <1>9, <1>10, <1>11, <1>12, <1>13,
            <1>14, <1>15, <1>16, <1>17, <1>18, <1>19, <1>20, <1>21, <1>22, <1>23, <1>24, <1>25,
            <1>26, <1>27, <1>28, <1>29, <1>30, <1>31, <1>32, <1>33, <1>34, <1>35, <1>36, <1>37,
            <1>38, <1>39, <1>40, <1>41, <1>42, <1>43, <1>44, <1>45, <1>46, <1>47, <1>48, <1>49,
            <1>50, <1>51, <1>52, Zenon
         DEF Next, Library, HostTask, EnumerationComplete, Interrupt, USB_GEN_vect, World,
             Environment, Around

\* The host state is Configured only for a keyboard in use or one that status() tells of:
\* a request that is answered finds the device under watch.
LEMMA StepConfiguredTrue ==
  ASSUME ConfiguredTrue, TypeOK, Watched, OneCable, "swap" \notin Faults, Next
  PROVE  ConfiguredTrue'
<1> USE DEF core, busVars, ctlVars, waitVars, keyVars, hidVars, callVars, At, Goto, Main,
             Pending, Tell, Local, Interrupts, ConfiguredTrue, Up, BeforeConfigured, OneCable,
             Watched, Enumerating, Late, LatePlaces, Lost, Answered
<1>1. CASE USB_USBTask /\ Local /\ UNCHANGED Faults  BY <1>1 DEF USB_USBTask
<1>2. CASE USB_HostTask /\ Local /\ UNCHANGED Faults  BY <1>2 DEF USB_HostTask
<1>3. CASE WaitFails /\ Local /\ UNCHANGED Faults  BY <1>3 DEF WaitFails, In
<1>4. CASE WaitPasses /\ Local /\ UNCHANGED Faults  BY <1>4 DEF WaitPasses, In
<1>5. CASE Waited /\ Local /\ UNCHANGED Faults  BY <1>5 DEF Waited
<1>6. CASE Powered /\ Local /\ UNCHANGED Faults  BY <1>6 DEF Powered, In
<1>7. CASE Settle /\ Local /\ UNCHANGED Faults  BY <1>7 DEF Settle, In
<1>8. CASE WaitForConnect /\ Local /\ UNCHANGED Faults
  BY <1>8 DEF WaitForConnect, In, HOST_TASK_NONBLOCK_WAIT
<1>9. CASE DoReset /\ Local /\ UNCHANGED Faults  BY <1>9 DEF DoReset, ResetDevice
<1>10. CASE FrameSeen /\ Local /\ UNCHANGED Faults  BY <1>10 DEF FrameSeen
<1>11. CASE FrameCleared /\ Local /\ UNCHANGED Faults
  BY <1>11 DEF FrameCleared, AfterReset, HOST_TASK_NONBLOCK_WAIT
<1>12. CASE NoFrame /\ Local /\ UNCHANGED Faults
  BY <1>12 DEF NoFrame, AfterReset, HOST_TASK_NONBLOCK_WAIT
<1>13. CASE ConfigPipe /\ Local /\ UNCHANGED Faults  BY <1>13 DEF ConfigPipe, In, ConfigurePipe
<1>14. CASE GetDeviceDescriptor /\ Local /\ UNCHANGED Faults
  BY <1>14 DEF GetDeviceDescriptor, Request
<1>15. CASE Described /\ Local /\ UNCHANGED Faults  BY <1>15 DEF Described, ResetDevice
<1>16. CASE PostReset /\ Local /\ UNCHANGED Faults  BY <1>16 DEF PostReset, In, ConfigurePipe
<1>17. CASE SetAddress /\ Local /\ UNCHANGED Faults  BY <1>17 DEF SetAddress, Request
<1>18. CASE AddressSet /\ Local /\ UNCHANGED Faults
  BY <1>18 DEF AddressSet, HOST_TASK_NONBLOCK_WAIT
<1>19. CASE PostAddressSet /\ Local /\ UNCHANGED Faults  BY <1>19 DEF PostAddressSet, In
<1>20. CASE Failed /\ Local /\ UNCHANGED Faults  BY <1>20 DEF Failed
<1>21. CASE TellFailure /\ Local /\ UNCHANGED Faults
  BY <1>21 DEF TellFailure, EVENT_USB_Host_DeviceEnumerationFailed
<1>22. CASE TellUnattached /\ Local /\ UNCHANGED Faults
  BY <1>22 DEF TellUnattached, EVENT_USB_Host_DeviceUnattached
<1>23. CASE ResetAfterFailure /\ Local /\ UNCHANGED Faults
  BY <1>23 DEF ResetAfterFailure, USB_ResetInterface
<1>24. CASE GetConfigDescriptor /\ UNCHANGED Faults  BY <1>24 DEF GetConfigDescriptor, Request
<1>25. CASE NoDescriptor /\ UNCHANGED Faults  BY <1>25 DEF NoDescriptor, GiveUp
<1>26. CASE HID_Host_ConfigurePipes /\ UNCHANGED Faults  BY <1>26 DEF HID_Host_ConfigurePipes
<1>27. CASE SetConfiguration /\ UNCHANGED Faults  BY <1>27 DEF SetConfiguration, Request
<1>28. CASE NoConfiguration /\ UNCHANGED Faults  BY <1>28 DEF NoConfiguration, GiveUp
<1>29. CASE Configured /\ UNCHANGED Faults  BY <1>29 DEF Configured, SetState
<1>30. CASE HID_Host_SetBootProtocol /\ UNCHANGED Faults
  BY <1>30 DEF HID_Host_SetBootProtocol, Request
<1>31. CASE BootProtocolSet /\ UNCHANGED Faults  BY <1>31 DEF BootProtocolSet
<1>32. CASE NoProtocol /\ UNCHANGED Faults  BY <1>32 DEF NoProtocol, GiveUp
<1>33. CASE Unconfigure /\ UNCHANGED Faults  BY <1>33 DEF Unconfigure, Request
<1>34. CASE Unconfigured /\ UNCHANGED Faults  BY <1>34 DEF Unconfigured, SetState
<1>35. CASE getKeys /\ UNCHANGED Faults  BY <1>35 DEF getKeys
<1>36. CASE CheckStatus /\ UNCHANGED Faults  BY <1>36 DEF CheckStatus, Return
<1>37. CASE CheckState /\ UNCHANGED Faults  BY <1>37 DEF CheckState, Return, Ready
<1>38. CASE HID_Host_IsReportReceived /\ UNCHANGED Faults
  BY <1>38 DEF HID_Host_IsReportReceived, Usable
<1>39. CASE HID_Host_ReceiveReport /\ UNCHANGED Faults
  BY <1>39 DEF HID_Host_ReceiveReport, Usable
<1>40. CASE Verdict /\ UNCHANGED Faults  BY <1>40 DEF Verdict, Return
<1>41. CASE ISR_DDISCI /\ Local /\ UNCHANGED Faults
  BY <1>41 DEF ISR_DDISCI, Taken, EVENT_USB_Host_DeviceUnattached, USB_ResetInterface
<1>42. CASE ISR_VBERRI /\ Local /\ UNCHANGED Faults
  BY <1>42 DEF ISR_VBERRI, Taken, EVENT_USB_Host_DeviceUnattached
<1>43. CASE ISR_SRPI /\ Local /\ UNCHANGED Faults
  BY <1>43 DEF ISR_SRPI, Taken, EVENT_USB_Host_DeviceAttached
<1>44. CASE ISR_BCERRI /\ Local /\ UNCHANGED Faults
  BY <1>44 DEF ISR_BCERRI, Taken, EVENT_USB_Host_DeviceUnattached, USB_ResetInterface
<1>45. CASE ISR_IDTI /\ Local /\ UNCHANGED Faults
  BY <1>45 DEF ISR_IDTI, Taken, EVENT_USB_Host_DeviceUnattached, USB_ResetInterface
<1>46. CASE Plug /\ Around /\ UNCHANGED Faults  BY <1>46 DEF Plug, Around
<1>47. CASE Unplug /\ Around /\ UNCHANGED Faults  BY <1>47 DEF Unplug, Around
<1>48. CASE DetectAttach /\ Around /\ UNCHANGED Faults  BY <1>48 DEF DetectAttach, Around
<1>49. CASE DetectConnect /\ Around /\ UNCHANGED Faults  BY <1>49 DEF DetectConnect, Around
<1>50. CASE VbusDip /\ Around /\ UNCHANGED Faults  BY <1>50 DEF VbusDip, Around
<1>51. CASE SwapCable /\ Around /\ UNCHANGED Faults  BY <1>51 DEF SwapCable, Around
<1>52. CASE ReportArrives /\ UNCHANGED Faults  BY <1>52 DEF ReportArrives, Usable
<1> QED  BY <1>1, <1>2, <1>3, <1>4, <1>5, <1>6, <1>7, <1>8, <1>9, <1>10, <1>11, <1>12, <1>13,
            <1>14, <1>15, <1>16, <1>17, <1>18, <1>19, <1>20, <1>21, <1>22, <1>23, <1>24, <1>25,
            <1>26, <1>27, <1>28, <1>29, <1>30, <1>31, <1>32, <1>33, <1>34, <1>35, <1>36, <1>37,
            <1>38, <1>39, <1>40, <1>41, <1>42, <1>43, <1>44, <1>45, <1>46, <1>47, <1>48, <1>49,
            <1>50, <1>51, <1>52, Zenon
         DEF Next, Library, HostTask, EnumerationComplete, Interrupt, USB_GEN_vect, World,
             Environment, Around

\* getKeys gets past its two tests only with a keyboard in use.
LEMMA StepTested ==
  ASSUME Tested, TypeOK, OneCable, ConfiguredTrue, "swap" \notin Faults, Next
  PROVE  Tested'
<1> USE DEF core, busVars, ctlVars, waitVars, keyVars, hidVars, callVars, At, Goto, Main,
             Pending, Tell, Local, Interrupts, Tested, ConfiguredTrue, Up
<1>1. CASE USB_USBTask /\ Local /\ UNCHANGED Faults  BY <1>1 DEF USB_USBTask
<1>2. CASE USB_HostTask /\ Local /\ UNCHANGED Faults  BY <1>2 DEF USB_HostTask
<1>3. CASE WaitFails /\ Local /\ UNCHANGED Faults  BY <1>3 DEF WaitFails, In
<1>4. CASE WaitPasses /\ Local /\ UNCHANGED Faults  BY <1>4 DEF WaitPasses, In
<1>5. CASE Waited /\ Local /\ UNCHANGED Faults  BY <1>5 DEF Waited
<1>6. CASE Powered /\ Local /\ UNCHANGED Faults  BY <1>6 DEF Powered, In
<1>7. CASE Settle /\ Local /\ UNCHANGED Faults  BY <1>7 DEF Settle, In
<1>8. CASE WaitForConnect /\ Local /\ UNCHANGED Faults
  BY <1>8 DEF WaitForConnect, In, HOST_TASK_NONBLOCK_WAIT
<1>9. CASE DoReset /\ Local /\ UNCHANGED Faults  BY <1>9 DEF DoReset, ResetDevice
<1>10. CASE FrameSeen /\ Local /\ UNCHANGED Faults  BY <1>10 DEF FrameSeen
<1>11. CASE FrameCleared /\ Local /\ UNCHANGED Faults
  BY <1>11 DEF FrameCleared, AfterReset, HOST_TASK_NONBLOCK_WAIT
<1>12. CASE NoFrame /\ Local /\ UNCHANGED Faults
  BY <1>12 DEF NoFrame, AfterReset, HOST_TASK_NONBLOCK_WAIT
<1>13. CASE ConfigPipe /\ Local /\ UNCHANGED Faults  BY <1>13 DEF ConfigPipe, In, ConfigurePipe
<1>14. CASE GetDeviceDescriptor /\ Local /\ UNCHANGED Faults
  BY <1>14 DEF GetDeviceDescriptor, Request
<1>15. CASE Described /\ Local /\ UNCHANGED Faults  BY <1>15 DEF Described, ResetDevice
<1>16. CASE PostReset /\ Local /\ UNCHANGED Faults  BY <1>16 DEF PostReset, In, ConfigurePipe
<1>17. CASE SetAddress /\ Local /\ UNCHANGED Faults  BY <1>17 DEF SetAddress, Request
<1>18. CASE AddressSet /\ Local /\ UNCHANGED Faults
  BY <1>18 DEF AddressSet, HOST_TASK_NONBLOCK_WAIT
<1>19. CASE PostAddressSet /\ Local /\ UNCHANGED Faults  BY <1>19 DEF PostAddressSet, In
<1>20. CASE Failed /\ Local /\ UNCHANGED Faults  BY <1>20 DEF Failed
<1>21. CASE TellFailure /\ Local /\ UNCHANGED Faults
  BY <1>21 DEF TellFailure, EVENT_USB_Host_DeviceEnumerationFailed
<1>22. CASE TellUnattached /\ Local /\ UNCHANGED Faults
  BY <1>22 DEF TellUnattached, EVENT_USB_Host_DeviceUnattached
<1>23. CASE ResetAfterFailure /\ Local /\ UNCHANGED Faults
  BY <1>23 DEF ResetAfterFailure, USB_ResetInterface
<1>24. CASE GetConfigDescriptor /\ UNCHANGED Faults  BY <1>24 DEF GetConfigDescriptor, Request
<1>25. CASE NoDescriptor /\ UNCHANGED Faults  BY <1>25 DEF NoDescriptor, GiveUp
<1>26. CASE HID_Host_ConfigurePipes /\ UNCHANGED Faults  BY <1>26 DEF HID_Host_ConfigurePipes
<1>27. CASE SetConfiguration /\ UNCHANGED Faults  BY <1>27 DEF SetConfiguration, Request
<1>28. CASE NoConfiguration /\ UNCHANGED Faults  BY <1>28 DEF NoConfiguration, GiveUp
<1>29. CASE Configured /\ UNCHANGED Faults  BY <1>29 DEF Configured, SetState
<1>30. CASE HID_Host_SetBootProtocol /\ UNCHANGED Faults
  BY <1>30 DEF HID_Host_SetBootProtocol, Request
<1>31. CASE BootProtocolSet /\ UNCHANGED Faults  BY <1>31 DEF BootProtocolSet
<1>32. CASE NoProtocol /\ UNCHANGED Faults  BY <1>32 DEF NoProtocol, GiveUp
<1>33. CASE Unconfigure /\ UNCHANGED Faults  BY <1>33 DEF Unconfigure, Request
<1>34. CASE Unconfigured /\ UNCHANGED Faults  BY <1>34 DEF Unconfigured, SetState
<1>35. CASE getKeys /\ UNCHANGED Faults  BY <1>35 DEF getKeys
<1>36. CASE CheckStatus /\ UNCHANGED Faults  BY <1>36 DEF CheckStatus, Return
<1>37. CASE CheckState /\ UNCHANGED Faults
  <2>1. ASSUME USB_HostState = "Configured" PROVE Ready
    <3>1. pc = "state" /\ flags \cap enabled = {}  BY <1>37 DEF CheckState
    <3>2. m_stat # "ERROR"  BY <3>1 DEF Tested
    <3>3. Up  BY <2>1, <3>1, <3>2, Zenon DEF ConfiguredTrue
    <3>4. "DDISCI" \notin flags  BY <3>1, <3>3 DEF Up
    <3> QED  BY <3>1, <3>3, <3>4 DEF Up, Ready
  <2>2. live' = Ready  BY <1>37, Zenon DEF CheckState
  <2>3. CASE USB_HostState = "Configured"
    <3>1. pc' = "poll"  BY <1>37, <2>3 DEF CheckState
    <3> QED  BY <3>1, <2>1, <2>2, <2>3 DEF Tested
  <2>4. CASE USB_HostState # "Configured"
    <3>1. pc' = "loop" /\ result' = [status |-> "NOTCONNECTED", keys |-> keys]
      BY <1>37, <2>4 DEF CheckState, Return
    <3> QED  BY <3>1 DEF Tested
  <2> QED  BY <2>3, <2>4
<1>38. CASE HID_Host_IsReportReceived /\ UNCHANGED Faults
  BY <1>38 DEF HID_Host_IsReportReceived, Usable
<1>39. CASE HID_Host_ReceiveReport /\ UNCHANGED Faults
  BY <1>39 DEF HID_Host_ReceiveReport, Usable
<1>40. CASE Verdict /\ UNCHANGED Faults  BY <1>40 DEF Verdict, Return
<1>41. CASE ISR_DDISCI /\ Local /\ UNCHANGED Faults
  BY <1>41 DEF ISR_DDISCI, Taken, EVENT_USB_Host_DeviceUnattached, USB_ResetInterface
<1>42. CASE ISR_VBERRI /\ Local /\ UNCHANGED Faults
  BY <1>42 DEF ISR_VBERRI, Taken, EVENT_USB_Host_DeviceUnattached
<1>43. CASE ISR_SRPI /\ Local /\ UNCHANGED Faults
  BY <1>43 DEF ISR_SRPI, Taken, EVENT_USB_Host_DeviceAttached
<1>44. CASE ISR_BCERRI /\ Local /\ UNCHANGED Faults
  BY <1>44 DEF ISR_BCERRI, Taken, EVENT_USB_Host_DeviceUnattached, USB_ResetInterface
<1>45. CASE ISR_IDTI /\ Local /\ UNCHANGED Faults
  BY <1>45 DEF ISR_IDTI, Taken, EVENT_USB_Host_DeviceUnattached, USB_ResetInterface
<1>46. CASE Plug /\ Around /\ UNCHANGED Faults  BY <1>46 DEF Plug, Around
<1>47. CASE Unplug /\ Around /\ UNCHANGED Faults  BY <1>47 DEF Unplug, Around
<1>48. CASE DetectAttach /\ Around /\ UNCHANGED Faults  BY <1>48 DEF DetectAttach, Around
<1>49. CASE DetectConnect /\ Around /\ UNCHANGED Faults  BY <1>49 DEF DetectConnect, Around
<1>50. CASE VbusDip /\ Around /\ UNCHANGED Faults  BY <1>50 DEF VbusDip, Around
<1>51. CASE SwapCable /\ Around /\ UNCHANGED Faults  BY <1>51 DEF SwapCable, Around
<1>52. CASE ReportArrives /\ UNCHANGED Faults  BY <1>52 DEF ReportArrives, Usable
<1> QED  BY <1>1, <1>2, <1>3, <1>4, <1>5, <1>6, <1>7, <1>8, <1>9, <1>10, <1>11, <1>12, <1>13,
            <1>14, <1>15, <1>16, <1>17, <1>18, <1>19, <1>20, <1>21, <1>22, <1>23, <1>24, <1>25,
            <1>26, <1>27, <1>28, <1>29, <1>30, <1>31, <1>32, <1>33, <1>34, <1>35, <1>36, <1>37,
            <1>38, <1>39, <1>40, <1>41, <1>42, <1>43, <1>44, <1>45, <1>46, <1>47, <1>48, <1>49,
            <1>50, <1>51, <1>52, Zenon
         DEF Next, Library, HostTask, EnumerationComplete, Interrupt, USB_GEN_vect, World,
             Environment, Around

\* A change of the cable or of the device is noticed: by the interrupt that is
\* to come, or by the handler that has dealt with it.
LEMMA StepNoticed ==
  ASSUME Noticed, TypeOK, Watched, Faults \cap {"frame", "swapPlugged"} = {}, Next
  PROVE  Noticed'
<1> USE DEF core, busVars, ctlVars, waitVars, keyVars, hidVars, callVars, At, Goto, Main,
             Pending, Tell, Local, Interrupts, Noticed, Watched
<1>1. CASE USB_USBTask /\ Local /\ UNCHANGED Faults  BY <1>1 DEF USB_USBTask
<1>2. CASE USB_HostTask /\ Local /\ UNCHANGED Faults  BY <1>2 DEF USB_HostTask
<1>3. CASE WaitFails /\ Local /\ UNCHANGED Faults  BY <1>3 DEF WaitFails, In
<1>4. CASE WaitPasses /\ Local /\ UNCHANGED Faults  BY <1>4 DEF WaitPasses, In
<1>5. CASE Waited /\ Local /\ UNCHANGED Faults  BY <1>5 DEF Waited
<1>6. CASE Powered /\ Local /\ UNCHANGED Faults  BY <1>6 DEF Powered, In
<1>7. CASE Settle /\ Local /\ UNCHANGED Faults  BY <1>7 DEF Settle, In
<1>8. CASE WaitForConnect /\ Local /\ UNCHANGED Faults
  BY <1>8 DEF WaitForConnect, In, HOST_TASK_NONBLOCK_WAIT
<1>9. CASE DoReset /\ Local /\ UNCHANGED Faults  BY <1>9 DEF DoReset, ResetDevice
<1>10. CASE FrameSeen /\ Local /\ UNCHANGED Faults  BY <1>10 DEF FrameSeen
<1>11. CASE FrameCleared /\ Local /\ UNCHANGED Faults
  BY <1>11 DEF FrameCleared, AfterReset, HOST_TASK_NONBLOCK_WAIT
<1>12. CASE NoFrame /\ Local /\ UNCHANGED Faults
  BY <1>12 DEF NoFrame, AfterReset, HOST_TASK_NONBLOCK_WAIT
<1>13. CASE ConfigPipe /\ Local /\ UNCHANGED Faults  BY <1>13 DEF ConfigPipe, In, ConfigurePipe
<1>14. CASE GetDeviceDescriptor /\ Local /\ UNCHANGED Faults
  BY <1>14 DEF GetDeviceDescriptor, Request
<1>15. CASE Described /\ Local /\ UNCHANGED Faults  BY <1>15 DEF Described, ResetDevice
<1>16. CASE PostReset /\ Local /\ UNCHANGED Faults  BY <1>16 DEF PostReset, In, ConfigurePipe
<1>17. CASE SetAddress /\ Local /\ UNCHANGED Faults  BY <1>17 DEF SetAddress, Request
<1>18. CASE AddressSet /\ Local /\ UNCHANGED Faults
  BY <1>18 DEF AddressSet, HOST_TASK_NONBLOCK_WAIT
<1>19. CASE PostAddressSet /\ Local /\ UNCHANGED Faults  BY <1>19 DEF PostAddressSet, In
<1>20. CASE Failed /\ Local /\ UNCHANGED Faults  BY <1>20 DEF Failed
<1>21. CASE TellFailure /\ Local /\ UNCHANGED Faults
  BY <1>21 DEF TellFailure, EVENT_USB_Host_DeviceEnumerationFailed
<1>22. CASE TellUnattached /\ Local /\ UNCHANGED Faults
  BY <1>22 DEF TellUnattached, EVENT_USB_Host_DeviceUnattached
<1>23. CASE ResetAfterFailure /\ Local /\ UNCHANGED Faults
  BY <1>23 DEF ResetAfterFailure, USB_ResetInterface
<1>24. CASE GetConfigDescriptor /\ UNCHANGED Faults  BY <1>24 DEF GetConfigDescriptor, Request
<1>25. CASE NoDescriptor /\ UNCHANGED Faults  BY <1>25 DEF NoDescriptor, GiveUp
<1>26. CASE HID_Host_ConfigurePipes /\ UNCHANGED Faults  BY <1>26 DEF HID_Host_ConfigurePipes
<1>27. CASE SetConfiguration /\ UNCHANGED Faults  BY <1>27 DEF SetConfiguration, Request
<1>28. CASE NoConfiguration /\ UNCHANGED Faults  BY <1>28 DEF NoConfiguration, GiveUp
<1>29. CASE Configured /\ UNCHANGED Faults  BY <1>29 DEF Configured, SetState
<1>30. CASE HID_Host_SetBootProtocol /\ UNCHANGED Faults
  BY <1>30 DEF HID_Host_SetBootProtocol, Request
<1>31. CASE BootProtocolSet /\ UNCHANGED Faults  BY <1>31 DEF BootProtocolSet
<1>32. CASE NoProtocol /\ UNCHANGED Faults  BY <1>32 DEF NoProtocol, GiveUp
<1>33. CASE Unconfigure /\ UNCHANGED Faults  BY <1>33 DEF Unconfigure, Request
<1>34. CASE Unconfigured /\ UNCHANGED Faults  BY <1>34 DEF Unconfigured, SetState
<1>35. CASE getKeys /\ UNCHANGED Faults  BY <1>35 DEF getKeys
<1>36. CASE CheckStatus /\ UNCHANGED Faults  BY <1>36 DEF CheckStatus, Return
<1>37. CASE CheckState /\ UNCHANGED Faults  BY <1>37 DEF CheckState, Return, Ready
<1>38. CASE HID_Host_IsReportReceived /\ UNCHANGED Faults
  BY <1>38 DEF HID_Host_IsReportReceived, Usable
<1>39. CASE HID_Host_ReceiveReport /\ UNCHANGED Faults
  BY <1>39 DEF HID_Host_ReceiveReport, Usable
<1>40. CASE Verdict /\ UNCHANGED Faults  BY <1>40 DEF Verdict, Return
<1>41. CASE ISR_DDISCI /\ Local /\ UNCHANGED Faults
  BY <1>41 DEF ISR_DDISCI, Taken, EVENT_USB_Host_DeviceUnattached, USB_ResetInterface
<1>42. CASE ISR_VBERRI /\ Local /\ UNCHANGED Faults
  BY <1>42 DEF ISR_VBERRI, Taken, EVENT_USB_Host_DeviceUnattached
<1>43. CASE ISR_SRPI /\ Local /\ UNCHANGED Faults
  BY <1>43 DEF ISR_SRPI, Taken, EVENT_USB_Host_DeviceAttached
<1>44. CASE ISR_BCERRI /\ Local /\ UNCHANGED Faults
  BY <1>44 DEF ISR_BCERRI, Taken, EVENT_USB_Host_DeviceUnattached, USB_ResetInterface
<1>45. CASE ISR_IDTI /\ Local /\ UNCHANGED Faults
  <2>1. "IDTI" \in flags  BY <1>45 DEF ISR_IDTI, Taken
  <2>2. USB_CurrentMode' = uid' /\ flags' = {} /\ "IDTI" \in enabled'
    BY <1>45 DEF ISR_IDTI, USB_ResetInterface
  <2>3. pc' = pc /\ line' # "connected" /\ (line' = "out" => line = "out")
    BY <1>45 DEF ISR_IDTI, USB_ResetInterface, TypeOK, HostTypeOK
  <2>4. m_stat # "CONNECTED"
    <3> SUFFICES ASSUME m_stat = "CONNECTED" PROVE FALSE  OBVIOUS
    <3>1. USB_CurrentMode = "Host" /\ USB_CurrentMode # uid  BY <2>1, Zenon DEF Noticed
    <3>2. flags = {"IDTI"} /\ line = "out"  BY <3>1 DEF Noticed
    <3>3. "DDISCI" \in flags  BY <3>2, Zenon DEF Noticed
    <3> QED  BY <3>2, <3>3
  <2>5. m_stat' # "CONNECTED"
    BY <1>45, <2>4 DEF ISR_IDTI, EVENT_USB_Host_DeviceUnattached
  <2> QED  BY <2>2, <2>3, <2>5 DEF Noticed
<1>46. CASE Plug /\ Around /\ UNCHANGED Faults  BY <1>46 DEF Plug, Around
<1>47. CASE Unplug /\ Around /\ UNCHANGED Faults  BY <1>47 DEF Unplug, Around
<1>48. CASE DetectAttach /\ Around /\ UNCHANGED Faults  BY <1>48 DEF DetectAttach, Around
<1>49. CASE DetectConnect /\ Around /\ UNCHANGED Faults  BY <1>49 DEF DetectConnect, Around
<1>50. CASE VbusDip /\ Around /\ UNCHANGED Faults  BY <1>50 DEF VbusDip, Around
<1>51. CASE SwapCable /\ Around /\ UNCHANGED Faults  BY <1>51 DEF SwapCable, Around
<1>52. CASE ReportArrives /\ UNCHANGED Faults  BY <1>52 DEF ReportArrives, Usable
<1> QED  BY <1>1, <1>2, <1>3, <1>4, <1>5, <1>6, <1>7, <1>8, <1>9, <1>10, <1>11, <1>12, <1>13,
            <1>14, <1>15, <1>16, <1>17, <1>18, <1>19, <1>20, <1>21, <1>22, <1>23, <1>24, <1>25,
            <1>26, <1>27, <1>28, <1>29, <1>30, <1>31, <1>32, <1>33, <1>34, <1>35, <1>36, <1>37,
            <1>38, <1>39, <1>40, <1>41, <1>42, <1>43, <1>44, <1>45, <1>46, <1>47, <1>48, <1>49,
            <1>50, <1>51, <1>52, Zenon
         DEF Next, Library, HostTask, EnumerationComplete, Interrupt, USB_GEN_vect, World,
             Environment, Around

-----------------------------------------------------------------------------
(* The invariant holds, and what follows from it.                           *)

\* The program starts with nothing plugged in.
LEMMA InitIInv == ASSUME Init PROVE IInv
<1>1. /\ Faults \in FaultSets /\ line = "out" /\ uid = "Host" /\ vbus = "manual" /\ flags = {}
      /\ enabled = {"IDTI", "SRPI", "BCERRI"} /\ USB_CurrentMode = "Host"
      /\ USB_HostState = "Unattached" /\ WaitMSRemaining = 0 /\ PostWaitState = "Unattached"
  BY Zenon DEF Init, HostInit
<1>2. /\ m_stat = "NOTCONNECTED" /\ m_err = "NONE" /\ bank = "none" /\ pc = "loop"
      /\ seen = "Unattached" /\ device = "keyboard" /\ IsActive = FALSE
      /\ UsingBootProtocol = FALSE /\ keys = "none" /\ live = FALSE
      /\ result = [status |-> "NOTCONNECTED", keys |-> "none"]
  BY Zenon DEF Init, HostInit
<1>3. HostTypeOK
  BY ONLY <1>1, <1>2 DEF HostTypeOK, HostStates, Sources, Interrupts
<1>4. TypeOK
  BY ONLY <1>2, <1>3, Zenon DEF TypeOK, Stats, Errors, Places
<1>5. Waits  BY ONLY <1>2 DEF Waits
<1>6. Watched  BY ONLY <1>1 DEF Watched
<1>7. OneCable  BY ONLY <1>1 DEF OneCable
<1>8. ConfiguredTrue  BY ONLY <1>1 DEF ConfiguredTrue
<1>9. Tested  BY ONLY <1>2 DEF Tested
<1>10. Noticed  BY ONLY <1>1, <1>2 DEF Noticed
<1> QED  BY ONLY <1>4, <1>5, <1>6, <1>7, <1>8, <1>9, <1>10, Zenon DEF IInv

\* Every step of the program, the handler and the environment keeps it.
LEMMA StepIInv == ASSUME IInv, [Next]_vars PROVE IInv'
<1>1. CASE Next
  <2>1. Faults' = Faults  BY <1>1, Zenon DEF Next
  <2>2. TypeOK' /\ Waits' /\ Watched'
    BY <1>1, StepType, StepWaits, StepWatched, Zenon DEF IInv
  <2>3. ASSUME "swap" \notin Faults PROVE OneCable' /\ ConfiguredTrue' /\ Tested'
    BY <1>1, <2>3, StepOneCable, StepConfiguredTrue, StepTested, Zenon DEF IInv
  <2>4. ASSUME Faults \cap {"frame", "swapPlugged"} = {} PROVE Noticed'
    BY <1>1, <2>4, StepNoticed, Zenon DEF IInv
  <2> QED  BY <2>1, <2>2, <2>3, <2>4, Zenon DEF IInv
<1>2. CASE UNCHANGED vars
  <2>1. UNCHANGED <<core, pc, seen, Faults, hidVars, callVars>>
    BY <1>2, Zenon DEF vars, hostVars
  <2>2. UNCHANGED <<busVars, ctlVars, waitVars, keyVars, bank>>
    BY <2>1, Zenon DEF core
  <2>3. /\ line' = line /\ uid' = uid /\ vbus' = vbus /\ flags' = flags /\ enabled' = enabled
        /\ USB_CurrentMode' = USB_CurrentMode /\ USB_HostState' = USB_HostState
        /\ WaitMSRemaining' = WaitMSRemaining /\ PostWaitState' = PostWaitState
        /\ m_stat' = m_stat /\ m_err' = m_err /\ bank' = bank
    BY <2>2, Zenon DEF busVars, ctlVars, waitVars, keyVars
  <2>4. /\ pc' = pc /\ seen' = seen /\ Faults' = Faults /\ device' = device
        /\ IsActive' = IsActive /\ UsingBootProtocol' = UsingBootProtocol
        /\ keys' = keys /\ result' = result /\ live' = live
    BY <2>1, Zenon DEF hidVars, callVars
  <2>5. HostTypeOK => HostTypeOK'  BY ONLY <2>3, <2>4, SMT DEF HostTypeOK
  <2>6. TypeOK => TypeOK'  BY ONLY <2>3, <2>4, <2>5, Zenon DEF TypeOK
  <2>7. Waits' = Waits  BY ONLY <2>3, <2>4, Zenon DEF Waits
  <2>8. Watched' = Watched  BY ONLY <2>3, <2>4, Zenon DEF Watched, Enumerating
  <2>9. OneCable' = OneCable  BY ONLY <2>3, <2>4, Zenon DEF OneCable
  <2>10. ConfiguredTrue' = ConfiguredTrue
    BY ONLY <2>3, <2>4, Zenon DEF ConfiguredTrue, Up
  <2>11. Tested' = Tested  BY ONLY <2>3, <2>4, Zenon DEF Tested
  <2>12. Noticed' = Noticed  BY ONLY <2>3, <2>4, Zenon DEF Noticed
  <2>13. TypeOK' /\ Waits' /\ Watched'  BY <2>6, <2>7, <2>8, Zenon DEF IInv
  <2>14. "swap" \notin Faults' => OneCable' /\ ConfiguredTrue' /\ Tested'
    BY <2>4, <2>9, <2>10, <2>11, Zenon DEF IInv
  <2>15. Faults' \cap {"frame", "swapPlugged"} = {} => Noticed'
    BY <2>4, <2>12, Zenon DEF IInv
  <2> QED  BY ONLY <2>13, <2>14, <2>15, Zenon DEF IInv
<1> QED  BY <1>1, <1>2

\* The inductive invariant holds in every reachable state, whatever faults the
\* environment is allowed and however the handler interrupts the main program.
THEOREM Invariant == Spec => []IInv
BY InitIInv, StepIInv, PTL DEF Spec

\* getKeys never returns STAT_CONNECTED for a keyboard that was not ready as it
\* tested the host state, whatever USB_GEN_vect did between the steps of the
\* enumeration, and every variable keeps its type.
THEOREM ConnectedIsTrue == Spec => []ConnectedTrue
<1>1. IInv => ConnectedTrue  BY Zenon DEF IInv, Tested, ConnectedTrue
<1> QED  BY <1>1, Invariant, PTL

\* When USB_GEN_vect has nothing left to serve the controller is in the mode of
\* the cable and status() tells of no device that has gone.
THEOREM EventsAreServed == Spec => []EventsServed
<1>1. ASSUME IInv PROVE EventsServed
  <2> SUFFICES ASSUME Faults \cap {"frame", "swapPlugged"} = {}, flags \cap enabled = {}
               PROVE  /\ USB_CurrentMode \in {uid, "None"}
                      /\ pc = "loop" /\ line = "out" => m_stat # "CONNECTED"
    BY Zenon DEF EventsServed, Pending
  <2>1. Noticed  BY <1>1, Zenon DEF IInv
  <2> QED  BY <2>1 DEF Noticed
<1> QED  BY <1>1, Invariant, PTL

=============================================================================
