----------------------------- MODULE UsbSerial -----------------------------
(***************************************************************************)
(* The USB serial port: USBSerial_ (USBSerialClass.cpp) over the LUFA CDC  *)
(* class driver (CDCClassDevice.c) and the device core.  The sketch calls  *)
(* one operation at a time; every operation first runs the tasks, which    *)
(* flush the IN bank and serve one control request.                        *)
(*                                                                         *)
(* stage counts the times an operation has run the tasks: peek() and read()*)
(* call available(), which runs them again.                                *)
(***************************************************************************)
EXTENDS UsbDevice

CONSTANTS
  Data,            \* bytes
  CDC_TXRX_EPSIZE, \* size of the one bank of each data endpoint
  Uses             \* hosts and sketches to consider: HostEvents, Ops, Written and Sent

AllOps == {"available", "peek", "read", "write", "flush", "bool", "end"}

ASSUME SerialAssumption ==
  /\ CDC_TXRX_EPSIZE \in Nat \ {0}
  /\ -1 \notin Data /\ 0 \notin Data
  /\ Uses \subseteq [host : SUBSET HostChoices,
                     ops : SUBSET AllOps, written : SUBSET Data, sent : SUBSET Data]

VARIABLES
  Ops,             \* what this sketch calls
  Written, Sent,   \* the bytes it writes, and the bytes of the host's packets
  configured,      \* the data endpoints exist
  BaudRateBPS,     \* a line encoding other than 0 is set
  m_lineState,
  inBank, inReady, \* IN endpoint: the bank, and does it belong to the program
  outBank,         \* OUT endpoint: bytes not read
  outReceived,
  m_didPeek, m_peek,
  op, arg, stage,  \* the call in progress
  result,
  inQueue,         \* history: bytes write() took and the host has not got
  outQueue         \* history: bytes the host sent and the sketch has not got

inVars == <<inBank, inReady, inQueue>>
outVars == <<outBank, outReceived, outQueue>>
endpoints == <<configured, inVars, outVars>>
peekVars == <<m_didPeek, m_peek>>
callVars == <<op, arg, stage, result>>
cdc == <<BaudRateBPS, m_lineState>>
serial == <<endpoints, peekVars, callVars, cdc>>
use == <<HostEvents, Ops, Written, Sent>>
vars == <<use, core, pc, request, serial>>

Result == Data \cup (-1..CDC_TXRX_EPSIZE)

\* Every variable has its type; OutConserved includes it.
TypeOK ==
  /\ CoreTypeOK /\ Ops \subseteq AllOps /\ Written \cup Sent \subseteq Data
  /\ pc \in {"off", "idle", "tasks", "flush", "device", "line", "status", "address", "apply",
             "body", "receive", "send", "put", "flushed"}
  /\ configured \in BOOLEAN /\ BaudRateBPS \in BOOLEAN /\ m_lineState \in BOOLEAN
  /\ inBank \in Seq(Data) /\ Len(inBank) <= CDC_TXRX_EPSIZE /\ inReady \in BOOLEAN
  /\ outBank \in Seq(Data) /\ Len(outBank) <= CDC_TXRX_EPSIZE /\ outReceived \in BOOLEAN
  /\ m_didPeek \in BOOLEAN /\ m_peek \in Data \cup {-1, 0}
  /\ op \in Ops \cup {"none"} /\ result \in Result /\ arg \in Data \cup {0} /\ stage \in 0..2
  /\ inQueue \in Seq(Data) /\ outQueue \in Seq(Data)

Init ==
  /\ \E u \in Uses : /\ HostEvents = u.host /\ Ops = u.ops
                    /\ Written = u.written /\ Sent = u.sent
  /\ CoreInit
  /\ configured = FALSE /\ BaudRateBPS = FALSE /\ m_lineState = FALSE
  /\ inBank = <<>> /\ inReady = FALSE /\ outBank = <<>> /\ outReceived = FALSE
  /\ m_didPeek = FALSE /\ m_peek = 0
  /\ op = "none" /\ arg = 0 /\ stage = 0 /\ result = 0
  /\ inQueue = <<>> /\ outQueue = <<>>

\* A byte peeked is still to come.
Peeked == IF m_didPeek /\ m_peek \in Data THEN <<m_peek>> ELSE <<>>

\* Endpoints that are set up or lost hold nothing.
DataEndpoints(exist) ==
  /\ configured' = exist
  /\ inBank' = <<>> /\ inReady' = exist /\ inQueue' = <<>>
  /\ outBank' = <<>> /\ outReceived' = FALSE /\ outQueue' = Peeked

-----------------------------------------------------------------------------
(***************************************************************************)
(* The CDC class driver.                                                   *)
(***************************************************************************)

\* The test every function of the driver begins with.
Usable == USB_DeviceState = "Configured" /\ BaudRateBPS

IsReadWriteAllowed == inReady /\ Len(inBank) < CDC_TXRX_EPSIZE

\* Endpoint_ClearIN: the bank goes to the host.
ClearIN == inReady' = FALSE /\ UNCHANGED <<inBank, inQueue>>

\* Endpoint_BytesInEndpoint of the IN endpoint; external: what it counts
\* while the bank is with the host is not documented.
BytesInEndpoint == IF inReady THEN {Len(inBank)} ELSE {0, Len(inBank)}

\* CDC_Device_Flush; a full bank is followed by an empty packet.
CDC_Device_Flush(next) ==
  \/ /\ ~Usable \/ 0 \in BytesInEndpoint
     /\ pc' = next
     /\ UNCHANGED inVars
  \/ /\ Usable /\ \E n \in BytesInEndpoint : n # 0
     /\ ClearIN
     /\ pc' = IF IsReadWriteAllowed THEN next ELSE "flush"

\* Where a flush that waits goes on: in the tasks, or at the end of flush().
AfterFlush == IF stage = 2 /\ op = "flush" THEN "flushed" ELSE "device"

\* Endpoint_WaitUntilReady.  The time-out counts frames.
Ready == inReady
NotReady ==
  /\ ~inReady
  /\ \/ USB_DeviceState \in {"Unattached", "Suspended"}
     \/ "nak" \in HostEvents /\ bus = "live" /\ running

Flush_wait ==
  /\ pc = "flush"
  /\ pc' = AfterFlush
  /\ \/ Ready /\ ClearIN
     \/ NotReady /\ UNCHANGED inVars
  /\ UNCHANGED <<core, request, configured, outVars, peekVars, callVars, cdc>>

\* CDC_Device_BytesReceived: its result, and its effect on an empty packet.
BytesReceived == IF Usable /\ outReceived THEN Len(outBank) ELSE 0
DropEmptyPacket ==
  /\ outReceived' = (outReceived /\ ~(Usable /\ outBank = <<>>))
  /\ UNCHANGED <<outBank, outQueue>>

\* CDC_Device_ReceiveByte as it would be if it let the bank go too early.
CDC_Device_ReceiveByte_early ==
  IF Usable /\ outReceived /\ outBank # <<>>
  THEN /\ outBank' = <<>> /\ outReceived' = FALSE
  ELSE UNCHANGED <<outBank, outReceived>>

CDC_Device_ReceiveByte ==
  IF Usable /\ outReceived /\ outBank # <<>>
  THEN /\ outBank' = Tail(outBank)
       /\ outReceived' = (Tail(outBank) # <<>>)
  ELSE UNCHANGED <<outBank, outReceived>>
ReceivedByte == IF Usable /\ outReceived /\ outBank # <<>> THEN Head(outBank) ELSE -1

\* SetLineEncoding: the wait for the data, which a detached device leaves.
SetLineEncoding ==
  /\ pc = "line"
  /\ \/ /\ RXOUTI
        /\ BaudRateBPS' = TRUE /\ RXOUTI' = FALSE
        /\ pc' = "status" /\ UNCHANGED request
     \/ /\ ~RXOUTI /\ USB_DeviceState = "Unattached"
        /\ pc' = "body" /\ request' = "none"
        /\ UNCHANGED <<BaudRateBPS, RXOUTI>>
  /\ UNCHANGED <<hostVars, interruptVars, stateVars, RXSTPI, TXINI, endpoints,
                 peekVars, callVars, m_lineState>>

\* SetControlLineState, and the event that notes DTR.
SetControlLineState ==
  /\ pc = "apply" /\ request \in {"DtrOn", "DtrOff"}
  /\ m_lineState' = (request = "DtrOn")
  /\ pc' = "body" /\ request' = "none"
  /\ UNCHANGED <<core, endpoints, peekVars, callVars, BaudRateBPS>>

\* The end of USB_Device_SetConfiguration, with
\* EVENT_USB_Device_ConfigurationChanged and CDC_Device_ConfigureEndpoints.
USB_Device_SetConfiguration ==
  /\ pc = "apply" /\ request \in Configures
  /\ USB_DeviceState' = ConfiguredState(USB_Device_ConfigurationNumber)
  /\ BaudRateBPS' = FALSE
  /\ DataEndpoints(TRUE)
  /\ pc' = "body" /\ request' = "none"
  /\ UNCHANGED <<hostVars, interruptVars, running, USB_Device_ConfigurationNumber, address, ep0,
                 peekVars, callVars, m_lineState>>

-----------------------------------------------------------------------------
(***************************************************************************)
(* USBSerial_.                                                             *)
(***************************************************************************)

begin ==
  /\ pc = "off" \/ (pc = "idle" /\ ~running)
  /\ USB_Init
  /\ pc' = "idle"
  /\ DataEndpoints(FALSE)
  /\ UNCHANGED <<request, peekVars, callVars, cdc>>

end ==
  /\ pc = "idle" /\ "end" \in Ops /\ running
  /\ USB_Disable
  /\ DataEndpoints(FALSE)
  /\ UNCHANGED <<pc, request, peekVars, callVars, cdc>>

Call(o, c) ==
  /\ pc = "idle" /\ o \in Ops \ {"end"}
  /\ o = "peek" => ~m_didPeek    \* a second one would replace the byte kept
  /\ o = "read" => m_didPeek \/ BytesReceived > 0   \* available() has just said so
  /\ (c = 0) = (o # "write")
  /\ op' = o /\ arg' = c /\ stage' = 1
  /\ pc' = IF o = "bool" THEN "device" ELSE "tasks"
  /\ result' = 0
  /\ UNCHANGED <<core, request, endpoints, peekVars, cdc>>

\* The task as it would be without its flush.
CDC_Device_USBTask_noflush ==
  /\ pc = "tasks"
  /\ pc' = "device" /\ UNCHANGED inVars
  /\ UNCHANGED <<core, request, configured, outVars, peekVars, callVars, cdc>>

\* _doTasks: CDC_Device_USBTask, then USB_USBTask.
CDC_Device_USBTask ==
  /\ pc = "tasks"
  /\ IF Usable /\ inReady
     THEN CDC_Device_Flush("device")
     ELSE pc' = "device" /\ UNCHANGED inVars
  /\ UNCHANGED <<core, request, configured, outVars, peekVars, callVars, cdc>>

\* The call is over.
Return(r) ==
  /\ pc' = "idle" /\ result' = r
  /\ op' = "none" /\ arg' = 0 /\ stage' = 0

available ==
  /\ pc = "body" /\ op = "available"
  /\ DropEmptyPacket
  /\ Return(BytesReceived)
  /\ UNCHANGED <<core, request, configured, inVars, peekVars, cdc>>

\* peek() and read() run the tasks again in available().
Again ==
  /\ pc' = "tasks" /\ stage' = 2
  /\ UNCHANGED <<endpoints, peekVars, result, op, arg>>

\* read() finds a byte that peek() has kept.
ReadPeeked ==
  /\ m_didPeek' = FALSE
  /\ Return(m_peek)
  /\ outQueue' = IF m_peek \in Data THEN Tail(outQueue) ELSE outQueue
  /\ UNCHANGED <<configured, inVars, outBank, outReceived, m_peek>>

FirstPass ==
  /\ pc = "body" /\ stage = 1 /\ op \in {"peek", "read"}
  /\ \/ op # "read" /\ Again
     \/ op = "read" /\ m_didPeek /\ ReadPeeked
     \/ /\ op = "read" /\ ~m_didPeek /\ USB_DeviceState # "Configured"
        /\ Return(-1) /\ UNCHANGED <<endpoints, peekVars>>
     \/ op = "read" /\ ~m_didPeek /\ USB_DeviceState = "Configured" /\ Again
  /\ UNCHANGED <<core, request, cdc>>

\* The second pass as it would be if peek() and read() waited for a byte.
SecondPass_wait ==
  /\ pc = "body" /\ stage = 2 /\ op \in {"peek", "read"}
  /\ DropEmptyPacket
  /\ pc' = IF BytesReceived > 0 THEN "receive" ELSE "tasks"
  /\ UNCHANGED <<core, request, configured, inVars, peekVars, callVars, cdc>>

\* With nothing available peek() returns 0 and read() returns no value at all.
SecondPass ==
  /\ pc = "body" /\ stage = 2 /\ op \in {"peek", "read"}
  /\ DropEmptyPacket
  /\ \/ BytesReceived > 0 /\ pc' = "receive" /\ UNCHANGED callVars
     \/ BytesReceived = 0 /\ op # "read" /\ Return(0)
     \/ BytesReceived = 0 /\ op = "read" /\ \E r \in Data \cup {-1} : Return(r)
  /\ UNCHANGED <<core, request, configured, inVars, peekVars, cdc>>

receive ==
  /\ pc = "receive"
  /\ CDC_Device_ReceiveByte
  /\ Return(ReceivedByte)
  /\ IF op = "read"
     THEN outQueue' = (IF ReceivedByte = -1 THEN outQueue ELSE Tail(outQueue))
          /\ UNCHANGED peekVars
     ELSE m_didPeek' = TRUE /\ m_peek' = ReceivedByte /\ UNCHANGED outQueue
  /\ UNCHANGED <<core, request, configured, inVars, cdc>>

\* write(): CDC_Device_SendByte sends a full bank away and waits for it.
write ==
  /\ pc = "body" /\ op = "write"
  /\ \/ ~Usable /\ Return(0) /\ UNCHANGED inVars
     \/ Usable /\ IsReadWriteAllowed /\ pc' = "put" /\ UNCHANGED <<inVars, callVars>>
     \/ Usable /\ ~IsReadWriteAllowed /\ ClearIN /\ pc' = "send" /\ UNCHANGED callVars
  /\ UNCHANGED <<core, request, configured, outVars, peekVars, cdc>>

\* The wait as it would be if its result were not looked at.
write_wait_ignored ==
  /\ pc = "send"
  /\ (Ready \/ NotReady) /\ pc' = "put" /\ UNCHANGED callVars
  /\ UNCHANGED <<core, request, endpoints, peekVars, cdc>>

write_wait ==
  /\ pc = "send"
  /\ \/ Ready /\ pc' = "put" /\ UNCHANGED callVars
     \/ NotReady /\ Return(0)
  /\ UNCHANGED <<core, request, endpoints, peekVars, cdc>>

\* Endpoint_Write_8: a bank that is not the program's, or full, takes nothing.
write_put ==
  /\ pc = "put"
  /\ inBank' = IF IsReadWriteAllowed THEN Append(inBank, arg) ELSE inBank
  /\ inQueue' = IF configured THEN Append(inQueue, arg) ELSE inQueue
  /\ Return(1)
  /\ UNCHANGED <<core, request, configured, inReady, outVars, peekVars, cdc>>

flush ==
  /\ pc = "body" /\ op = "flush"
  /\ CDC_Device_Flush("flushed")
  /\ stage' = 2
  /\ UNCHANGED <<core, request, configured, outVars, peekVars, op, arg, result, cdc>>

flush_return ==
  /\ pc = "flushed"
  /\ Return(0)
  /\ UNCHANGED <<core, request, endpoints, peekVars, cdc>>

operator_bool ==
  /\ pc = "body" /\ op = "bool"
  /\ Return(IF m_lineState THEN 1 ELSE 0)
  /\ UNCHANGED <<core, request, endpoints, peekVars, cdc>>

-----------------------------------------------------------------------------
(***************************************************************************)
(* External: the data endpoints as the host uses them.                     *)
(***************************************************************************)

HostTakes ==
  /\ Talking /\ view = "configured" /\ configured /\ ~inReady
  /\ inBank' = <<>> /\ inReady' = TRUE
  /\ inQueue' = SubSeq(inQueue, Len(inBank) + 1, Len(inQueue))
  /\ UNCHANGED <<core, pc, request, configured, outVars, peekVars, callVars, cdc>>

HostSends(packet) ==
  /\ Talking /\ view = "configured" /\ configured /\ ~outReceived
  /\ outBank' = packet /\ outReceived' = TRUE /\ outQueue' = outQueue \o packet
  /\ UNCHANGED <<core, pc, request, configured, inVars, peekVars, callVars, cdc>>

Packets == UNION {[1..n -> Sent] : n \in 0..CDC_TXRX_EPSIZE}

Host ==
  \/ (Plug \/ Unplug \/ Suspend \/ Resume \/ Traffic) /\ UNCHANGED <<pc, request, serial>>
  \/ BusReset /\ DataEndpoints(FALSE) /\ UNCHANGED <<pc, request, peekVars, callVars, cdc>>
  \/ \E r \in Requests : HostSetup(r) /\ UNCHANGED <<pc, request, serial>>
  \/ HostTakes \/ \E p \in Packets : HostSends(p)

\* What a host that waits for an answer does.
HostFetches == (HostData \/ HostRead \/ HostStatus) /\ UNCHANGED <<pc, request, serial>>

Interrupt == USB_GEN_vect /\ UNCHANGED <<pc, request, serial>>

\* A call in progress.
Continue ==
  \/ CDC_Device_USBTask \/ Flush_wait
  \/ (USB_DeviceTask_idle \/ USB_Device_ProcessControlRequest \/ Endpoint_ClearStatusStage
      \/ USB_Device_SetAddress) /\ UNCHANGED serial
  \/ SetLineEncoding \/ SetControlLineState \/ USB_Device_SetConfiguration
  \/ available \/ FirstPass \/ SecondPass \/ receive
  \/ write \/ write_wait \/ write_put
  \/ flush \/ flush_return \/ operator_bool

Sketch == begin \/ end \/ \E o \in Ops, c \in Written \cup {0} : Call(o, c)

Next == (Host \/ HostFetches \/ Interrupt \/ Continue \/ Sketch) /\ UNCHANGED use

Spec == Init /\ [][Next]_vars

\* Interrupts are served, a call in progress goes on, a suspended bus is
\* resumed, the host answers and fetches packets once the bus is awake often
\* enough, and loop() uses the port again and again.
Fairness ==
  /\ WF_vars(Interrupt /\ UNCHANGED use) /\ WF_vars(Continue /\ UNCHANGED use)
  /\ WF_vars(Resume /\ UNCHANGED <<use, pc, request, serial>>)
  /\ SF_vars(HostFetches /\ UNCHANGED use) /\ SF_vars(HostTakes /\ UNCHANGED use)
  /\ WF_vars((\E o \in Ops, c \in Written \cup {0} : Call(o, c)) /\ UNCHANGED use)
FairSpec == Spec /\ Fairness

-----------------------------------------------------------------------------
(***************************************************************************)
(* Properties.                                                             *)
(***************************************************************************)

\* What the host sent and the sketch has not got is exactly what lies in the
\* OUT bank, after the byte peek() keeps: read(), peek() and available() lose,
\* repeat and reorder nothing, whatever control requests their tasks serve in
\* between (USBSerialClass.cpp 67-116, CDC_Device_ReceiveByte).
OutConserved == TypeOK /\ outQueue = Peeked \o outBank

\* Every byte for which write() returned 1 lies in the IN bank or has reached
\* the host, in order, unless the endpoint itself was reset: CDC_Device_SendByte
\* never stores into a bank that is full or still with the host.
InConserved == inQueue = inBank

\* While the controller runs, exactly one of the suspend and wake-up
\* interrupts is enabled: a sleeping device can be woken and a woken one
\* notices the next suspend, whatever resets come between (USB_GEN_vect).
SuspendOrWake ==
  running => (("SUSPI" \in enabled) # ("WAKEUPI" \in enabled))

\* Every call of the sketch returns, with a host that may suspend the bus and
\* configure the device again but fetches its packets: the waits of a control
\* request and of a full bank end.
CallReturns ==
  HostEvents \subseteq {"suspend", "reconfigure", "dtr"} => ((pc \notin {"off", "idle"}) ~> (pc = "idle"))

\* Bytes written reach the host although the sketch never calls flush(), on a
\* bus that stays awake: the tasks of any later call send them.
Flushed ==
  HostEvents \subseteq {"reconfigure", "dtr"} => ((inBank # <<>>) ~> (inBank = <<>>))
=============================================================================
