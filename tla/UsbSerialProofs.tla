-------------------------- MODULE UsbSerialProofs ---------------------------
(***************************************************************************)
(* Proofs about the USB serial port, for every bank size, every set of      *)
(* bytes and every host: no byte is lost, repeated or reordered in either   *)
(* direction, and the device can always be suspended or woken.              *)
(***************************************************************************)
EXTENDS UsbSerial, SequenceTheorems, TLAPS

-----------------------------------------------------------------------------
(* The inductive invariant.                                                 *)

Size == CDC_TXRX_EPSIZE

\* The call in progress.
CallInv ==
  /\ Ops \subseteq AllOps /\ Written \cup Sent \subseteq Data
  /\ pc \in {"off", "idle", "tasks", "flush", "device", "line", "status", "address", "apply",
             "body", "receive", "send", "put", "flushed"}
  /\ BaudRateBPS \in BOOLEAN /\ m_lineState \in BOOLEAN
  /\ op \in Ops \cup {"none"} /\ result \in Result /\ arg \in Data \cup {0} /\ stage \in 0..2
  /\ op = "write" => arg \in Data
  /\ pc \in {"send", "put"} => op = "write"
  /\ pc = "receive" => op \in {"peek", "read"} /\ stage = 2

\* The IN bank.  write() goes on to store its byte only when there is room
\* for it: the host empties a bank it is given, and gets no other.
InInv ==
  /\ configured \in BOOLEAN /\ inReady \in BOOLEAN
  /\ inBank \in Seq(Data) /\ Len(inBank) <= Size
  /\ inQueue = inBank
  /\ ~configured => ~inReady
  /\ pc = "put" /\ configured => inReady /\ Len(inBank) < Size
  /\ pc = "send" /\ inReady => inBank = <<>>

\* The OUT bank and the byte kept.  Only an empty bank goes back to the host,
\* and a byte is taken from the bank only when none is kept.
OutInv ==
  /\ outReceived \in BOOLEAN /\ m_didPeek \in BOOLEAN /\ m_peek \in Data \cup {-1, 0}
  /\ outBank \in Seq(Data) /\ Len(outBank) <= Size
  /\ outQueue = Peeked \o outBank
  /\ ~outReceived => outBank = <<>>
  /\ op = "peek" \/ (op = "read" /\ stage = 2) => ~m_didPeek

IInv == CoreTypeOK /\ SuspendOrWake /\ CallInv /\ InInv /\ OutInv

-----------------------------------------------------------------------------
(* The steps, by what they leave alone.                                     *)

Port == <<configured, inBank, inReady, inQueue, outBank, outReceived, outQueue, m_didPeek, m_peek,
          op, arg, stage, result, BaudRateBPS, m_lineState>>

Quiet ==
  /\ \/ Plug \/ Unplug \/ Suspend \/ Resume \/ Traffic
     \/ (\E r \in Requests : HostSetup(r)) \/ HostData \/ HostRead \/ HostStatus
     \/ OnVBUSTI \/ OnSUSPI \/ OnWAKEUPI \/ OnEORSTI
  /\ UNCHANGED <<pc, request, Port>>

Task ==
  /\ \/ USB_DeviceTask_idle \/ USB_Device_ProcessControlRequest \/ Endpoint_ClearStatusStage
     \/ USB_Device_SetAddress
  /\ UNCHANGED Port

\* A bus reset with what it does to the data endpoints.
Reset ==
  /\ BusReset /\ DataEndpoints(FALSE)
  /\ UNCHANGED <<pc, request, m_didPeek, m_peek, op, arg, stage, result, BaudRateBPS, m_lineState>>

\* Every step, grouped by the part of the state it can change.
LEMMA Steps ==
  ASSUME [Next]_vars
  PROVE  \/ UNCHANGED <<core, use, pc, request, Port>>
         \/ UNCHANGED use /\ (Quiet \/ Task \/ Reset \/ HostTakes \/ (\E p \in Packets : HostSends(p))
              \/ CDC_Device_USBTask \/ Flush_wait
              \/ SetLineEncoding \/ SetControlLineState \/ USB_Device_SetConfiguration
              \/ available \/ FirstPass \/ SecondPass \/ receive
              \/ write \/ write_wait \/ write_put \/ flush \/ flush_return \/ operator_bool
              \/ begin \/ end \/ (\E o \in Ops, c \in Written \cup {0} : Call(o, c)))
<1>1. UNCHANGED serial => UNCHANGED Port
  BY ONLY Zenon DEF serial, Port, endpoints, inVars, outVars, peekVars, callVars, cdc
<1>2. UNCHANGED <<peekVars, callVars, cdc>> =>
        UNCHANGED <<m_didPeek, m_peek, op, arg, stage, result, BaudRateBPS, m_lineState>>
  BY ONLY Zenon DEF peekVars, callVars, cdc
<1>3. CASE UNCHANGED vars  BY ONLY <1>1, <1>3, Zenon DEF vars
<1>4. ASSUME Host, UNCHANGED use
      PROVE  UNCHANGED use /\ (Quiet \/ Reset \/ HostTakes \/ (\E p \in Packets : HostSends(p)))
  BY ONLY <1>1, <1>2, <1>4, Zenon DEF Host, Quiet, Reset
<1>5. ASSUME HostFetches \/ Interrupt, UNCHANGED use PROVE UNCHANGED use /\ Quiet
  BY ONLY <1>1, <1>5, Zenon DEF HostFetches, Interrupt, USB_GEN_vect, Quiet
<1>6. ASSUME Continue, UNCHANGED use
      PROVE  UNCHANGED use /\ (Task \/ CDC_Device_USBTask \/ Flush_wait
              \/ SetLineEncoding \/ SetControlLineState \/ USB_Device_SetConfiguration
              \/ available \/ FirstPass \/ SecondPass \/ receive
              \/ write \/ write_wait \/ write_put \/ flush \/ flush_return \/ operator_bool)
  BY ONLY <1>1, <1>6, Zenon DEF Continue, Task
<1> QED  BY ONLY <1>3, <1>4, <1>5, <1>6, [Next]_vars, Zenon DEF Next, Sketch

\* The places at which a step of USB_DeviceTask leaves the sketch.
LEMMA TaskPlace ==
  ASSUME Task PROVE pc' \in {"body", "line", "status", "address", "apply"}
<1>1. CASE USB_DeviceTask_idle  BY ONLY <1>1 DEF USB_DeviceTask_idle
<1>2. CASE USB_Device_ProcessControlRequest
  BY ONLY <1>2 DEF USB_Device_ProcessControlRequest
<1>3. CASE Endpoint_ClearStatusStage  BY ONLY <1>3 DEF Endpoint_ClearStatusStage
<1>4. CASE USB_Device_SetAddress  BY ONLY <1>4 DEF USB_Device_SetAddress
<1> QED  BY ONLY <1>1, <1>2, <1>3, <1>4, Task DEF Task

-----------------------------------------------------------------------------
(* The device core.                                                         *)

\* Only the handler and the start of the controller change which of the two
\* interrupts is enabled.
LEMMA StepSuspend ==
  ASSUME SuspendOrWake, [Next]_vars
  PROVE  SuspendOrWake'
<1> USE DEF SuspendOrWake
<1>1. ASSUME UNCHANGED <<running, enabled>> PROVE SuspendOrWake'  BY ONLY <1>1, SuspendOrWake
<1>2. UNCHANGED core => UNCHANGED <<running, enabled>>
  BY ONLY Zenon DEF core, interruptVars, stateVars
<1>3. CASE UNCHANGED core  BY ONLY <1>1, <1>2, <1>3
<1>4. CASE OnSUSPI \/ OnWAKEUPI \/ OnEORSTI
  BY ONLY <1>4, SuspendOrWake, Zenon DEF OnSUSPI, OnWAKEUPI, OnEORSTI
<1>5. CASE Plug \/ Unplug \/ Suspend \/ Resume \/ Traffic \/ HostData \/ HostRead \/ HostStatus \/ BusReset
  BY ONLY <1>1, <1>5, Zenon DEF Plug, Unplug, Suspend, Resume, Traffic, HostData, HostRead, HostStatus,
     BusReset, interruptVars, stateVars
<1>6. CASE \E r \in Requests : HostSetup(r)
  BY ONLY <1>1, <1>6 DEF HostSetup, interruptVars, stateVars
<1>7. CASE OnVBUSTI  BY ONLY <1>1, <1>7 DEF OnVBUSTI
<1>8. CASE Task
  <2>1. UNCHANGED <<running, enabled>>
    BY ONLY <1>2, <1>8 DEF Task, USB_DeviceTask_idle, USB_Device_ProcessControlRequest,
       Endpoint_ClearStatusStage, USB_Device_SetAddress, interruptVars, stateVars
  <2> QED  BY ONLY <1>1, <2>1
<1>9. CASE USB_Init \/ USB_Disable  BY ONLY <1>9 DEF USB_Init, USB_Disable
<1>10. CASE SetLineEncoding \/ USB_Device_SetConfiguration
  BY ONLY <1>1, <1>10, Zenon DEF SetLineEncoding, USB_Device_SetConfiguration, interruptVars, stateVars
<1>11. CASE HostTakes \/ (\E p \in Packets : HostSends(p)) \/ CDC_Device_USBTask \/ Flush_wait
            \/ SetControlLineState \/ available \/ FirstPass \/ SecondPass \/ receive
            \/ write \/ write_wait \/ write_put \/ flush \/ flush_return \/ operator_bool
            \/ (\E o \in Ops, c \in Written \cup {0} : Call(o, c))
  <2>1. UNCHANGED core
    BY ONLY <1>11, Zenon DEF HostTakes, HostSends, CDC_Device_USBTask, Flush_wait, SetControlLineState,
       available, FirstPass, SecondPass, receive, write, write_wait, write_put, flush, flush_return,
       operator_bool, Call
  <2> QED  BY ONLY <1>3, <2>1
<1> QED
  BY ONLY Steps, [Next]_vars, <1>3, <1>4, <1>5, <1>6, <1>7, <1>8, <1>9, <1>10, <1>11, Zenon
     DEF Quiet, Reset, begin, end

-----------------------------------------------------------------------------
(* From the sketch to the host.                                             *)

\* No step loses, repeats or reorders a byte on its way to the host.
LEMMA StepIn ==
  ASSUME CallInv, InInv, [Next]_vars
  PROVE  InInv'
<1>0. Size \in Nat \ {0} /\ Len(<<>>) = 0 /\ <<>> \in Seq(Data)
  BY SerialAssumption, EmptySeq DEF Size
<1>1. ASSUME UNCHANGED <<configured, inBank, inReady, inQueue>>, pc' = pc \/ pc' \notin {"put", "send"}
      PROVE  InInv'
  BY ONLY <1>1, InInv, Zenon DEF InInv, Size
<1>2. ASSUME NEW b \in BOOLEAN, DataEndpoints(b), b => pc' \notin {"put", "send"}
      PROVE  InInv'
  BY ONLY <1>0, <1>2 DEF DataEndpoints, InInv
<1>3. ASSUME ClearIN, UNCHANGED configured, pc' # "put"
      PROVE  InInv'
  BY ONLY <1>3, InInv, Zenon DEF InInv, ClearIN, Size
<1>4. ASSUME UNCHANGED inVars
      PROVE  UNCHANGED <<inBank, inReady, inQueue>>
  BY ONLY <1>4, Zenon DEF inVars
<1>5. CASE UNCHANGED <<pc, Port>> \/ Task
  <2>1. UNCHANGED Port /\ (pc' = pc \/ pc' \notin {"put", "send"})
    BY ONLY <1>5, TaskPlace DEF Task
  <2>2. UNCHANGED <<configured, inBank, inReady, inQueue>>  BY ONLY <2>1, Zenon DEF Port
  <2> QED  BY ONLY <1>1, <2>1, <2>2
<1>6. CASE Reset \/ begin \/ end
  <2>1. DataEndpoints(FALSE)  BY ONLY <1>6, Zenon DEF Reset, begin, end
  <2> QED  BY ONLY <1>2, <2>1, Zenon
<1>7. CASE USB_Device_SetConfiguration
  <2>1. DataEndpoints(TRUE) /\ pc' = "body"  BY ONLY <1>7, Zenon DEF USB_Device_SetConfiguration
  <2> QED  BY ONLY <1>2, <2>1, Zenon
<1>8. CASE \/ (\E p \in Packets : HostSends(p)) \/ SetLineEncoding \/ SetControlLineState
           \/ available \/ FirstPass \/ SecondPass \/ receive \/ flush_return \/ operator_bool
           \/ (\E o \in Ops, c \in Written \cup {0} : Call(o, c))
  <2>1. UNCHANGED inVars /\ UNCHANGED configured
    BY ONLY <1>8, Zenon DEF HostSends, SetLineEncoding, SetControlLineState, available, FirstPass,
       SecondPass, receive, flush_return, operator_bool, Call, Again, ReadPeeked, endpoints
  <2>2. pc' = pc \/ pc' \in {"idle", "tasks", "device", "status", "body", "receive"}
    BY ONLY <1>8 DEF HostSends, SetLineEncoding, SetControlLineState, available, FirstPass,
       SecondPass, receive, flush_return, operator_bool, Call, Again, ReadPeeked, Return
  <2>3. pc' = pc \/ pc' \notin {"put", "send"}  BY ONLY <2>2
  <2> QED  BY ONLY <1>1, <1>4, <2>1, <2>3
<1>9. CASE CDC_Device_USBTask \/ Flush_wait \/ flush
  <2>1. UNCHANGED configured  BY ONLY <1>9, Zenon DEF CDC_Device_USBTask, Flush_wait, flush
  <2>2. pc' \in {"device", "flush", "flushed"}
    BY ONLY <1>9 DEF CDC_Device_USBTask, Flush_wait, flush, CDC_Device_Flush, AfterFlush
  <2>3. pc' \notin {"put", "send"}  BY ONLY <2>2
  <2>4. ClearIN \/ UNCHANGED inVars
    BY ONLY <1>9, Zenon DEF CDC_Device_USBTask, Flush_wait, flush, CDC_Device_Flush
  <2> QED  BY ONLY <1>1, <1>3, <1>4, <2>1, <2>3, <2>4
<1>10. CASE write
  <2>1. UNCHANGED configured  BY ONLY <1>10, Zenon DEF write
  <2>2. CASE UNCHANGED inVars /\ pc' = "idle"  BY ONLY <1>1, <1>4, <2>1, <2>2
  <2>3. CASE IsReadWriteAllowed /\ pc' = "put" /\ UNCHANGED inVars
    BY ONLY <1>4, <2>1, <2>3, InInv DEF InInv, IsReadWriteAllowed, Size
  <2>4. CASE ClearIN /\ pc' = "send"  BY ONLY <1>3, <2>1, <2>4
  <2> QED  BY ONLY <1>10, <2>2, <2>3, <2>4, Zenon DEF write, Return
<1>11. CASE write_wait
  <2>1. UNCHANGED <<configured, inBank, inReady, inQueue>>
    BY ONLY <1>11, Zenon DEF write_wait, endpoints, inVars
  <2>2. CASE pc' = "idle"  BY ONLY <1>1, <2>1, <2>2
  <2>3. CASE pc = "send" /\ inReady /\ pc' = "put"
    BY ONLY <1>0, <2>1, <2>3, InInv DEF InInv
  <2> QED  BY ONLY <1>11, <2>2, <2>3, Zenon DEF write_wait, Return, Ready
<1>12. CASE write_put
  <2>1. /\ pc = "put" /\ pc' = "idle" /\ UNCHANGED <<configured, inReady>>
        /\ inBank' = IF IsReadWriteAllowed THEN Append(inBank, arg) ELSE inBank
        /\ inQueue' = IF configured THEN Append(inQueue, arg) ELSE inQueue
    BY ONLY <1>12, Zenon DEF write_put, Return
  <2>2. arg \in Data  BY ONLY <2>1, CallInv DEF CallInv
  <2>3. IsReadWriteAllowed <=> configured
    BY ONLY <2>1, InInv, Zenon DEF InInv, IsReadWriteAllowed, Size
  <2>4. CASE configured
    <3>1. inBank' = Append(inBank, arg) /\ inQueue' = inBank'
      BY ONLY <2>1, <2>3, <2>4, InInv, Zenon DEF InInv
    <3>2. inBank \in Seq(Data) /\ Len(inBank) < Size
      BY ONLY <2>1, <2>4, InInv, Zenon DEF InInv
    <3>3. Append(inBank, arg) \in Seq(Data) /\ Len(Append(inBank, arg)) = Len(inBank) + 1
          /\ Len(inBank) \in Nat
      BY ONLY <2>2, <3>2, AppendProperties, LenProperties
    <3>4. inBank' \in Seq(Data) /\ Len(inBank') <= Size  BY ONLY <1>0, <3>1, <3>2, <3>3
    <3> QED  BY ONLY <2>1, <3>1, <3>4, InInv DEF InInv
  <2>5. CASE ~configured
    <3>1. UNCHANGED <<inBank, inQueue>>  BY ONLY <2>1, <2>3, <2>5, Zenon
    <3> QED  BY ONLY <1>1, <2>1, <3>1
  <2> QED  BY ONLY <2>4, <2>5
<1>13. CASE HostTakes
  <2>1. /\ configured /\ ~inReady /\ inBank' = <<>> /\ inReady' = TRUE
        /\ inQueue' = SubSeq(inQueue, Len(inBank) + 1, Len(inQueue))
        /\ UNCHANGED <<pc, configured>>
    BY ONLY <1>13, Zenon DEF HostTakes
  <2>2. inQueue = inBank /\ Len(inBank) \in Nat  BY ONLY InInv, LenProperties DEF InInv
  <2>3. inQueue' = <<>>
    <3>1. Len(inBank) \in Int /\ Len(inBank) + 1 \in Int /\ Len(inBank) < Len(inBank) + 1
      BY ONLY <2>2
    <3>2. SubSeq(inBank, Len(inBank) + 1, Len(inBank)) = <<>>  BY ONLY <3>1, SubSeqEmpty
    <3> QED  BY ONLY <2>1, <2>2, <3>2
  <2>4. pc # "put"  BY ONLY <2>1, InInv DEF InInv
  <2> QED  BY ONLY <1>0, <2>1, <2>3, <2>4 DEF InInv
<1>14. UNCHANGED <<core, use, pc, request, Port>> \/ Quiet => UNCHANGED <<pc, Port>>
  BY ONLY Zenon DEF Quiet
<1> QED
  BY ONLY Steps, [Next]_vars, <1>5, <1>6, <1>7, <1>8, <1>9, <1>10, <1>11, <1>12, <1>13, <1>14, Zenon

-----------------------------------------------------------------------------
(* From the host to the sketch.                                             *)

\* A byte taken from the front.
LEMMA TakeFirst ==
  ASSUME NEW s \in Seq(Data), s # <<>>
  PROVE  /\ Head(s) \in Data /\ Tail(s) \in Seq(Data) /\ Len(Tail(s)) < Len(s)
         /\ <<Head(s)>> \o Tail(s) = s
<1>1. /\ Head(s) \in Data /\ Tail(s) \in Seq(Data) /\ Len(Tail(s)) = Len(s) - 1
      /\ \A i \in 1..Len(Tail(s)) : Tail(s)[i] = s[i + 1]
  BY HeadTailProperties
<1>2. Len(s) \in Nat /\ Head(s) = s[1]  BY LenProperties
<1> DEFINE h == <<Head(s)>>
           t == Tail(s)
<1>3. h \in Seq(Data) /\ Len(h) = 1 /\ h[1] = s[1]  BY <1>1, <1>2
<1>4. t \in Seq(Data) /\ Len(t) = Len(s) - 1 /\ \A i \in 1..Len(t) : t[i] = s[i + 1]  BY <1>1
<1> HIDE DEF h, t
<1>5. /\ h \o t \in Seq(Data) /\ Len(h \o t) = Len(h) + Len(t)
      /\ \A i \in 1..(Len(h) + Len(t)) : (h \o t)[i] = IF i <= Len(h) THEN h[i] ELSE t[i - Len(h)]
  <2>1. \A q \in Seq(Data) : /\ h \o q \in Seq(Data) /\ Len(h \o q) = Len(h) + Len(q)
                              /\ \A i \in 1..(Len(h) + Len(q)) :
                                   (h \o q)[i] = IF i <= Len(h) THEN h[i] ELSE q[i - Len(h)]
    BY ONLY <1>3, ConcatProperties, Zenon
  <2> QED  BY ONLY <1>4, <2>1, Zenon
<1>6. ASSUME NEW i \in 1..Len(s) PROVE (h \o t)[i] = s[i]
  BY ONLY <1>2, <1>3, <1>4, <1>5, <1>6
<1>7. h \o t = s  BY ONLY <1>2, <1>3, <1>4, <1>5, <1>6, SeqEqual, s \in Seq(Data)
<1> QED  BY <1>1, <1>2, <1>7 DEF h, t

\* The byte put in front comes off again.
LEMMA PutFirst ==
  ASSUME NEW s \in Seq(Data), NEW e \in Data
  PROVE  Tail(<<e>> \o s) = s
  OBVIOUS

\* The byte kept goes first.
LEMMA PeekedIs ==
  ASSUME OutInv
  PROVE  /\ Peeked \in Seq(Data)
         /\ ~m_didPeek => Peeked = <<>> /\ outQueue = outBank
         /\ m_didPeek => Peeked = IF m_peek \in Data THEN <<m_peek>> ELSE <<>>
<1>1. outBank \in Seq(Data) /\ outQueue = Peeked \o outBank /\ m_didPeek \in BOOLEAN  BY DEF OutInv
<1>2. Peeked = IF m_didPeek /\ m_peek \in Data THEN <<m_peek>> ELSE <<>>  BY DEF Peeked
<1>3. Peeked \in Seq(Data)
  <2>1. CASE m_didPeek /\ m_peek \in Data  BY ONLY <1>2, <2>1
  <2>2. CASE ~(m_didPeek /\ m_peek \in Data)  BY ONLY <1>2, <2>2, EmptySeq
  <2> QED  BY ONLY <2>1, <2>2
<1>4. ~m_didPeek => Peeked = <<>>  BY ONLY <1>2
<1>5. <<>> \o outBank = outBank  BY ONLY <1>1, ConcatEmptySeq
<1> QED  BY ONLY <1>1, <1>2, <1>3, <1>4, <1>5

\* No step loses, repeats or reorders a byte on its way to the sketch.
LEMMA StepOut ==
  ASSUME CallInv, OutInv, [Next]_vars
  PROVE  OutInv'
<1>0. /\ outReceived \in BOOLEAN /\ m_didPeek \in BOOLEAN /\ m_peek \in Data \cup {-1, 0}
      /\ outBank \in Seq(Data) /\ Len(outBank) <= Size /\ Len(outBank) \in Nat /\ Size \in Nat
      /\ outQueue = Peeked \o outBank /\ Peeked \in Seq(Data) /\ (~outReceived => outBank = <<>>)
  BY PeekedIs, LenProperties, SerialAssumption DEF OutInv, Size
<1>1. ASSUME UNCHANGED <<outBank, outReceived, outQueue, m_didPeek, m_peek>>,
             \/ op' = op /\ stage' = stage
             \/ op' \notin {"peek", "read"}
             \/ ~m_didPeek
             \/ op' = "read" /\ stage' # 2
      PROVE  OutInv'
  <2>1. Peeked' = Peeked  BY ONLY <1>1, Zenon DEF Peeked
  <2>2. op' = "peek" \/ (op' = "read" /\ stage' = 2) => ~m_didPeek'
    BY ONLY <1>1, OutInv DEF OutInv
  <2> QED  BY ONLY <1>1, <2>1, <2>2, OutInv, Zenon DEF OutInv, Size
<1>2. ASSUME NEW b, DataEndpoints(b), UNCHANGED <<m_didPeek, m_peek, op, stage>>
      PROVE  OutInv'
  <2>1. outBank' = <<>> /\ outReceived' = FALSE /\ outQueue' = Peeked
    BY ONLY <1>2 DEF DataEndpoints
  <2>2. Peeked' = Peeked  BY ONLY <1>2, Zenon DEF Peeked
  <2>3. Peeked \o <<>> = Peeked /\ <<>> \in Seq(Data) /\ Len(<<>>) = 0
    BY ONLY <1>0, ConcatEmptySeq, EmptySeq
  <2>4. outQueue' = Peeked' \o outBank'  BY ONLY <2>1, <2>2, <2>3, Zenon
  <2>5. outBank' \in Seq(Data) /\ Len(outBank') <= Size  BY ONLY <1>0, <2>1, <2>3
  <2> QED  BY ONLY <1>2, <2>1, <2>4, <2>5, OutInv, Zenon DEF OutInv, Size
<1>3. ASSUME DropEmptyPacket, UNCHANGED <<m_didPeek, m_peek>>,
             (op' = op /\ stage' = stage) \/ op' = "none"
      PROVE  OutInv'
  <2>1. /\ outReceived' = (outReceived /\ ~(Usable /\ outBank = <<>>))
        /\ UNCHANGED <<outBank, outQueue>>
    BY ONLY <1>3 DEF DropEmptyPacket
  <2>2. Peeked' = Peeked  BY ONLY <1>3, Zenon DEF Peeked
  <2>3. outReceived' \in BOOLEAN /\ (~outReceived' => outBank' = <<>>)
    BY ONLY <1>0, <2>1, Zenon
  <2>4. op' = "peek" \/ (op' = "read" /\ stage' = 2) => ~m_didPeek'
    BY ONLY <1>3, OutInv DEF OutInv
  <2> QED  BY ONLY <1>0, <1>3, <2>1, <2>2, <2>3, <2>4, Zenon DEF OutInv, Size
<1>4. CASE UNCHANGED <<pc, Port>> \/ Task
  <2>1. UNCHANGED Port  BY ONLY <1>4, Zenon DEF Task
  <2> QED  BY ONLY <1>1, <2>1 DEF Port
<1>5. CASE Reset \/ begin \/ end \/ USB_Device_SetConfiguration
  <2>1. DataEndpoints(FALSE) \/ DataEndpoints(TRUE)
    BY ONLY <1>5, Zenon DEF Reset, begin, end, USB_Device_SetConfiguration
  <2>2. UNCHANGED <<m_didPeek, m_peek, op, stage>>
    BY ONLY <1>5, Zenon DEF Reset, begin, end, USB_Device_SetConfiguration, peekVars, callVars
  <2> QED  BY ONLY <1>2, <2>1, <2>2, Zenon
<1>6. CASE HostTakes \/ CDC_Device_USBTask \/ Flush_wait \/ SetLineEncoding \/ SetControlLineState
           \/ write \/ write_wait \/ write_put \/ flush \/ flush_return \/ operator_bool
  <2>1. UNCHANGED <<outBank, outReceived, outQueue, m_didPeek, m_peek>>
    BY ONLY <1>6, Zenon DEF HostTakes, CDC_Device_USBTask, Flush_wait, SetLineEncoding,
       SetControlLineState, write, write_wait, write_put, flush, flush_return, operator_bool,
       endpoints, outVars, peekVars
  <2>2. \/ UNCHANGED callVars \/ op' = "none" \/ (op = "flush" /\ op' = op)
    BY ONLY <1>6, Zenon DEF HostTakes, CDC_Device_USBTask, Flush_wait, SetLineEncoding,
       SetControlLineState, write, write_wait, write_put, flush, flush_return, operator_bool,
       Return
  <2>3. (op' = op /\ stage' = stage) \/ op' \notin {"peek", "read"}
    BY ONLY <2>2 DEF callVars
  <2> QED  BY ONLY <1>1, <2>1, <2>3, Zenon
<1>7. CASE \E o \in Ops, c \in Written \cup {0} : Call(o, c)
  <2>1. PICK o \in Ops, c \in Written \cup {0} : Call(o, c)  BY ONLY <1>7
  <2>2. UNCHANGED <<outBank, outReceived, outQueue, m_didPeek, m_peek>>
    BY ONLY <2>1, Zenon DEF Call, endpoints, outVars, peekVars
  <2>3. op' = o /\ stage' = 1 /\ (o = "peek" => ~m_didPeek)  BY ONLY <2>1, Zenon DEF Call
  <2> QED  BY ONLY <1>1, <2>2, <2>3
<1>8. CASE available \/ SecondPass
  <2>1. DropEmptyPacket /\ UNCHANGED <<m_didPeek, m_peek>>
    BY ONLY <1>8, Zenon DEF available, SecondPass, peekVars
  <2>2. (op' = op /\ stage' = stage) \/ op' = "none"
    BY ONLY <1>8, Zenon DEF available, SecondPass, Return, callVars
  <2> QED  BY ONLY <1>3, <2>1, <2>2, Zenon
<1>9. CASE FirstPass
  <2>1. op \in {"peek", "read"}  BY ONLY <1>9 DEF FirstPass
  <2>2. ASSUME UNCHANGED <<endpoints, peekVars>>
        PROVE  UNCHANGED <<outBank, outReceived, outQueue, m_didPeek, m_peek>>
    BY ONLY <2>2, Zenon DEF endpoints, outVars, peekVars
  <2>3. CASE (op # "read" \/ ~m_didPeek) /\ Again
    <3>1. ~m_didPeek  BY ONLY <2>1, <2>3, OutInv DEF OutInv
    <3>2. UNCHANGED <<endpoints, peekVars>>  BY ONLY <2>3, Zenon DEF Again
    <3> QED  BY ONLY <1>1, <2>2, <3>1, <3>2
  <2>4. CASE Return(-1) /\ UNCHANGED <<endpoints, peekVars>>
    <3>1. op' = "none"  BY ONLY <2>4 DEF Return
    <3>2. op' \notin {"peek", "read"}  BY ONLY <3>1
    <3> QED  BY ONLY <1>1, <2>2, <2>4, <3>2
  <2>5. CASE m_didPeek /\ ReadPeeked
    <3>1. /\ m_didPeek' = FALSE /\ op' = "none" /\ UNCHANGED <<outBank, outReceived, m_peek>>
          /\ outQueue' = IF m_peek \in Data THEN Tail(outQueue) ELSE outQueue
      BY ONLY <2>5, Zenon DEF ReadPeeked, Return
    <3>2. Peeked' = <<>>  BY ONLY <3>1 DEF Peeked
    <3>3. outQueue' = outBank
      <4>1. CASE m_peek \in Data
        <5>1. outQueue = <<m_peek>> \o outBank
          BY ONLY <1>0, <2>5, <4>1, PeekedIs, OutInv, Zenon
        <5>2. Tail(<<m_peek>> \o outBank) = outBank  BY ONLY <1>0, <4>1, PutFirst
        <5> QED  BY ONLY <3>1, <4>1, <5>1, <5>2, Zenon
      <4>2. CASE m_peek \notin Data
        <5>1. Peeked = <<>>  BY ONLY <2>5, <4>2, PeekedIs, OutInv
        <5>2. <<>> \o outBank = outBank  BY ONLY <1>0, ConcatEmptySeq
        <5> QED  BY ONLY <1>0, <3>1, <4>2, <5>1, <5>2, Zenon
      <4> QED  BY ONLY <4>1, <4>2
    <3>4. <<>> \o outBank = outBank  BY ONLY <1>0, ConcatEmptySeq
    <3>5. outQueue' = Peeked' \o outBank'  BY ONLY <3>1, <3>2, <3>3, <3>4, Zenon
    <3>6. m_didPeek' \in BOOLEAN /\ ~m_didPeek'  BY ONLY <3>1, Zenon
    <3> QED  BY ONLY <1>0, <3>1, <3>5, <3>6, Zenon DEF OutInv, Size
  <2> QED  BY ONLY <1>9, <2>3, <2>4, <2>5, Zenon DEF FirstPass
<1>10. CASE receive
  <2>1. pc = "receive" /\ op \in {"peek", "read"} /\ stage = 2 /\ op' = "none"
    BY ONLY <1>10, CallInv DEF receive, CallInv, Return
  <2>2. ~m_didPeek /\ outQueue = outBank  BY ONLY <2>1, OutInv, PeekedIs DEF OutInv
  <2>3. CDC_Device_ReceiveByte
        /\ IF op = "read"
           THEN outQueue' = (IF ReceivedByte = -1 THEN outQueue ELSE Tail(outQueue))
                /\ UNCHANGED peekVars
           ELSE m_didPeek' = TRUE /\ m_peek' = ReceivedByte /\ UNCHANGED outQueue
    BY ONLY <1>10, Zenon DEF receive
  <2>4. -1 \notin Data  BY SerialAssumption
  <2>5. op' # "peek" /\ op' # "read"  BY ONLY <2>1
  <2>6. CASE Usable /\ outReceived /\ outBank # <<>>
    <3>1. /\ outBank' = Tail(outBank) /\ outReceived' = (Tail(outBank) # <<>>)
          /\ ReceivedByte = Head(outBank)
      BY ONLY <2>3, <2>6, Zenon DEF CDC_Device_ReceiveByte, ReceivedByte
    <3>2. /\ Head(outBank) \in Data /\ Tail(outBank) \in Seq(Data) /\ Len(Tail(outBank)) < Len(outBank)
          /\ <<Head(outBank)>> \o Tail(outBank) = outBank
      BY ONLY <1>0, <2>6, TakeFirst
    <3>3. outBank' \in Seq(Data) /\ Len(outBank') <= Size
      <4>1. Len(Tail(outBank)) \in Nat  BY ONLY <3>2, LenProperties
      <4> QED  BY ONLY <1>0, <3>1, <3>2, <4>1
    <3>4. outReceived' \in BOOLEAN /\ (~outReceived' => outBank' = <<>>)  BY ONLY <3>1, Zenon
    <3>5. CASE op = "read"
      <4>1. outQueue' = Tail(outBank) /\ UNCHANGED <<m_didPeek, m_peek>>
        BY ONLY <2>2, <2>3, <2>4, <3>1, <3>2, <3>5, Zenon DEF peekVars
      <4>2. Peeked' = <<>>  BY ONLY <2>2, <4>1 DEF Peeked
      <4>3. <<>> \o Tail(outBank) = Tail(outBank)  BY ONLY <3>2, ConcatEmptySeq
      <4>4. outQueue' = Peeked' \o outBank'  BY ONLY <3>1, <4>1, <4>2, <4>3, Zenon
      <4> QED  BY ONLY <1>0, <2>5, <3>3, <3>4, <4>1, <4>4, Zenon DEF OutInv, Size
    <3>6. CASE op # "read"
      <4>1. m_didPeek' = TRUE /\ m_peek' = Head(outBank) /\ outQueue' = outBank
        BY ONLY <2>2, <2>3, <3>1, <3>6, Zenon
      <4>2. Peeked' = <<Head(outBank)>>  BY ONLY <3>2, <4>1 DEF Peeked
      <4>3. outQueue' = Peeked' \o outBank'  BY ONLY <3>1, <3>2, <4>1, <4>2, Zenon
      <4>4. m_didPeek' \in BOOLEAN /\ m_peek' \in Data \cup {-1, 0}  BY ONLY <3>2, <4>1
      <4> QED  BY ONLY <2>5, <3>3, <3>4, <4>3, <4>4, Zenon DEF OutInv, Size
    <3> QED  BY ONLY <3>5, <3>6
  <2>7. CASE ~(Usable /\ outReceived /\ outBank # <<>>)
    <3>1. UNCHANGED <<outBank, outReceived>> /\ ReceivedByte = -1
      BY ONLY <2>3, <2>7, Zenon DEF CDC_Device_ReceiveByte, ReceivedByte
    <3>2. UNCHANGED outQueue  BY ONLY <2>3, <3>1, Zenon
    <3>3. \/ UNCHANGED <<m_didPeek, m_peek>>
          \/ m_didPeek' = TRUE /\ m_peek' = -1
      BY ONLY <2>3, <3>1, Zenon DEF peekVars
    <3>4. Peeked' = <<>>  BY ONLY <2>2, <2>4, <3>3 DEF Peeked
    <3>5. <<>> \o outBank = outBank  BY ONLY <1>0, ConcatEmptySeq
    <3>6. outQueue' = Peeked' \o outBank'  BY ONLY <2>2, <3>1, <3>2, <3>4, <3>5, Zenon
    <3>7. m_didPeek' \in BOOLEAN /\ m_peek' \in Data \cup {-1, 0}  BY ONLY <1>0, <3>3, Zenon
    <3> QED  BY ONLY <1>0, <2>5, <3>1, <3>6, <3>7, Zenon DEF OutInv, Size
  <2> QED  BY ONLY <2>6, <2>7
<1>11. CASE \E p \in Packets : HostSends(p)
  <2>1. PICK p \in Packets : HostSends(p)  BY ONLY <1>11
  <2>2. /\ ~outReceived /\ outBank' = p /\ outReceived' = TRUE /\ outQueue' = outQueue \o p
        /\ UNCHANGED <<m_didPeek, m_peek, op, stage>>
    BY ONLY <2>1, Zenon DEF HostSends, peekVars, callVars
  <2>3. p \in Seq(Data) /\ Len(p) <= Size
    <3>1. PICK n \in 0..Size : p \in [1..n -> Sent]
      BY ONLY p \in Packets, Zenon DEF Packets, Size
    <3>2. Sent \subseteq Data  BY ONLY CallInv, Zenon DEF CallInv
    <3>3. n \in Nat /\ n <= Size  BY ONLY <1>0, <3>1
    <3>4. p \in [1..n -> Data]  BY ONLY <3>1, <3>2
    <3> QED  BY ONLY <3>3, <3>4
  <2>4. outQueue = Peeked
    <3>1. outBank = <<>>  BY ONLY <1>0, <2>2
    <3>2. Peeked \o <<>> = Peeked  BY ONLY <1>0, ConcatEmptySeq
    <3> QED  BY ONLY <1>0, <3>1, <3>2, Zenon
  <2>5. Peeked' = Peeked  BY ONLY <2>2, Zenon DEF Peeked
  <2>6. outQueue' = Peeked' \o outBank'  BY ONLY <2>2, <2>4, <2>5, Zenon
  <2>7. outReceived' \in BOOLEAN /\ outReceived'  BY ONLY <2>2
  <2> QED  BY ONLY <2>2, <2>3, <2>6, <2>7, OutInv, Zenon DEF OutInv, Size
<1>12. UNCHANGED <<core, use, pc, request, Port>> \/ Quiet => UNCHANGED <<pc, Port>>
  BY ONLY Zenon DEF Quiet
<1> QED
  BY ONLY Steps, [Next]_vars, <1>4, <1>5, <1>6, <1>7, <1>8, <1>9, <1>10, <1>11, <1>12, Zenon

-----------------------------------------------------------------------------
(* The call in progress.                                                    *)

Places == {"off", "idle", "tasks", "flush", "device", "line", "status", "address", "apply",
           "body", "receive", "send", "put", "flushed"}

\* Every step keeps the place in a call together with its operation and argument.
LEMMA StepCall ==
  ASSUME CallInv, InInv, OutInv, [Next]_vars
  PROVE  CallInv'
<1> USE DEF Places
<1>0. /\ Ops \subseteq AllOps /\ Written \cup Sent \subseteq Data
      /\ pc \in Places /\ BaudRateBPS \in BOOLEAN /\ m_lineState \in BOOLEAN
      /\ op \in Ops \cup {"none"} /\ result \in Result /\ arg \in Data \cup {0} /\ stage \in 0..2
      /\ (op = "write" => arg \in Data) /\ (pc \in {"send", "put"} => op = "write")
      /\ (pc = "receive" => op \in {"peek", "read"} /\ stage = 2)
  BY ONLY CallInv, Zenon DEF CallInv, Places
<1>1. UNCHANGED use
  BY ONLY Steps, [Next]_vars, Zenon
<1>2. Ops' = Ops /\ Written' = Written /\ Sent' = Sent  BY ONLY <1>1, Zenon DEF use
<1>3. ASSUME UNCHANGED callVars, BaudRateBPS' \in BOOLEAN, m_lineState' \in BOOLEAN, pc' \in Places,
             pc' \in {"send", "put"} => op = "write",
             pc' = "receive" => op \in {"peek", "read"} /\ stage = 2
      PROVE  CallInv'
  <2>1. op' = op /\ arg' = arg /\ stage' = stage /\ result' = result
    BY ONLY <1>3, Zenon DEF callVars
  <2>2. Result' = Result  BY ONLY Zenon DEF Result
  <2> QED  BY ONLY <1>0, <1>2, <1>3, <2>1, <2>2, Zenon DEF CallInv, Places
<1>4. ASSUME NEW r \in Result, Return(r), UNCHANGED cdc PROVE CallInv'
  <2>1. /\ pc' = "idle" /\ result' = r /\ op' = "none" /\ arg' = 0 /\ stage' = 0
        /\ BaudRateBPS' = BaudRateBPS /\ m_lineState' = m_lineState
    BY ONLY <1>4, Zenon DEF Return, cdc
  <2>2. /\ pc' \in Places /\ op' \in Ops \cup {"none"} /\ arg' \in Data \cup {0} /\ stage' \in 0..2
        /\ op' # "write" /\ pc' \notin {"send", "put"} /\ pc' # "receive"
    BY ONLY <2>1
  <2>3. Result' = Result  BY ONLY Zenon DEF Result
  <2> QED  BY ONLY <1>0, <1>2, <1>4, <2>1, <2>2, <2>3, Zenon DEF CallInv, Places
<1>5. -1 \in Result /\ 0 \in Result /\ 1 \in Result /\ Data \subseteq Result
  BY ONLY SerialAssumption DEF Result
<1>6. UNCHANGED cdc => BaudRateBPS' \in BOOLEAN /\ m_lineState' \in BOOLEAN
  BY ONLY <1>0, Zenon DEF cdc
<1>7. CASE UNCHANGED <<pc, Port>> \/ Task
  <2>1. UNCHANGED Port  BY ONLY <1>7, Zenon DEF Task
  <2>2. UNCHANGED <<callVars, cdc>>  BY ONLY <2>1, Zenon DEF Port, callVars, cdc
  <2>3. /\ pc' \in Places
        /\ pc' \in {"send", "put"} => op = "write"
        /\ pc' = "receive" => op \in {"peek", "read"} /\ stage = 2
    <3>1. CASE Task  BY ONLY <3>1, TaskPlace
    <3>2. CASE pc' = pc  BY ONLY <1>0, <3>2
    <3> QED  BY ONLY <1>7, <3>1, <3>2
  <2> QED  BY ONLY <1>3, <1>6, <2>2, <2>3
<1>8. CASE Reset \/ end \/ HostTakes \/ (\E p \in Packets : HostSends(p))
  <2>1. UNCHANGED callVars /\ UNCHANGED cdc /\ UNCHANGED pc
    BY ONLY <1>8, Zenon DEF Reset, end, HostTakes, HostSends, callVars, cdc
  <2> QED  BY ONLY <1>0, <1>3, <1>6, <2>1, Zenon
<1>9. CASE begin \/ CDC_Device_USBTask \/ Flush_wait
  <2>1. UNCHANGED callVars /\ UNCHANGED cdc
    BY ONLY <1>9, Zenon DEF begin, CDC_Device_USBTask, Flush_wait
  <2>2. pc' \in {"idle", "device", "flush", "flushed"}
    BY ONLY <1>9, Zenon DEF begin, CDC_Device_USBTask, Flush_wait, CDC_Device_Flush, AfterFlush
  <2>3. pc' \in Places /\ pc' \notin {"send", "put"} /\ pc' # "receive"  BY ONLY <2>2
  <2> QED  BY ONLY <1>3, <1>6, <2>1, <2>3, Zenon
<1>10. CASE SetLineEncoding \/ SetControlLineState \/ USB_Device_SetConfiguration
  <2>1. UNCHANGED callVars
    BY ONLY <1>10, Zenon DEF SetLineEncoding, SetControlLineState, USB_Device_SetConfiguration
  <2>2. pc' \in {"status", "body"}
    BY ONLY <1>10, Zenon DEF SetLineEncoding, SetControlLineState, USB_Device_SetConfiguration
  <2>3. pc' \in Places /\ pc' \notin {"send", "put"} /\ pc' # "receive"  BY ONLY <2>2
  <2>4. BaudRateBPS' \in BOOLEAN /\ m_lineState' \in BOOLEAN
    BY ONLY <1>0, <1>10, Zenon DEF SetLineEncoding, SetControlLineState, USB_Device_SetConfiguration
  <2> QED  BY ONLY <1>3, <2>1, <2>3, <2>4, Zenon
<1>11. BytesReceived \in Result
  <2>1. Len(outBank) \in Nat /\ Len(outBank) <= Size /\ Size \in Nat
    BY ONLY OutInv, SerialAssumption, LenProperties DEF OutInv, Size
  <2>2. Len(outBank) \in Result  BY ONLY <2>1 DEF Result, Size
  <2> QED  BY ONLY <1>5, <2>2, Zenon DEF BytesReceived
<1>12. CASE available \/ write_put \/ flush_return \/ operator_bool
  <2>1. UNCHANGED cdc
    BY ONLY <1>12, Zenon DEF available, write_put, flush_return, operator_bool
  <2>2. \/ Return(BytesReceived) \/ Return(1) \/ Return(0)
        \/ Return(IF m_lineState THEN 1 ELSE 0)
    BY ONLY <1>12, Zenon DEF available, write_put, flush_return, operator_bool
  <2>3. (IF m_lineState THEN 1 ELSE 0) \in Result  BY ONLY <1>5, Zenon
  <2> QED  BY ONLY <1>4, <1>5, <1>11, <2>1, <2>2, <2>3
<1>13. CASE FirstPass
  <2>1. UNCHANGED cdc /\ op \in {"peek", "read"} /\ op # "write"
    BY ONLY <1>13 DEF FirstPass
  <2>2. CASE Again
    <3>1. pc' = "tasks" /\ stage' = 2 /\ op' = op /\ arg' = arg /\ result' = result
      BY ONLY <2>2, Zenon DEF Again
    <3>2. pc' \in Places /\ stage' \in 0..2 /\ pc' \notin {"send", "put"} /\ pc' # "receive"
      BY ONLY <3>1
    <3>3. Result' = Result  BY ONLY Zenon DEF Result
    <3> QED  BY ONLY <1>0, <1>2, <1>6, <2>1, <3>1, <3>2, <3>3, Zenon DEF CallInv, Places
  <2>3. CASE ReadPeeked
    <3>1. m_peek \in Result  BY ONLY <1>5, OutInv DEF OutInv
    <3> QED  BY ONLY <1>4, <2>1, <2>3, <3>1 DEF ReadPeeked
  <2>4. CASE Return(-1)  BY ONLY <1>4, <1>5, <2>1, <2>4
  <2> QED  BY ONLY <1>13, <2>2, <2>3, <2>4, Zenon DEF FirstPass
<1>14. CASE SecondPass
  <2>1. UNCHANGED cdc /\ op \in {"peek", "read"} /\ stage = 2  BY ONLY <1>14, Zenon DEF SecondPass
  <2>2. CASE pc' = "receive" /\ UNCHANGED callVars
    <3>1. pc' \in Places /\ pc' \notin {"send", "put"}  BY ONLY <2>2
    <3> QED  BY ONLY <1>3, <1>6, <2>1, <2>2, <3>1, Zenon
  <2>3. CASE Return(0)  BY ONLY <1>4, <1>5, <2>1, <2>3
  <2>4. CASE \E r \in Data \cup {-1} : Return(r)  BY ONLY <1>4, <1>5, <2>1, <2>4
  <2> QED  BY ONLY <1>14, <2>2, <2>3, <2>4, Zenon DEF SecondPass
<1>15. CASE receive
  <2>1. UNCHANGED cdc /\ Return(ReceivedByte)  BY ONLY <1>15, Zenon DEF receive
  <2>2. ReceivedByte \in Result
    <3>1. outBank \in Seq(Data)  BY ONLY OutInv, Zenon DEF OutInv
    <3>2. outBank # <<>> => Head(outBank) \in Data  BY ONLY <3>1, TakeFirst
    <3> QED  BY ONLY <1>5, <3>2 DEF ReceivedByte
  <2> QED  BY ONLY <1>4, <2>1, <2>2
<1>16. CASE write \/ write_wait
  <2>1. UNCHANGED cdc /\ op = "write"
    BY ONLY <1>0, <1>16 DEF write, write_wait
  <2>2. CASE Return(0)  BY ONLY <1>4, <1>5, <2>1, <2>2
  <2>3. CASE pc' \in {"put", "send"} /\ UNCHANGED callVars
    <3>1. pc' \in Places /\ pc' # "receive"  BY ONLY <2>3
    <3> QED  BY ONLY <1>3, <1>6, <2>1, <2>3, <3>1, Zenon
  <2>4. Return(0) \/ (pc' \in {"put", "send"} /\ UNCHANGED callVars)
    BY ONLY <1>16 DEF write, write_wait
  <2> QED  BY ONLY <2>2, <2>3, <2>4
<1>17. CASE flush
  <2>1. UNCHANGED cdc /\ op = "flush" /\ stage' = 2 /\ op' = op /\ arg' = arg /\ result' = result
    BY ONLY <1>17, Zenon DEF flush
  <2>2. pc' \in {"flush", "flushed"}  BY ONLY <1>17 DEF flush, CDC_Device_Flush
  <2>3. /\ pc' \in Places /\ stage' \in 0..2 /\ pc' \notin {"send", "put"} /\ pc' # "receive"
        /\ op # "write"
    BY ONLY <2>1, <2>2
  <2>4. Result' = Result  BY ONLY Zenon DEF Result
  <2> QED  BY ONLY <1>0, <1>2, <1>6, <2>1, <2>3, <2>4, Zenon DEF CallInv, Places
<1>18. CASE \E o \in Ops, c \in Written \cup {0} : Call(o, c)
  <2>1. PICK o \in Ops, c \in Written \cup {0} : Call(o, c)  BY ONLY <1>18
  <2>2. /\ op' = o /\ arg' = c /\ stage' = 1 /\ result' = 0 /\ UNCHANGED cdc
        /\ pc' = (IF o = "bool" THEN "device" ELSE "tasks") /\ (c = 0) = (o # "write")
    BY ONLY <2>1 DEF Call
  <2>3. c \in Data \cup {0} /\ (o = "write" => c \in Data)  BY ONLY <1>0, <2>1, <2>2
  <2>4. /\ pc' \in Places /\ stage' \in 0..2 /\ pc' \notin {"send", "put"} /\ pc' # "receive"
        /\ op' \in Ops \cup {"none"}
    BY ONLY <2>1, <2>2
  <2>5. Result' = Result  BY ONLY Zenon DEF Result
  <2> QED  BY ONLY <1>0, <1>2, <1>5, <1>6, <2>2, <2>3, <2>4, <2>5, Zenon DEF CallInv, Places
<1>19. UNCHANGED <<core, use, pc, request, Port>> \/ Quiet => UNCHANGED <<pc, Port>>
  BY ONLY Zenon DEF Quiet
<1> QED
  BY ONLY Steps, [Next]_vars, <1>7, <1>8, <1>9, <1>10, <1>12, <1>13, <1>14, <1>15, <1>16, <1>17,
     <1>18, <1>19, Zenon

-----------------------------------------------------------------------------
(* The types of the device core, its host's part and the program's part.    *)

HostType ==
  /\ HostEvents \subseteq HostChoices
  /\ bus \in {"off", "live", "suspended"}
  /\ view \in {"none", "default", "addressed", "configured"}
  /\ transfer \in {"none", "data", "read", "status", "SetAddress"} \cup Configures
DeviceType ==
  /\ flags \subseteq Interrupts /\ enabled \subseteq Interrupts
  /\ running \in BOOLEAN
  /\ USB_DeviceState \in DeviceStates /\ USB_Device_ConfigurationNumber \in 0..1
  /\ address \in BOOLEAN
ControlType ==
  /\ RXSTPI \in Requests \cup {"none"} /\ TXINI \in BOOLEAN /\ RXOUTI \in BOOLEAN
  /\ request \in Requests \cup {"none"}

\* The types of the device core in three parts.
LEMMA CoreParts == CoreTypeOK <=> HostType /\ DeviceType /\ ControlType
  BY ONLY Zenon DEF CoreTypeOK, HostType, DeviceType, ControlType

\* The steps that change the device core.
LEMMA CoreSteps ==
  ASSUME [Next]_vars
  PROVE  /\ UNCHANGED use
         /\ \/ UNCHANGED <<core, request>>
            \/ UNCHANGED core /\ request' = "none"
            \/ UNCHANGED request
                 /\ (Plug \/ Unplug \/ Suspend \/ Resume \/ Traffic \/ BusReset
                     \/ (\E r \in Requests : HostSetup(r)) \/ HostData \/ HostRead \/ HostStatus
                     \/ OnVBUSTI \/ OnSUSPI \/ OnWAKEUPI \/ OnEORSTI \/ USB_Init \/ USB_Disable)
            \/ USB_Device_ProcessControlRequest \/ Endpoint_ClearStatusStage
            \/ USB_Device_SetAddress \/ SetLineEncoding \/ USB_Device_SetConfiguration
<1>1. CASE Quiet  BY ONLY <1>1, Steps, [Next]_vars, Zenon DEF Quiet
<1>2. CASE Task  BY ONLY <1>2, Steps, [Next]_vars, Zenon DEF Task, USB_DeviceTask_idle
<1>3. CASE Reset \/ begin \/ end  BY ONLY <1>3, Steps, [Next]_vars, Zenon DEF Reset, begin, end
<1>4. CASE SetControlLineState
  BY ONLY <1>4, Steps, [Next]_vars, Zenon DEF SetControlLineState
<1>5. CASE HostTakes \/ (\E p \in Packets : HostSends(p)) \/ CDC_Device_USBTask \/ Flush_wait
           \/ available \/ FirstPass \/ SecondPass \/ receive
           \/ write \/ write_wait \/ write_put \/ flush \/ flush_return \/ operator_bool
           \/ (\E o \in Ops, c \in Written \cup {0} : Call(o, c))
  <2>1. UNCHANGED <<core, request>>
    BY ONLY <1>5, Zenon DEF HostTakes, HostSends, CDC_Device_USBTask, Flush_wait,
       available, FirstPass, SecondPass, receive, write, write_wait, write_put, flush, flush_return,
       operator_bool, Call
  <2> QED  BY ONLY <2>1, Steps, [Next]_vars, Zenon
<1> QED  BY ONLY <1>1, <1>2, <1>3, <1>4, <1>5, Steps, [Next]_vars, Zenon

\* Every step keeps the types of the device core.
LEMMA StepCore ==
  ASSUME CoreTypeOK, [Next]_vars
  PROVE  CoreTypeOK'
<1>0. HostType /\ DeviceType /\ ControlType  BY ONLY CoreParts, CoreTypeOK
<1>1. HostEvents' = HostEvents  BY ONLY CoreSteps, [Next]_vars, Zenon DEF use
<1>2. Requests' = Requests  BY ONLY <1>1, Zenon DEF Requests, Asked
<1>3. ASSUME UNCHANGED hostVars PROVE HostType'
  BY ONLY <1>0, <1>1, <1>3, Zenon DEF HostType, hostVars
<1>4. ASSUME UNCHANGED <<flags, enabled, running, USB_DeviceState, USB_Device_ConfigurationNumber, address>>
      PROVE DeviceType'
  BY ONLY <1>0, <1>4, Zenon DEF DeviceType
<1>5. ASSUME UNCHANGED <<RXSTPI, TXINI, RXOUTI, request>> PROVE ControlType'
  BY ONLY <1>0, <1>2, <1>5, Zenon DEF ControlType
<1>6. ASSUME ControlEndpointReset, UNCHANGED request PROVE ControlType'
  BY ONLY <1>0, <1>2, <1>6, Zenon DEF ControlType, ControlEndpointReset
<1>7. ConfiguredState(USB_Device_ConfigurationNumber) \in DeviceStates
  BY ONLY DEF ConfiguredState, DeviceStates
<1>8. HostType' /\ DeviceType' /\ ControlType' => CoreTypeOK'
  BY ONLY Zenon DEF CoreTypeOK, HostType, DeviceType, ControlType
<1>9. UNCHANGED core => UNCHANGED <<hostVars, flags, enabled, running, USB_DeviceState,
                          USB_Device_ConfigurationNumber, address, RXSTPI, TXINI, RXOUTI>>
  BY ONLY Zenon DEF core, interruptVars, stateVars, ep0
<1>10. CASE UNCHANGED <<core, request>>
  BY ONLY <1>3, <1>4, <1>5, <1>8, <1>9, <1>10, Zenon
<1>11. CASE UNCHANGED core /\ request' = "none"
  <2>1. ControlType'  BY ONLY <1>0, <1>2, <1>9, <1>11, Zenon DEF ControlType
  <2> QED  BY ONLY <1>3, <1>4, <1>8, <1>9, <1>11, <2>1, Zenon
<1>12. CASE UNCHANGED request /\ (Plug \/ Unplug \/ Suspend \/ Resume \/ Traffic)
  <2>1. HostType'
    BY ONLY <1>0, <1>1, <1>12 DEF HostType, Plug, Unplug, Suspend, Resume, Traffic, hostVars
  <2>2. UNCHANGED <<enabled, running, USB_DeviceState, USB_Device_ConfigurationNumber, address,
                    RXSTPI, TXINI, RXOUTI, request>>
    BY ONLY <1>12, Zenon DEF Plug, Unplug, Suspend, Resume, Traffic, stateVars, ep0
  <2>3. flags' \subseteq Interrupts
    BY ONLY <1>0, <1>12, Zenon DEF DeviceType, Interrupts, Plug, Unplug, Suspend, Resume, Traffic
  <2>4. DeviceType'  BY ONLY <1>0, <2>2, <2>3, Zenon DEF DeviceType
  <2> QED  BY ONLY <1>5, <1>8, <2>1, <2>2, <2>4, Zenon
<1>13. CASE UNCHANGED request /\ BusReset
  <2>1. HostType'  BY ONLY <1>0, <1>1, <1>13 DEF HostType, BusReset
  <2>2. DeviceType'  BY ONLY <1>0, <1>13, Zenon DEF DeviceType, BusReset, Interrupts
  <2>3. ControlType'  BY ONLY <1>6, <1>13 DEF BusReset
  <2> QED  BY ONLY <1>8, <2>1, <2>2, <2>3
<1>14. CASE UNCHANGED request /\ ((\E r \in Requests : HostSetup(r)) \/ HostData \/ HostRead \/ HostStatus)
  <2>1. UNCHANGED <<bus, flags, enabled, running, USB_DeviceState, USB_Device_ConfigurationNumber, address>>
    BY ONLY <1>14, Zenon DEF HostSetup, HostData, HostRead, HostStatus, interruptVars, stateVars
  <2>2. view' \in {"none", "default", "addressed", "configured"}
    BY ONLY <1>0, <1>14 DEF HostType, HostSetup, HostData, HostRead, HostStatus
  <2>3. transfer' \in {"none", "data", "read", "status", "SetAddress"} \cup Configures
    BY ONLY <1>14 DEF HostSetup, HostData, HostRead, HostStatus
  <2>4. HostType'  BY ONLY <1>0, <1>1, <2>1, <2>2, <2>3, Zenon DEF HostType
  <2>5. RXSTPI' \in Requests \cup {"none"} /\ TXINI' \in BOOLEAN /\ RXOUTI' \in BOOLEAN
    BY ONLY <1>0, <1>14, Zenon DEF ControlType, HostSetup, HostData, HostRead, HostStatus
  <2>6. ControlType'  BY ONLY <1>0, <1>2, <1>14, <2>5, Zenon DEF ControlType
  <2> QED  BY ONLY <1>4, <1>8, <2>1, <2>4, <2>6
<1>15. CASE UNCHANGED request /\ (OnVBUSTI \/ OnSUSPI \/ OnWAKEUPI \/ OnEORSTI)
  <2>1. UNCHANGED hostVars  BY ONLY <1>15, Zenon DEF OnVBUSTI, OnSUSPI, OnWAKEUPI, OnEORSTI
  <2>2. UNCHANGED <<RXSTPI, TXINI, RXOUTI>> \/ ControlEndpointReset
    BY ONLY <1>15, Zenon DEF OnVBUSTI, OnSUSPI, OnWAKEUPI, OnEORSTI, ep0
  <2>3. ControlType'  BY ONLY <1>5, <1>6, <1>15, <2>2, Zenon
  <2>4. flags' \subseteq Interrupts /\ enabled' \subseteq Interrupts
    BY ONLY <1>0, <1>15, Zenon DEF DeviceType, Interrupts, OnVBUSTI, OnSUSPI, OnWAKEUPI, OnEORSTI
  <2>5. USB_DeviceState' \in DeviceStates
    BY ONLY <1>7, <1>15 DEF DeviceStates, OnVBUSTI, OnSUSPI, OnWAKEUPI, OnEORSTI
  <2>6. running' \in BOOLEAN /\ address' \in BOOLEAN /\ USB_Device_ConfigurationNumber' \in 0..1
    BY ONLY <1>0, <1>15 DEF DeviceType, OnVBUSTI, OnSUSPI, OnWAKEUPI, OnEORSTI
  <2>7. DeviceType'  BY ONLY <2>4, <2>5, <2>6, Zenon DEF DeviceType, DeviceStates, Interrupts
  <2> QED  BY ONLY <1>3, <1>8, <2>1, <2>3, <2>7, Zenon
<1>16. CASE UNCHANGED request /\ (USB_Init \/ USB_Disable)
  <2>1. HostType'  BY ONLY <1>0, <1>1, <1>16 DEF HostType, USB_Init, USB_Disable
  <2>2. flags' \subseteq Interrupts /\ enabled' \subseteq Interrupts
    <3>1. /\ flags' = {} \/ flags' = {"VBUSTI"}
          /\ enabled' = {} \/ enabled' = {"VBUSTI", "SUSPI", "EORSTI"}
      BY ONLY <1>16, Zenon DEF USB_Init, USB_Disable
    <3> QED  BY ONLY <3>1 DEF Interrupts
  <2>3. /\ USB_DeviceState' \in DeviceStates /\ USB_Device_ConfigurationNumber' \in 0..1
        /\ running' \in BOOLEAN /\ address' \in BOOLEAN
    <3>1. /\ USB_DeviceState' = "Unattached" \/ USB_DeviceState' = USB_DeviceState
          /\ \/ USB_Device_ConfigurationNumber' = 0
             \/ USB_Device_ConfigurationNumber' = USB_Device_ConfigurationNumber
          /\ running' = TRUE \/ running' = FALSE
          /\ address' = FALSE
      BY ONLY <1>16, Zenon DEF USB_Init, USB_Disable
    <3>2. USB_DeviceState \in DeviceStates /\ USB_Device_ConfigurationNumber \in 0..1
      BY ONLY <1>0, Zenon DEF DeviceType
    <3>3. USB_DeviceState' \in DeviceStates  BY ONLY <3>1, <3>2 DEF DeviceStates
    <3>4. USB_Device_ConfigurationNumber' \in 0..1  BY ONLY <3>1, <3>2
    <3>5. running' \in BOOLEAN /\ address' \in BOOLEAN  BY ONLY <3>1, Zenon
    <3> QED  BY ONLY <3>3, <3>4, <3>5
  <2>4. DeviceType'  BY ONLY <2>2, <2>3, Zenon DEF DeviceType, DeviceStates, Interrupts
  <2>5. ControlType'  BY ONLY <1>6, <1>16, Zenon DEF USB_Init, USB_Disable
  <2> QED  BY ONLY <1>8, <2>1, <2>4, <2>5
<1>17. CASE USB_Device_ProcessControlRequest
  <2>1. HostType'
    BY ONLY <1>0, <1>1, <1>17 DEF HostType, USB_Device_ProcessControlRequest
  <2>2. DeviceType'
    BY ONLY <1>0, <1>17 DEF DeviceType, USB_Device_ProcessControlRequest, interruptVars
  <2>3. ControlType'
    BY ONLY <1>0, <1>2, <1>17 DEF ControlType, USB_Device_ProcessControlRequest
  <2> QED  BY ONLY <1>8, <2>1, <2>2, <2>3
<1>18. CASE Endpoint_ClearStatusStage
  <2>1. UNCHANGED hostVars
        /\ UNCHANGED <<flags, enabled, running, USB_DeviceState, USB_Device_ConfigurationNumber, address>>
    BY ONLY <1>18, Zenon DEF Endpoint_ClearStatusStage, interruptVars, stateVars
  <2>2. ControlType'
    BY ONLY <1>0, <1>2, <1>18, Zenon DEF ControlType, Endpoint_ClearStatusStage
  <2> QED  BY ONLY <1>3, <1>4, <1>8, <2>1, <2>2
<1>19. CASE USB_Device_SetAddress \/ USB_Device_SetConfiguration
  <2>1. UNCHANGED hostVars
    BY ONLY <1>19, Zenon DEF USB_Device_SetAddress, USB_Device_SetConfiguration
  <2>2. UNCHANGED <<flags, enabled, running, USB_Device_ConfigurationNumber, RXSTPI, TXINI, RXOUTI>>
    BY ONLY <1>19, Zenon DEF USB_Device_SetAddress, USB_Device_SetConfiguration, interruptVars, ep0
  <2>3. request' = "none" /\ USB_DeviceState' \in DeviceStates /\ address' \in BOOLEAN
    BY ONLY <1>0, <1>7, <1>19, Zenon
       DEF USB_Device_SetAddress, USB_Device_SetConfiguration, DeviceStates, DeviceType
  <2>4. DeviceType'  BY ONLY <1>0, <2>2, <2>3, Zenon DEF DeviceType, DeviceStates
  <2>5. ControlType'  BY ONLY <1>0, <1>2, <2>2, <2>3, Zenon DEF ControlType
  <2> QED  BY ONLY <1>3, <1>8, <2>1, <2>4, <2>5
<1>20. CASE SetLineEncoding
  <2>1. UNCHANGED hostVars
        /\ UNCHANGED <<flags, enabled, running, USB_DeviceState, USB_Device_ConfigurationNumber, address>>
    BY ONLY <1>20, Zenon DEF SetLineEncoding, interruptVars, stateVars
  <2>2. ControlType'  BY ONLY <1>0, <1>2, <1>20, Zenon DEF ControlType, SetLineEncoding
  <2> QED  BY ONLY <1>3, <1>4, <1>8, <2>1, <2>2
<1> QED
  BY ONLY CoreSteps, [Next]_vars, <1>10, <1>11, <1>12, <1>13, <1>14, <1>15, <1>16, <1>17, <1>18,
     <1>19, <1>20, Zenon

-----------------------------------------------------------------------------
(* The theorems.                                                            *)

\* The port starts closed, with both banks empty.
LEMMA InitIInv == Init => IInv
<1> SUFFICES ASSUME Init PROVE IInv  OBVIOUS
<1>1. PICK u \in Uses : /\ HostEvents = u.host /\ Ops = u.ops
                        /\ Written = u.written /\ Sent = u.sent
  BY DEF Init
<1>2. /\ u.host \subseteq HostChoices
      /\ u.ops \subseteq AllOps /\ u.written \subseteq Data /\ u.sent \subseteq Data
  BY ONLY SerialAssumption, u \in Uses DEF SerialAssumption
<1>3. CoreInit  BY DEF Init
<1>4. CoreTypeOK
  <2>1. HostType  BY ONLY <1>1, <1>2, <1>3 DEF CoreInit, HostType
  <2>2. DeviceType
    <3>1. /\ flags = {} /\ enabled = {} /\ running = FALSE /\ USB_DeviceState = "Unattached"
          /\ USB_Device_ConfigurationNumber = 0 /\ address = FALSE
      BY ONLY <1>3, Zenon DEF CoreInit
    <3>2. flags \subseteq Interrupts /\ enabled \subseteq Interrupts  BY ONLY <3>1
    <3>3. USB_DeviceState \in DeviceStates /\ USB_Device_ConfigurationNumber \in 0..1
      BY ONLY <3>1 DEF DeviceStates
    <3> QED  BY ONLY <3>1, <3>2, <3>3, Zenon DEF DeviceType
  <2>3. ControlType  BY ONLY <1>3, Zenon DEF CoreInit, ControlType
  <2> QED  BY ONLY <2>1, <2>2, <2>3, CoreParts
<1>5. SuspendOrWake  BY ONLY <1>3 DEF CoreInit, SuspendOrWake
<1>6. Size \in Nat \ {0} /\ Len(<<>>) = 0 /\ <<>> \in Seq(Data) /\ <<>> \o <<>> = <<>>
  BY SerialAssumption, EmptySeq, ConcatEmptySeq DEF Size
<1>7. /\ pc = "off" /\ BaudRateBPS = FALSE /\ m_lineState = FALSE
      /\ op = "none" /\ arg = 0 /\ stage = 0 /\ result = 0
  BY ONLY Init, Zenon DEF Init, CoreInit
<1>8. CallInv
  <2>1. 0 \in Result  BY ONLY SerialAssumption DEF Result
  <2>2. op # "write" /\ pc \notin {"send", "put"} /\ pc # "receive"  BY ONLY <1>7
  <2>3. stage \in 0..2 /\ pc \in Places /\ op \in Ops \cup {"none"} /\ arg \in Data \cup {0}
    BY ONLY <1>7 DEF Places
  <2>4. Ops \subseteq AllOps /\ Written \cup Sent \subseteq Data  BY ONLY <1>1, <1>2
  <2>5. BaudRateBPS \in BOOLEAN /\ m_lineState \in BOOLEAN /\ result \in Result
    BY ONLY <1>7, <2>1, Zenon
  <2> QED  BY ONLY <2>2, <2>3, <2>4, <2>5, Zenon DEF CallInv, Places
<1>9. InInv
  <2>1. configured = FALSE /\ inReady = FALSE /\ inBank = <<>> /\ inQueue = <<>>
    BY ONLY Init, Zenon DEF Init
  <2>2. Len(<<>>) <= Size  BY ONLY <1>6
  <2> QED  BY ONLY <1>6, <2>1, <2>2, Zenon DEF InInv
<1>10. OutInv
  <2>1. outReceived = FALSE /\ m_didPeek = FALSE /\ m_peek = 0 /\ outBank = <<>> /\ outQueue = <<>>
    BY ONLY Init, Zenon DEF Init
  <2>2. Len(<<>>) <= Size /\ m_peek \in Data \cup {-1, 0}  BY ONLY <1>6, <2>1
  <2>3. Peeked = <<>>  BY ONLY <2>1 DEF Peeked
  <2> QED  BY ONLY <1>6, <2>1, <2>2, <2>3, Zenon DEF OutInv
<1> QED  BY ONLY <1>4, <1>5, <1>8, <1>9, <1>10, Zenon DEF IInv

\* Every step of the sketch, the interrupt and the host keeps it.
LEMMA StepIInv == IInv /\ [Next]_vars => IInv'
  BY ONLY StepSuspend, StepCore, StepIn, StepOut, StepCall, Zenon DEF IInv

\* The inductive invariant holds in every reachable state.
LEMMA Invariant == Spec => []IInv
  BY InitIInv, StepIInv, PTL DEF Spec

\* It includes the types.
LEMMA InvType == IInv => TypeOK
<1> SUFFICES ASSUME IInv PROVE TypeOK  OBVIOUS
<1>1. CoreTypeOK /\ CallInv /\ InInv /\ OutInv  BY ONLY IInv, Zenon DEF IInv
<1>2. outQueue \in Seq(Data)
  <2>1. Peeked \in Seq(Data) /\ outBank \in Seq(Data) /\ outQueue = Peeked \o outBank
    BY ONLY <1>1, PeekedIs DEF OutInv
  <2> QED  BY ONLY <2>1, ConcatProperties
<1>3. inQueue \in Seq(Data)  BY ONLY <1>1, Zenon DEF InInv
<1> QED  BY ONLY <1>1, <1>2, <1>3, Zenon DEF TypeOK, CallInv, InInv, OutInv, Size

\* What the host has sent and the sketch has not read lies in the OUT bank,
\* after the byte peek() keeps, for every bank size, every host and every mix
\* of calls: read(), peek(), available() and the control requests they serve
\* lose, repeat and reorder nothing (USBSerialClass.cpp 67-116).
THEOREM OutAlwaysConserved == Spec => []OutConserved
<1>1. IInv => OutConserved  BY InvType, Zenon DEF IInv, OutInv, OutConserved
<1> QED  BY <1>1, Invariant, PTL

\* Every byte write() has accepted lies in the IN bank or has reached the host
\* in order: the wait of CDC_Device_SendByte ends with an empty bank or
\* without the byte, whatever resets come between.
THEOREM InAlwaysConserved == Spec => []InConserved
<1>1. IInv => InConserved  BY Zenon DEF IInv, InInv, InConserved
<1> QED  BY <1>1, Invariant, PTL

\* While the controller runs, exactly one of the suspend and wake-up
\* interrupts is enabled (USB_GEN_vect).
THEOREM AlwaysSuspendOrWake == Spec => []SuspendOrWake
<1>1. IInv => SuspendOrWake  BY Zenon DEF IInv
<1> QED  BY <1>1, Invariant, PTL
=============================================================================
