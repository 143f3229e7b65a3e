----------------------------- MODULE Bootloader -----------------------------
(***************************************************************************)
(* The CDC bootloader (bootloaders/AT90usb128X/CDC/BootloaderCDC.c; the    *)
(* AT90usb64X copy is the same file): its main loop, the AVR109 commands,  *)
(* and the byte-wise USB transport whose waits end when the device is      *)
(* unplugged.  The USB core is reduced to the device state the waits look  *)
(* at; flash, EEPROM and the programmer on the host are external.          *)
(*                                                                         *)
(* A byte is chosen when it is fetched, not when the host sends it.        *)
(***************************************************************************)
EXTENDS Integers, Sequences

CONSTANTS
  Pages, SPM_PAGESIZE, EepromSize,
  EpSize,          \* CDC_TXRX_EPSIZE
  Sessions         \* programmers to consider: HostBytes, HighBytes, Commands, BusEvents

uint8_t == 0..255

\* The data bytes used.
Byte == {0, 1, 255}

Letters == {"E", "T", "L", "t", "A", "e", "l", "r", "b", "BF", "BE", "gF", "gE",
            "C", "c", "m", "R", "D", "d", "sync", "?"}

\* The hardware uses 17 bits of an address; a byte of EEPROM takes two of them.
AddressSpace == 131072

ASSUME BootAssumption ==
  /\ Pages \in Nat \ {0} /\ EepromSize \in Nat \ {0} /\ EpSize \in Nat \ {0}
  /\ SPM_PAGESIZE \in Nat \ {0} /\ SPM_PAGESIZE % 2 = 0
  /\ Pages * SPM_PAGESIZE < AddressSpace /\ 2 * EepromSize < AddressSpace
  /\ \A s \in Sessions :
       /\ s.bytes \subseteq Byte /\ s.high \subseteq uint8_t
       /\ s.commands \subseteq Letters /\ s.events \subseteq {"unplug", "reset"}

VARIABLES
  HostBytes,       \* data bytes this programmer sends
  HighBytes,       \* first bytes of addresses it sends
  Commands,        \* commands it uses
  BusEvents,       \* "unplug", "reset"
  flash, eeprom,
  buffer,          \* the page buffer of the flash; Empty where not filled
  rww,             \* the application section can be read
  CurrAddress,     \* the 17 bits the hardware uses
  finished,
  usb,             \* USB_DeviceState: "Unattached", "Default" or "Configured"
  outReceived, outLeft,    \* OUT endpoint: a packet is there, its bytes not fetched
  inReady, inBank,         \* IN endpoint: the program owns the bank; its bytes
  pc, Command, args, left, \* CDC_Task: the command, its bytes, bytes of the block to come
  replies,                 \* bytes not yet given to WriteNextResponseByte
  asked, toSend,           \* host: the command, and its bytes still to send
  sent, heard,             \* host: data bytes sent and reply bytes got in this command
  where, image             \* host: address of the command, what it has programmed

memory == <<flash, eeprom, buffer, rww, CurrAddress>>
out == <<outReceived, outLeft>>
in == <<inReady, inBank>>
task == <<Command, args, left, replies>>
host == <<asked, toSend, sent, heard, where, image>>
session == <<HostBytes, HighBytes, Commands, BusEvents>>
vars == <<session, memory, finished, usb, out, in, pc, task, host>>

FlashSize == Pages * SPM_PAGESIZE
Address == 0..(FlashSize - 1)
Empty == <<>>
CR == 13

\* External: a flash bit can only be cleared.  The bytes used form a chain,
\* on which the bitwise and is the minimum.
And(x, y) == IF x < y THEN x ELSE y

PageOf(a) == a \div SPM_PAGESIZE

\* The page buffer's words, and the one an address belongs to.
Words == 0..(SPM_PAGESIZE \div 2 - 1)
Word(a) == (a % SPM_PAGESIZE) \div 2

\* "L" stands for the commands answered by CR alone, "t", "r" and "b" for the
\* ones answered by 2, 1 and 3 constants, BF .. gE for B and g with their
\* memory type, "?" for an unknown command and for a block of another type.
Args(c) ==
  CASE c \in {"T", "l", "C", "c", "D"} -> 1
    [] c = "A" -> 2
    [] c \in {"BF", "BE", "gF", "gE"} -> 3
    [] OTHER -> 0

\* Block sizes the programmer asks for; it writes flash by the page.
BlockSize(c) ==
  CASE c \in {"BF", "gF"} -> SPM_PAGESIZE
    [] c \in {"BE", "gE"} -> 1
    [] OTHER -> 0

\* Every variable has its type; CommandOver includes it.
TypeOK ==
  /\ HostBytes \subseteq Byte /\ HighBytes \subseteq uint8_t
  /\ Commands \subseteq Letters /\ BusEvents \subseteq {"unplug", "reset"}
  /\ flash \in [Address -> Byte] /\ eeprom \in [0..(EepromSize - 1) -> Byte]
  /\ buffer \in [Words -> (Byte \X Byte) \cup {Empty}]
  /\ rww \in BOOLEAN /\ CurrAddress \in Nat /\ CurrAddress < AddressSpace /\ finished \in BOOLEAN
  /\ usb \in {"Unattached", "Default", "Configured"}
  /\ outReceived \in BOOLEAN /\ outLeft \in 0..EpSize
  /\ inReady \in BOOLEAN /\ Len(inBank) <= EpSize
  /\ pc \in {"start", "app", "poll", "command", "fetch", "exec", "block", "reply",
             "zlp", "sent", "usb", "exit"}
  /\ Command \in Letters /\ Len(args) <= 3 /\ left \in 0..SPM_PAGESIZE
  /\ asked \in Letters /\ toSend \in 0..(4 + SPM_PAGESIZE)

EmptyBuffer == [w \in Words |-> Empty]
NoTask == Command' = "?" /\ args' = <<>> /\ left' = 0 /\ replies' = <<>>

Init ==
  /\ \E s \in Sessions :
       /\ HostBytes = s.bytes /\ HighBytes = s.high
       /\ Commands = s.commands /\ BusEvents = s.events
  /\ flash = [a \in Address |-> 255] /\ eeprom = [a \in 0..(EepromSize - 1) |-> 255]
  /\ buffer = EmptyBuffer /\ rww = TRUE /\ CurrAddress = 0 /\ finished = FALSE
  /\ usb = "Unattached" /\ outReceived = FALSE /\ outLeft = 0 /\ inReady = FALSE /\ inBank = <<>>
  /\ pc = "start" /\ Command = "?" /\ args = <<>> /\ left = 0 /\ replies = <<>>
  /\ asked = "?" /\ toSend = 0 /\ sent = <<>> /\ heard = <<>> /\ where = 0 /\ image = [a \in Address |-> 255]

-----------------------------------------------------------------------------
(***************************************************************************)
(* main                                                                    *)
(***************************************************************************)

\* The button decides; static variables are cleared, the page buffer too.
main ==
  /\ pc = "start"
  /\ pc' \in {"poll", "app"}
  /\ CurrAddress' = 0 /\ finished' = FALSE /\ buffer' = EmptyBuffer /\ rww' = TRUE
  /\ usb' = "Unattached"
  /\ outReceived' = FALSE /\ outLeft' = 0 /\ inReady' = FALSE /\ inBank' = <<>>
  /\ NoTask
  /\ asked' = "?" /\ toSend' = 0 /\ sent' = <<>> /\ heard' = <<>> /\ where' = 0
  /\ UNCHANGED <<flash, eeprom, image>>

\* The watchdog, or a power cycle of the application.
Reset ==
  /\ pc \in {"exit", "app"}
  /\ pc' = "start"
  /\ UNCHANGED <<memory, finished, usb, out, in, task, host>>

\* USB_USBTask; a host that has reset the bus enumerates the device, and
\* EVENT_USB_Device_ConfigurationChanged sets up the endpoints.
USB_USBTask ==
  /\ pc = "usb"
  /\ pc' = IF finished THEN "exit" ELSE "poll"
  /\ \/ /\ usb = "Default" /\ usb' = "Configured"
        /\ outReceived' = FALSE /\ outLeft' = 0 /\ inReady' = TRUE /\ inBank' = <<>>
     \/ UNCHANGED <<usb, out, in>>
  /\ UNCHANGED <<memory, finished, task, host>>

-----------------------------------------------------------------------------
(***************************************************************************)
(* The transport.                                                          *)
(***************************************************************************)

ClearOUT == outReceived' = FALSE /\ outLeft' = 0
ClearIN == inReady' = FALSE /\ UNCHANGED inBank
IsReadWriteAllowed == inReady /\ Len(inBank) < EpSize

\* FetchNextCommandByte: an empty packet is acknowledged and the next awaited.
NextPacket ==
  /\ outLeft = 0 /\ outReceived
  /\ ClearOUT
  /\ UNCHANGED <<memory, pc, task, sent>>

\* FetchNextCommandByte: what comes, a byte of Host, or nothing when the
\* device is unplugged while it waits; then it returns 0.
FetchNextCommandByte(Host) ==
  IF outLeft > 0 THEN {<<b>> : b \in Host}
  ELSE IF ~outReceived /\ usb = "Unattached" THEN {<<>>} ELSE {}
ByteOr0(s) == IF s = <<>> THEN 0 ELSE s[1]
ByteTaken(s) == outLeft' = outLeft - Len(s) /\ UNCHANGED outReceived

\* WriteNextResponseByte: a full bank is sent and awaited, unless unplugged.
WriteNextResponseByte ==
  /\ pc = "reply" /\ replies # <<>>
  /\ \/ IsReadWriteAllowed /\ inBank' = Append(inBank, Head(replies)) /\ UNCHANGED inReady
        /\ replies' = Tail(replies)
     \/ inReady /\ ~IsReadWriteAllowed /\ ClearIN /\ UNCHANGED replies
     \/ ~inReady /\ usb = "Unattached" /\ UNCHANGED in /\ replies' = Tail(replies)
  /\ UNCHANGED <<memory, finished, usb, out, pc, Command, args, left, host>>

-----------------------------------------------------------------------------
(***************************************************************************)
(* External: flash.                                                        *)
(***************************************************************************)

boot_page_erase(f, a) == [x \in Address |-> IF PageOf(x) = PageOf(a) THEN 255 ELSE f[x]]

Filled(x) == IF buffer[Word(x)] = Empty THEN 255 ELSE buffer[Word(x)][(x % 2) + 1]
boot_page_write(f, a) ==
  [x \in Address |-> IF PageOf(x) = PageOf(a) THEN And(f[x], Filled(x)) ELSE f[x]]

\* A word of the buffer that is filled already may or may not take another.
boot_page_fill(a, word) ==
  \E v \in {word} \cup (IF buffer[Word(a)] = Empty THEN {} ELSE {buffer[Word(a)]}) :
    buffer' = [buffer EXCEPT ![Word(a)] = v]

-----------------------------------------------------------------------------
(***************************************************************************)
(* CDC_Task                                                                *)
(***************************************************************************)

Poll ==
  /\ pc = "poll"
  /\ pc' = IF outReceived THEN "command" ELSE "usb"
  /\ UNCHANGED <<memory, finished, usb, out, in, task, host>>

FetchCommand ==
  /\ pc = "command"
  /\ \/ NextPacket
     \/ \E s \in FetchNextCommandByte({asked}) :
          /\ ByteTaken(s)
          /\ Command' = (IF s = <<>> THEN "?" ELSE s[1])
          /\ args' = <<>> /\ left' = 0 /\ replies' = <<>>
          /\ pc' = (IF Args(Command') = 0 THEN "exec" ELSE "fetch")
          /\ UNCHANGED <<memory, sent>>
  /\ UNCHANGED <<finished, usb, in, asked, toSend, heard, where, image>>

\* What the programmer sends: addresses that exist, block headers (1 stands
\* for a byte of one), data.
ArgBytes ==
  CASE Command = "A" /\ args = <<>> -> HighBytes
    [] Command = "A" /\ args # <<>> -> uint8_t \cap 0..(FlashSize \div 2 - 1)
    [] Command \in {"BF", "BE", "gF", "gE"} -> {1}
    [] OTHER -> HostBytes

FetchArgs ==
  /\ pc = "fetch"
  /\ \/ NextPacket
     \/ \E s \in FetchNextCommandByte(ArgBytes) :
          /\ ByteTaken(s)
          /\ args' = Append(args, ByteOr0(s))
          /\ sent' = sent \o s
          /\ pc' = (IF Len(args') = Args(Command) THEN "exec" ELSE "fetch")
          /\ UNCHANGED <<memory, Command, left, replies>>
  /\ UNCHANGED <<finished, usb, in, asked, toSend, heard, where, image>>

\* FetchNextCommandByte() << 9 is a 16-bit int; a negative one sets bit 16.
AddressOf(h, l) ==
  LET int == (h * 512) % 65536
  IN  (IF int >= 32768 THEN int + 65536 ELSE int) + 2 * l

Read(a) == IF rww THEN {flash[a]} ELSE Byte

\* A reply of n constants.
Constants(n) == [i \in 1..n |-> CR]

Reply(r) == replies' = r /\ pc' = "reply" /\ UNCHANGED <<Command, args, left>>

\* The commands that change nothing but the reply they give.
ExecReport ==
  /\ \/ Command \in {"T", "L"} /\ Reply(<<CR>>)
     \/ Command = "l" /\ Reply(<<CR>>)          \* lock bits are not modelled
     \/ Command = "t" /\ Reply(Constants(2))
     \/ Command \in {"r", "?"} /\ Reply(Constants(1))
     \/ Command = "b" /\ Reply(Constants(3))
     \/ Command = "sync" /\ Reply(<<>>)
     \/ Command \in {"BF", "BE", "gF", "gE"} /\ args[3] = 0 /\ Reply(Constants(1))
     \/ /\ Command = "R"
        /\ \E lo \in Read(CurrAddress), hi \in Read(CurrAddress + 1) : Reply(<<hi, lo>>)
  /\ UNCHANGED <<memory, finished>>

ExecExit ==
  /\ Command = "E"
  /\ finished' = TRUE
  /\ Reply(<<CR>>)
  /\ UNCHANGED memory

ExecAddress ==
  /\ Command = "A"
  /\ CurrAddress' = AddressOf(args[1], args[2])
  /\ Reply(<<CR>>)
  /\ UNCHANGED <<flash, eeprom, buffer, rww, finished>>

\* Each page is erased and written; the first write takes what the buffer holds.
ExecErase ==
  /\ Command = "e"
  /\ flash' = boot_page_write([a \in Address |-> 255], 0)
  /\ buffer' = EmptyBuffer /\ rww' = FALSE
  /\ Reply(<<CR>>)
  /\ UNCHANGED <<eeprom, CurrAddress, finished>>

\* C and c fill the word at CurrAddress; bit 0 does not count.
ExecFill ==
  /\ Command \in {"C", "c"}
  /\ boot_page_fill(CurrAddress, <<args[1], 0>>)
  /\ CurrAddress' = IF Command = "c" THEN CurrAddress + 2 ELSE CurrAddress
  /\ Reply(<<CR>>)
  /\ UNCHANGED <<flash, eeprom, rww, finished>>

ExecCommitPage ==
  /\ Command = "m"
  /\ flash' = boot_page_write(flash, CurrAddress)
  /\ buffer' = EmptyBuffer /\ rww' = FALSE
  /\ Reply(<<CR>>)
  /\ UNCHANGED <<eeprom, CurrAddress, finished>>

ExecEeprom ==
  /\ \/ /\ Command = "D"
        /\ eeprom' = [eeprom EXCEPT ![CurrAddress \div 2] = args[1]]
        /\ Reply(<<CR>>)
     \/ /\ Command = "d"
        /\ Reply(<<eeprom[CurrAddress \div 2]>>)
        /\ UNCHANGED eeprom
  /\ CurrAddress' = CurrAddress + 2
  /\ UNCHANGED <<flash, buffer, rww, finished>>

\* The block read as it would be without boot_rww_enable().
ExecReadBlock_norww ==
  /\ \/ /\ Command = "gF" /\ args[3] # 0
        /\ CurrAddress' = CurrAddress + SPM_PAGESIZE
        /\ \E r \in [1..SPM_PAGESIZE -> Byte] :
             /\ \A i \in 1..SPM_PAGESIZE : r[i] \in Read(CurrAddress + i - 1)
             /\ Reply(r)
     \/ /\ Command = "gE" /\ args[3] # 0
        /\ CurrAddress' = CurrAddress + 2
        /\ Reply(<<eeprom[CurrAddress \div 2]>>)
  /\ UNCHANGED <<flash, eeprom, buffer, rww, finished>>

\* ReadWriteMemoryBlock: a block is read as a whole, since nobody else writes.
ExecReadBlock ==
  /\ \/ /\ Command = "gF" /\ args[3] # 0
        /\ CurrAddress' = CurrAddress + SPM_PAGESIZE
        /\ Reply([i \in 1..SPM_PAGESIZE |-> flash[CurrAddress + i - 1]])
     \/ /\ Command = "gE" /\ args[3] # 0
        /\ CurrAddress' = CurrAddress + 2
        /\ Reply(<<eeprom[CurrAddress \div 2]>>)
  /\ rww' = TRUE
  /\ UNCHANGED <<flash, eeprom, buffer, finished>>

\* The block write as it would be if it did not erase the page.
ExecWriteBlock_noerase ==
  /\ Command \in {"BF", "BE"} /\ args[3] # 0
  /\ args' = <<CurrAddress>>
  /\ left' = BlockSize(Command) /\ pc' = "block"
  /\ UNCHANGED <<memory, finished, Command, replies>>

\* ReadWriteMemoryBlock: the page is erased first, then the bytes are fetched.
ExecWriteBlock ==
  /\ Command \in {"BF", "BE"} /\ args[3] # 0
  /\ flash' = IF Command = "BF" THEN boot_page_erase(flash, CurrAddress) ELSE flash
  /\ rww' = (rww /\ Command = "BE")
  /\ args' = <<CurrAddress>>                    \* PageStartAddress
  /\ left' = BlockSize(Command) /\ pc' = "block"
  /\ UNCHANGED <<eeprom, buffer, CurrAddress, finished, Command, replies>>

Exec ==
  /\ pc = "exec"
  /\ \/ ExecReport \/ ExecExit \/ ExecAddress \/ ExecErase \/ ExecFill \/ ExecCommitPage
     \/ ExecEeprom \/ ExecReadBlock \/ ExecWriteBlock
  /\ UNCHANGED <<usb, out, in, host>>

\* One byte of a block to write; args holds PageStartAddress and, before the
\* second byte of a word, LowByte.
Block ==
  /\ pc = "block" /\ left > 0
  /\ \/ NextPacket
     \/ \E s \in FetchNextCommandByte(HostBytes) :
          LET HighByte == Len(args) = 2
              b == ByteOr0(s)
          IN  /\ ByteTaken(s)
              /\ sent' = sent \o s
              /\ left' = left - 1
              /\ \/ /\ Command = "BE"
                    /\ eeprom' = [eeprom EXCEPT ![CurrAddress \div 2] = b]
                    /\ CurrAddress' = CurrAddress + 2
                    /\ UNCHANGED <<buffer, args>>
                 \/ /\ Command = "BF" /\ ~HighByte
                    /\ args' = Append(args, b)
                    /\ UNCHANGED <<eeprom, buffer, CurrAddress>>
                 \/ /\ Command = "BF" /\ HighByte
                    /\ boot_page_fill(CurrAddress, <<args[2], b>>)
                    /\ CurrAddress' = CurrAddress + 2
                    /\ args' = <<args[1]>>
                    /\ UNCHANGED eeprom
              /\ UNCHANGED <<flash, rww, pc, Command, replies>>
  /\ UNCHANGED <<finished, usb, in, asked, toSend, heard, where, image>>

BlockDone ==
  /\ pc = "block" /\ left = 0
  /\ IF Command = "BF"
     THEN flash' = boot_page_write(flash, args[1]) /\ buffer' = EmptyBuffer
     ELSE UNCHANGED <<flash, buffer>>
  /\ Reply(<<CR>>)
  /\ UNCHANGED <<eeprom, rww, CurrAddress, finished, usb, out, in, host>>

\* The end of CDC_Task: the bank is sent, after a full one an empty packet,
\* and when all is fetched the command packet is acknowledged.
Send ==
  /\ pc = "reply" /\ replies = <<>>
  /\ ClearIN
  /\ pc' = IF IsReadWriteAllowed THEN "sent" ELSE "zlp"
  /\ UNCHANGED <<memory, finished, usb, out, task, host>>

\* The empty packet as it would be sent by a while in place of the if.
SendEmpty_again ==
  /\ pc = "zlp"
  /\ \/ inReady /\ ClearIN /\ UNCHANGED pc
     \/ ~inReady /\ usb = "Unattached" /\ pc' = "usb" /\ UNCHANGED in
  /\ UNCHANGED <<memory, finished, usb, out, task, host>>

SendEmpty ==
  /\ pc = "zlp"
  /\ \/ inReady /\ ClearIN /\ pc' = "sent"
     \/ ~inReady /\ usb = "Unattached" /\ pc' = "usb" /\ UNCHANGED in
  /\ UNCHANGED <<memory, finished, usb, out, task, host>>

Acknowledge ==
  /\ pc = "sent"
  /\ \/ inReady /\ ClearOUT
     \/ ~inReady /\ usb = "Unattached" /\ UNCHANGED out
  /\ pc' = "usb"
  /\ NoTask
  /\ UNCHANGED <<memory, finished, usb, in, host>>

CDC_Task ==
  \/ Poll \/ FetchCommand \/ FetchArgs \/ Exec \/ Block \/ BlockDone
  \/ WriteNextResponseByte \/ Send \/ SendEmpty \/ Acknowledge

-----------------------------------------------------------------------------
(***************************************************************************)
(* External: the bus and the programmer, which sends a command only when   *)
(* the last one is answered, to addresses that exist, and writes whole     *)
(* pages.                                                                  *)
(***************************************************************************)

Sensible(c) ==
  CASE c = "BF" -> CurrAddress < FlashSize /\ CurrAddress % SPM_PAGESIZE = 0
    [] c = "gF" -> CurrAddress + SPM_PAGESIZE <= FlashSize
    [] c \in {"BE", "gE", "D", "d"} -> CurrAddress \div 2 < EepromSize
    [] c \in {"C", "c", "m", "R"} -> CurrAddress < FlashSize
    [] OTHER -> TRUE

HostCommand(c) ==
  /\ usb = "Configured" /\ toSend = 0 /\ pc = "poll" /\ ~outReceived /\ inReady
  /\ Sensible(c)
  /\ asked' = c /\ where' = CurrAddress
  /\ toSend' = 1 + Args(c) + (IF c \in {"BF", "BE"} THEN BlockSize(c) ELSE 0)
  /\ sent' = <<>> /\ heard' = <<>>
  /\ UNCHANGED <<memory, finished, usb, out, in, pc, task, image>>

HostPacket ==
  /\ usb = "Configured" /\ toSend > 0 /\ ~outReceived
  /\ \E k \in 1..EpSize :
       /\ k <= toSend
       /\ outReceived' = TRUE /\ outLeft' = k /\ toSend' = toSend - k
  /\ UNCHANGED <<memory, finished, usb, in, pc, task, asked, sent, heard, where, image>>

\* The answer to a block or an erase says that flash now holds what was sent.
HostTakes ==
  /\ usb = "Configured" /\ ~inReady
  /\ inReady' = TRUE /\ inBank' = <<>>
  /\ heard' = heard \o inBank
  /\ image' = CASE asked = "BF" /\ heard' = <<CR>> /\ inBank # <<>> ->
                     [a \in Address |-> IF PageOf(a) = PageOf(where)
                                        THEN sent[a - where + 4] ELSE image[a]]
                [] asked = "e" /\ heard' = <<CR>> -> [a \in Address |-> 255]
                [] OTHER -> image
  /\ UNCHANGED <<memory, finished, usb, out, pc, task, asked, toSend, sent, where>>

Unplug ==
  /\ "unplug" \in BusEvents /\ usb # "Unattached"
  /\ usb' = "Unattached" /\ toSend' = 0
  /\ UNCHANGED <<memory, finished, out, in, pc, task, asked, sent, heard, where, image>>

\* A person plugs the cable in again, long after the waits have noticed and
\* the task has dropped the last packet; the host resets the bus.
Plug ==
  /\ usb = "Unattached" /\ pc \in {"poll", "usb"} /\ ~outReceived
  /\ usb' = "Default"
  /\ inReady' = FALSE /\ inBank' = <<>>
  /\ UNCHANGED <<memory, finished, out, pc, task, host>>

\* The host resets the bus: the endpoints are gone until it is enumerated again.
BusReset ==
  /\ "reset" \in BusEvents /\ usb = "Configured"
  /\ usb' = "Default" /\ toSend' = 0
  /\ outReceived' = FALSE /\ outLeft' = 0 /\ inReady' = FALSE /\ inBank' = <<>>
  /\ UNCHANGED <<memory, finished, pc, task, asked, sent, heard, where, image>>

Programmer == \E c \in Commands : HostCommand(c)

Processor == main \/ Reset \/ USB_USBTask \/ CDC_Task

Next ==
  /\ Processor \/ Programmer \/ HostPacket \/ HostTakes \/ Unplug \/ Plug \/ BusReset
  /\ UNCHANGED session

Spec == Init /\ [][Next]_vars

\* The processor runs; the programmer finishes what it has begun.
FairSpec ==
  /\ Spec
  /\ WF_vars(Processor /\ UNCHANGED session)
  /\ WF_vars(HostPacket /\ UNCHANGED session) /\ WF_vars(HostTakes /\ UNCHANGED session)

-----------------------------------------------------------------------------
(***************************************************************************)
(* Properties.                                                             *)
(***************************************************************************)

\* The cable stays in, and the programmer writes flash by the block.
ByBlock == BusEvents = {} /\ Commands \cap {"C", "c", "m"} = {}

\* When a command is over the programmer has its whole answer and the bank is
\* free for the next (the end of CDC_Task); and as long as the cable stays in
\* and it writes by the block, flash holds exactly what it was told it had
\* written, whatever packets it split its commands into (ReadWriteMemoryBlock).
CommandOver ==
  /\ TypeOK
  /\ pc = "poll" /\ toSend = 0 /\ ~outReceived =>
       /\ usb = "Configured" => inReady /\ inBank = <<>>
       /\ ByBlock => flash = image

\* A block read back is what was written: the application section is
\* readable again when it is read, although writing it made it unreadable
\* (boot_rww_enable in ReadWriteMemoryBlock).
ReadBack ==
  ByBlock /\ pc = "usb" /\ asked = "gF" /\ Len(heard) = SPM_PAGESIZE
    => \A i \in 1..SPM_PAGESIZE : heard[i] = image[where + i - 1]

\* The main loop goes round again and again, also when the cable is pulled in
\* the middle of a command (main: "continuously runs the bootloader processing
\* routine until instructed to soft-exit").
MainLoopRuns == "reset" \notin BusEvents => []<>(pc \in {"usb", "exit", "app"})
=============================================================================
