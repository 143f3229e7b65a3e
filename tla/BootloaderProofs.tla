-------------------------- MODULE BootloaderProofs --------------------------
(***************************************************************************)
(* Proofs about the CDC bootloader, for every size of flash, page, EEPROM  *)
(* and endpoint and every programmer: however it splits its commands into  *)
(* packets, whenever the cable is pulled or the bus reset.                 *)
(***************************************************************************)
EXTENDS Bootloader, SequenceTheorems, TLAPS

-----------------------------------------------------------------------------
(* The inductive invariant.                                                 *)

Answering == {"reply", "zlp", "sent"}
Waiting == {"poll", "usb", "command"}

\* Data bytes of a block to write; bytes the host has still to send or the
\* task to fetch.
Data(c) == IF c \in {"BF", "BE"} THEN BlockSize(c) ELSE 0
Coming == outLeft + toSend

SessionTypes ==
  /\ HostBytes \subseteq Byte /\ HighBytes \subseteq uint8_t
  /\ Commands \subseteq Letters /\ BusEvents \subseteq {"unplug", "reset"}
MemoryTypes ==
  /\ flash \in [Address -> Byte] /\ eeprom \in [0..(EepromSize - 1) -> Byte]
  /\ buffer \in [Words -> (Byte \X Byte) \cup {Empty}]
  /\ rww \in BOOLEAN /\ CurrAddress \in Nat /\ CurrAddress < AddressSpace /\ CurrAddress % 2 = 0
PortTypes ==
  /\ usb \in {"Unattached", "Default", "Configured"}
  /\ outReceived \in BOOLEAN /\ outLeft \in 0..EpSize
  /\ inReady \in BOOLEAN /\ inBank \in Seq(Nat) /\ Len(inBank) <= EpSize
TaskTypes ==
  /\ finished \in BOOLEAN
  /\ pc \in {"start", "app", "poll", "command", "fetch", "exec", "block", "reply",
             "zlp", "sent", "usb", "exit"}
  /\ Command \in Letters /\ left \in 0..SPM_PAGESIZE
  /\ args \in Seq(Nat) /\ Len(args) <= 3 /\ replies \in Seq(Nat)
HostTypes ==
  /\ asked \in Letters /\ toSend \in 0..(4 + SPM_PAGESIZE)
  /\ sent \in Seq(Nat) /\ heard \in Seq(Nat)
Types == SessionTypes /\ MemoryTypes /\ PortTypes /\ TaskTypes /\ HostTypes

\* The two endpoints.  The IN bank is empty and the program's own whenever no
\* answer is under way, and when the host has taken the last packet of one.
Endpoints ==
  /\ outLeft > 0 => outReceived
  /\ usb # "Configured" => toSend = 0
  /\ usb = "Configured" /\ pc \notin Answering => inReady /\ inBank = <<>>
  /\ pc \in {"zlp", "sent"} /\ inReady => inBank = <<>>

\* The arguments fetched; a memory type that did not come is the last byte to
\* be fetched.
Fetched ==
  /\ \A i \in 1..Len(args) : args[i] \in uint8_t /\ (Command # "A" => args[i] \in Byte)
  /\ Command \in {"BF", "BE"} => (\A i \in 1..Len(args) : args[i] # 0) \/ Coming = 0

\* A block under way: where it is, and on which byte of a word.
Writing ==
  /\ Command \in {"BF", "BE"} /\ left <= BlockSize(Command)
  /\ Len(args) \in {1, 2} /\ (Len(args) = 2 => args[2] \in Byte)
  /\ Command = "BF" =>
       /\ args[1] + SPM_PAGESIZE <= FlashSize
       /\ CurrAddress + left + Len(args) = args[1] + SPM_PAGESIZE + 1
       /\ left % 2 = 0 <=> Len(args) = 1
  /\ Command = "BE" => Len(args) = 1 /\ (left = 1 => CurrAddress \div 2 < EepromSize)

\* No more bytes are coming than the command takes, and a command that works
\* on memory works on an address that exists.
Bytes ==
  /\ pc \in Waiting /\ Coming > 0 => Coming <= 1 + Args(asked) + Data(asked) /\ Sensible(asked)
  /\ pc = "fetch" =>
       Len(args) < Args(Command) /\ Coming <= Args(Command) - Len(args) + Data(Command)
  /\ pc = "exec" => Len(args) = Args(Command) /\ Coming <= Data(Command)
  /\ pc \in {"fetch", "exec"} => Sensible(Command) /\ Fetched
  /\ pc = "block" => Coming <= left /\ Writing
  /\ pc \in Answering => Coming = 0

SafeInv == Types /\ Endpoints /\ Bytes

\* What the programmer will know flash to hold when it has the answer.
Written ==
  [a \in Address |-> IF PageOf(a) = PageOf(where) THEN sent[a - where + 4] ELSE image[a]]
Erased == [a \in Address |-> 255]
Reading == [i \in 1..SPM_PAGESIZE |-> image[where + i - 1]]

\* The session is up whenever the programmer is in it, and every byte it has
\* sent is fetched in its turn.
InSession ==
  /\ usb # "Configured" => pc \in {"start", "app", "poll", "usb", "exit"} /\ ~outReceived
  /\ asked \notin {"C", "c", "m"}
  /\ pc \notin Waiting \cup {"start", "app", "exit"} => Command = asked
  /\ pc = "command" => outReceived
  /\ pc \in Waiting =>
       /\ outReceived => outLeft > 0
       /\ Coming > 0 => /\ Coming = 1 + Args(asked) + Data(asked)
                        /\ sent = <<>> /\ heard = <<>> /\ where = CurrAddress
  /\ pc = "fetch" => Coming = Args(Command) - Len(args) + Data(Command)
  /\ pc = "exec" => Coming = Data(Command)
  /\ pc \in {"fetch", "exec"} =>
       /\ sent = args /\ heard = <<>> /\ where = CurrAddress
       /\ Command \in {"BF", "BE", "gF", "gE"} => \A i \in 1..Len(args) : args[i] = 1
  /\ pc = "block" => Coming = left /\ heard = <<>>

\* The page buffer holds the words of the block that are complete.
Filling ==
  /\ args[1] = where /\ where % SPM_PAGESIZE = 0
  /\ Len(sent) = 3 + SPM_PAGESIZE - left
  /\ \A i \in 1..Len(sent) : sent[i] \in Byte
  /\ Len(args) = 2 => args[2] = sent[Len(sent)]
  /\ \A w \in Words :
       buffer[w] = IF 2 * w + 1 < SPM_PAGESIZE - left
                   THEN <<sent[2 * w + 4], sent[2 * w + 5]>> ELSE Empty
  /\ flash = boot_page_erase(image, where)

\* What flash holds, and what the answer under way says of it.
Contents ==
  /\ pc \notin Answering \cup {"block"} => flash = image
  /\ pc # "block" => buffer = EmptyBuffer
  /\ pc = "block" /\ Command = "BF" => Filling
  /\ pc = "block" /\ Command = "BE" => flash = image /\ buffer = EmptyBuffer
  /\ pc \in {"zlp", "sent"} => replies = <<>>
  /\ pc \in Answering =>
       LET answer == heard \o (inBank \o replies) IN
       /\ asked = "BF" =>
            answer = <<CR>> /\ flash = IF heard = <<CR>> THEN image ELSE Written
       /\ asked = "e" => answer = <<CR>> /\ flash = Erased /\ (heard = <<CR>> => image = Erased)
       /\ asked \notin {"BF", "e"} => flash = image
       /\ asked = "gF" => answer = Reading
  /\ pc \in Waiting /\ asked = "gF" /\ heard # <<>> => heard = Reading

IInv == SafeInv /\ (ByBlock => InSession /\ Contents)

-----------------------------------------------------------------------------
(* Sizes and addresses.                                                     *)

\* What the assumption says of the sizes.
LEMMA Sizes ==
  /\ SPM_PAGESIZE \in Nat /\ SPM_PAGESIZE >= 2 /\ SPM_PAGESIZE % 2 = 0
  /\ FlashSize \in Nat /\ FlashSize < AddressSpace /\ FlashSize % 2 = 0
  /\ EpSize \in Nat /\ EpSize >= 1
  /\ EepromSize \in Nat /\ 2 * EepromSize < AddressSpace /\ AddressSpace \in Nat
<1>1. /\ Pages \in Nat /\ SPM_PAGESIZE \in Nat /\ SPM_PAGESIZE # 0 /\ SPM_PAGESIZE % 2 = 0
      /\ Pages * SPM_PAGESIZE < AddressSpace
      /\ EpSize \in Nat /\ EpSize # 0 /\ EepromSize \in Nat /\ 2 * EepromSize < AddressSpace
  BY BootAssumption
<1> DEFINE h == SPM_PAGESIZE \div 2
<1>2. h \in Nat /\ SPM_PAGESIZE = 2 * h  BY <1>1
<1> HIDE DEF h
<1>3. Pages * SPM_PAGESIZE = 2 * (Pages * h) /\ Pages * h \in Nat  BY ONLY <1>1, <1>2
<1> DEFINE p == Pages * h
<1>4. p \in Nat /\ Pages * SPM_PAGESIZE = 2 * p  BY <1>3
<1> HIDE DEF p
<1>5. FlashSize % 2 = 0 /\ FlashSize \in Nat  BY ONLY <1>4 DEF FlashSize
<1>6. AddressSpace \in Nat  BY SMT DEF AddressSpace
<1> QED  BY ONLY <1>1, <1>5, <1>6 DEF FlashSize

\* A number is its page and its place in it.
LEMMA Division ==
  ASSUME NEW a \in Nat
  PROVE  /\ PageOf(a) \in Nat /\ a % SPM_PAGESIZE \in Nat /\ a % SPM_PAGESIZE < SPM_PAGESIZE
         /\ a = SPM_PAGESIZE * PageOf(a) + (a % SPM_PAGESIZE)
<1> DEFINE S == SPM_PAGESIZE
           q == a \div S
           r == a % S
<1>1. S \in Nat /\ S > 1  BY Sizes
<1>2. r \in 0..(S - 1) /\ q \in Nat /\ a = q * S + r  BY <1>1, SMT
<1> HIDE DEF S, q, r
<1>3. q * S = S * q  BY ONLY <1>1, <1>2
<1>4. q \in Nat /\ r \in Nat /\ r < S /\ a = S * q + r  BY ONLY <1>1, <1>2, <1>3
<1> QED  BY <1>4, Zenon DEF PageOf, S, q, r

\* A page that begins in flash ends in it.
LEMMA WholePage ==
  ASSUME NEW a \in Nat, a < FlashSize, a % SPM_PAGESIZE = 0
  PROVE  a + SPM_PAGESIZE <= FlashSize
<1> DEFINE n == PageOf(a)
           S == SPM_PAGESIZE
<1>1. S \in Nat /\ S >= 2 /\ Pages \in Nat  BY Sizes, BootAssumption
<1>2. n \in Nat /\ a = S * n  BY <1>1, Division
<1>3. S * n < Pages * S  BY <1>2 DEF FlashSize
<1> HIDE DEF n, S
<1>4. n < Pages
  <2> SUFFICES ASSUME n >= Pages PROVE FALSE  BY <1>1, <1>2
  <2>1. S * n >= S * Pages  BY ONLY <1>1, <1>2, n >= Pages, SMT
  <2>2. S * Pages = Pages * S  BY ONLY <1>1
  <2> QED  BY ONLY <1>1, <1>2, <1>3, <2>1, <2>2
<1>5. S * (n + 1) <= S * Pages  BY ONLY <1>1, <1>2, <1>4, SMT
<1>6. S * (n + 1) = a + S  BY ONLY <1>1, <1>2
<1>7. S * Pages = FlashSize  BY <1>1 DEF FlashSize, S
<1> QED  BY <1>5, <1>6, <1>7 DEF S

\* The addresses of the page that begins at w, and their places in it.
LEMMA InPage ==
  ASSUME NEW w \in Nat, w % SPM_PAGESIZE = 0, NEW x \in Nat
  PROVE  /\ PageOf(x) = PageOf(w) <=> w <= x /\ x < w + SPM_PAGESIZE
         /\ PageOf(x) = PageOf(w) => x % SPM_PAGESIZE = x - w
<1> DEFINE S == SPM_PAGESIZE
           m == PageOf(w)
           n == PageOf(x)
           r == x % SPM_PAGESIZE
<1>1. S \in Nat /\ S >= 2  BY Sizes
<1>2. m \in Nat /\ w = S * m
  <2>1. m \in Nat /\ w = S * m + (w % SPM_PAGESIZE)  BY Division, Zenon
  <2>2. w = S * m + 0  BY <2>1, Zenon
  <2> HIDE DEF S, m
  <2> QED  BY ONLY <1>1, <2>1, <2>2
<1>3. n \in Nat /\ r \in Nat /\ r < S /\ x = S * n + r  BY <1>1, Division
<1> HIDE DEF S, m, n, r
<1>4. n = m => w <= x /\ x < w + S /\ r = x - w  BY ONLY <1>1, <1>2, <1>3
<1>5. n < m => x < w
  <2> SUFFICES ASSUME n < m PROVE x < w  OBVIOUS
  <2>1. S * (n + 1) <= S * m  BY ONLY <1>1, <1>2, <1>3, n < m, SMT
  <2>2. S * (n + 1) = S * n + S  BY ONLY <1>1, <1>3
  <2> QED  BY ONLY <1>1, <1>2, <1>3, <2>1, <2>2
<1>6. n > m => x >= w + S
  <2> SUFFICES ASSUME n > m PROVE x >= w + S  OBVIOUS
  <2>1. S * (m + 1) <= S * n  BY ONLY <1>1, <1>2, <1>3, n > m, SMT
  <2>2. S * (m + 1) = S * m + S  BY ONLY <1>1, <1>2
  <2> QED  BY ONLY <1>1, <1>2, <1>3, <2>1, <2>2
<1>7. n = m <=> w <= x /\ x < w + S  BY ONLY <1>1, <1>2, <1>3, <1>4, <1>5, <1>6
<1> QED  BY <1>4, <1>7 DEF S, m, n, r

\* The word of the page buffer that an address belongs to.
LEMMA InBuffer == ASSUME NEW a \in Nat PROVE Word(a) \in Words
<1> DEFINE r == a % SPM_PAGESIZE
<1>1. SPM_PAGESIZE \in Nat /\ SPM_PAGESIZE % 2 = 0  BY Sizes
<1>2. r \in Nat /\ r < SPM_PAGESIZE  BY Division
<1> HIDE DEF r
<1>3. r \div 2 \in 0..(SPM_PAGESIZE \div 2 - 1)  BY ONLY <1>1, <1>2
<1> QED  BY <1>3 DEF r, Word, Words

\* The address of command A is even and has 17 bits, whatever its two bytes.
LEMMA Addressed ==
  ASSUME NEW h \in uint8_t, NEW l \in uint8_t
  PROVE  /\ AddressOf(h, l) \in Nat /\ AddressOf(h, l) < AddressSpace /\ AddressOf(h, l) % 2 = 0
<1>0. h \in Nat /\ l \in Nat /\ h <= 255 /\ l <= 255  BY DEF uint8_t
<1> DEFINE int == (h * 512) % 65536
<1>1. CASE h < 128
  <2>1. int = 512 * h  BY <1>0, <1>1
  <2> HIDE DEF int
  <2>2. AddressOf(h, l) \in {512 * h + 65536 + 2 * l, 512 * h + 2 * l}
    BY <1>0, <2>1 DEF AddressOf, int
  <2> QED  BY <1>0, <2>2, <1>1, SMT DEF AddressSpace
<1>2. CASE h >= 128
  <2>1. int = 512 * h - 65536  BY <1>0, <1>2
  <2> HIDE DEF int
  <2>2. AddressOf(h, l) \in {512 * h + 2 * l, (512 * h - 65536) + 2 * l}
    BY <1>0, <2>1 DEF AddressOf, int
  <2> QED  BY <1>0, <2>2, <1>2, SMT DEF AddressSpace
<1> QED  BY <1>0, <1>1, <1>2

-----------------------------------------------------------------------------
(* Sequences and memory.                                                    *)

\* The answers, and the sequences a command is made of.
LEMMA Short ==
  ASSUME NEW r \in Seq(Nat), NEW q \in Seq(Nat), NEW h \in Seq(Nat), NEW b \in Nat
  PROVE  /\ Append(q, b) = q \o <<b>> /\ Append(q, b) \in Seq(Nat) /\ q \o r \in Seq(Nat)
         /\ <<b>> \in Seq(Nat) /\ <<>> \in Seq(Nat) /\ <<CR>> \in Seq(Nat)
         /\ r # <<>> => /\ Head(r) \in Nat /\ Tail(r) \in Seq(Nat)
                        /\ Append(q, Head(r)) \o Tail(r) = q \o r
         /\ (h \o q) \o (<<>> \o r) = h \o (q \o r)
         /\ <<>> \o r = r /\ r \o <<>> = r
<1>1. <<>> \in Seq(Nat) /\ <<CR>> \in Seq(Nat) /\ <<b>> \in Seq(Nat)  BY DEF CR
<1>2. Append(q, b) = q \o <<b>> /\ Append(q, b) \in Seq(Nat) /\ q \o r \in Seq(Nat)
  BY AppendIsConcat, ConcatProperties
<1>3. <<>> \o r = r /\ r \o <<>> = r  BY ConcatEmptySeq
<1>4. (h \o q) \o r = h \o (q \o r)
  <2> DEFINE N == Nat
             x == h
             y == q
             z == r
  <2>1. x \in Seq(N) /\ y \in Seq(N) /\ z \in Seq(N)  OBVIOUS
  <2> HIDE DEF N, x, y, z
  <2>2. (x \o y) \o z = x \o (y \o z)  BY ONLY <2>1, ConcatAssociative, SMTT(30)
  <2> QED  BY <2>2 DEF x, y, z
<1>5. ASSUME r # <<>>
      PROVE  /\ Head(r) \in Nat /\ Tail(r) \in Seq(Nat)
             /\ Append(q, Head(r)) \o Tail(r) = q \o r
  <2>0. Head(r) \in Nat /\ Tail(r) \in Seq(Nat)  BY <1>5, HeadTailProperties
  <2>2. <<Head(r)>> \in Seq(Nat)  BY <2>0
  <2>1. Head(r) \in Nat /\ Tail(r) \in Seq(Nat) /\ r = <<Head(r)>> \o Tail(r)
    <3> DEFINE t == <<Head(r)>> \o Tail(r)
    <3>1. t \in Seq(Nat)  BY <2>0, <2>2, ConcatProperties
    <3>2. Len(t) = Len(r) /\ \A i \in 1..Len(r) : r[i] = t[i]  BY <1>5, <2>0
    <3>3. r = t  BY ONLY <3>1, <3>2, r \in Seq(Nat), SeqEqual
    <3> QED  BY <2>0, <3>3
  <2>3. Append(q, Head(r)) = q \o <<Head(r)>>  BY <2>1, AppendIsConcat
  <2>4. (q \o <<Head(r)>>) \o Tail(r) = q \o (<<Head(r)>> \o Tail(r))
    <3> DEFINE N == Nat
               e == <<Head(r)>>
               t == Tail(r)
    <3>1. q \in Seq(N) /\ e \in Seq(N) /\ t \in Seq(N)  BY <2>1, <2>2
    <3> HIDE DEF N, e, t
    <3>2. (q \o e) \o t = q \o (e \o t)  BY ONLY <3>1, ConcatAssociative, SMTT(30)
    <3> QED  BY <3>2 DEF e, t
  <2> QED  BY ONLY <2>1, <2>3, <2>4
<1> QED  BY ONLY <1>1, <1>2, <1>3, <1>4, <1>5, Zenon

\* The one-byte answer.
LEMMA CRType == <<CR>> \in Seq(Nat)  BY DEF CR

\* What the page buffer holds for an address is a byte.
LEMMA FilledType ==
  ASSUME buffer \in [Words -> (Byte \X Byte) \cup {Empty}], NEW x \in Nat
  PROVE  Filled(x) \in Byte
<1>1. buffer[Word(x)] \in (Byte \X Byte) \cup {Empty}  BY InBuffer
<1>2. CASE buffer[Word(x)] = Empty  BY <1>2 DEF Filled, Byte
<1>3. CASE buffer[Word(x)] # Empty
  <2>1. buffer[Word(x)][1] \in Byte /\ buffer[Word(x)][2] \in Byte  BY <1>1, <1>3
  <2>2. (x % 2) + 1 \in {1, 2}  OBVIOUS
  <2>3. Filled(x) = buffer[Word(x)][(x % 2) + 1]  BY <1>3 DEF Filled
  <2> QED  BY <2>1, <2>2, <2>3
<1> QED  BY <1>2, <1>3

\* A page written or erased leaves flash bytes.
LEMMA PageTypes ==
  ASSUME buffer \in [Words -> (Byte \X Byte) \cup {Empty}],
         NEW f \in [Address -> Byte], NEW a
  PROVE  boot_page_write(f, a) \in [Address -> Byte] /\ boot_page_erase(f, a) \in [Address -> Byte]
<1>1. \A x \in Address : x \in Nat  BY Sizes DEF Address
<1>2. \A x \in Address : And(f[x], Filled(x)) \in Byte  BY <1>1, FilledType DEF And
<1>3. 255 \in Byte  BY DEF Byte
<1> QED  BY <1>2, <1>3 DEF boot_page_write, boot_page_erase

\* The page buffer when it is cleared.
LEMMA EmptyBufferType == EmptyBuffer \in [Words -> (Byte \X Byte) \cup {Empty}]
<1> DEFINE T == (Byte \X Byte) \cup {Empty}
<1>1. Empty \in T  OBVIOUS
<1> HIDE DEF T
<1>2. EmptyBuffer \in [Words -> T]  BY <1>1 DEF EmptyBuffer
<1> QED  BY <1>2 DEF T

\* A word filled leaves the page buffer one.
LEMMA FillType ==
  ASSUME buffer \in [Words -> (Byte \X Byte) \cup {Empty}], NEW a, NEW word \in Byte \X Byte,
         boot_page_fill(a, word)
  PROVE  buffer' \in [Words -> (Byte \X Byte) \cup {Empty}]
<1> DEFINE T == (Byte \X Byte) \cup {Empty}
           w == Word(a)
<1>1. PICK v \in {word} \cup (IF buffer[w] = Empty THEN {} ELSE {buffer[w]}) :
        buffer' = [buffer EXCEPT ![w] = v]
  BY DEF boot_page_fill
<1>2. word \in T  OBVIOUS
<1> HIDE DEF T
<1>3. buffer \in [Words -> T]  BY DEF T
<1>4. w \in Words => v \in T  BY <1>1, <1>2, <1>3
<1> HIDE DEF w
<1>5. buffer' \in [Words -> T]  BY ONLY <1>1, <1>3, <1>4
<1> QED  BY <1>5 DEF T

\* What FetchNextCommandByte returns: a byte of the packet, or nothing when the
\* cable is out and no packet is there.
LEMMA FetchedByte ==
  ASSUME NEW H, NEW s \in FetchNextCommandByte(H)
  PROVE  \/ /\ outLeft > 0 /\ s[1] \in H /\ s = <<s[1]>> /\ Len(s) = 1 /\ ByteOr0(s) = s[1]
         \/ /\ ~(outLeft > 0) /\ ~outReceived /\ usb = "Unattached"
            /\ s = <<>> /\ Len(s) = 0 /\ ByteOr0(s) = 0
<1>1. CASE outLeft > 0
  <2>1. PICK b \in H : s = <<b>>  BY <1>1 DEF FetchNextCommandByte
  <2>2. s[1] = b /\ Len(s) = 1 /\ s # <<>>  BY <2>1
  <2> QED  BY <1>1, <2>1, <2>2 DEF ByteOr0
<1>2. CASE ~(outLeft > 0)
  <2>1. s = <<>> /\ ~outReceived /\ usb = "Unattached"  BY <1>2 DEF FetchNextCommandByte
  <2> QED  BY <1>2, <2>1 DEF ByteOr0
<1> QED  BY <1>1, <1>2

\* The bytes of each kind.
LEMMA Kinds ==
  /\ "?" \in Letters /\ 255 \in Byte /\ 0 \in Byte /\ 1 \in Byte
  /\ Byte \subseteq uint8_t /\ Byte \subseteq Nat /\ uint8_t \subseteq Nat
  /\ \A c : Args(c) \in 0..3 /\ Data(c) \in 0..SPM_PAGESIZE /\ BlockSize(c) \in 0..SPM_PAGESIZE
  /\ Args("?") = 0 /\ Data("?") = 0
<1>1. "?" \in Letters  BY DEF Letters
<1>2. 255 \in Byte /\ 0 \in Byte /\ 1 \in Byte /\ Byte \subseteq uint8_t /\ Byte \subseteq Nat /\ uint8_t \subseteq Nat
  BY DEF Byte, uint8_t
<1>7. uint8_t \subseteq Nat  BY DEF uint8_t
<1>3. \A c : Args(c) \in 0..3  BY DEF Args
<1>4. \A c : BlockSize(c) \in 0..SPM_PAGESIZE  BY Sizes DEF BlockSize
<1>5. \A c : Data(c) \in 0..SPM_PAGESIZE  BY <1>4, Sizes DEF Data
<1>6. Args("?") = 0 /\ Data("?") = 0  BY DEF Args, Data
<1> QED  BY <1>1, <1>2, <1>3, <1>4, <1>5, <1>6, <1>7

\* The arguments the programmer sends.
LEMMA ArgTypes ==
  ASSUME SessionTypes
  PROVE  ArgBytes \subseteq uint8_t /\ (Command # "A" => ArgBytes \subseteq Byte)
<1>1. HostBytes \subseteq Byte /\ HighBytes \subseteq uint8_t  BY DEF SessionTypes
<1> QED  BY ONLY <1>1, Kinds DEF ArgBytes

\* Taking a packet or a byte of one keeps the OUT endpoint's types.
LEMMA OutTypes ==
  ASSUME PortTypes, NEW H,
         NextPacket \/ \E s \in FetchNextCommandByte(H) : ByteTaken(s)
  PROVE  outReceived' \in BOOLEAN /\ outLeft' \in 0..EpSize
<1>1. CASE NextPacket
  <2>1. outReceived' = FALSE /\ outLeft' = 0  BY ONLY <1>1, Zenon DEF NextPacket, ClearOUT
  <2>2. outReceived' \in BOOLEAN  BY ONLY <2>1, Zenon
  <2> QED  BY ONLY <2>1, <2>2, Sizes
<1>2. ASSUME NEW s \in FetchNextCommandByte(H), ByteTaken(s)
      PROVE  outReceived' \in BOOLEAN /\ outLeft' \in 0..EpSize
  <2>1. outReceived \in BOOLEAN /\ outLeft \in 0..EpSize  BY DEF PortTypes
  <2>2. outReceived' = outReceived /\ outLeft' = outLeft - Len(s)  BY <1>2, Zenon DEF ByteTaken
  <2>3. Len(s) = 0 \/ (Len(s) = 1 /\ outLeft > 0)
    BY ONLY s \in FetchNextCommandByte(H), FetchedByte, Zenon
  <2>4. outReceived' \in BOOLEAN  BY ONLY <2>1, <2>2, Zenon
  <2> QED  BY ONLY <2>1, <2>2, <2>3, <2>4, Sizes
<1> QED  BY <1>1, <1>2, Zenon

\* A byte left is in a packet that is there.
LEMMA OutGoes ==
  ASSUME PortTypes, Endpoints, NEW H,
         NextPacket \/ \E s \in FetchNextCommandByte(H) : ByteTaken(s)
  PROVE  outLeft' > 0 => outReceived'
<1>1. CASE NextPacket
  <2>1. outLeft' = 0  BY ONLY <1>1, Zenon DEF NextPacket, ClearOUT
  <2> QED  BY ONLY <2>1
<1>2. ASSUME NEW s \in FetchNextCommandByte(H), ByteTaken(s)
      PROVE  outLeft' > 0 => outReceived'
  <2>1. outLeft \in Nat /\ (outLeft > 0 => outReceived)  BY Sizes DEF PortTypes, Endpoints
  <2>2. outReceived' = outReceived /\ outLeft' = outLeft - Len(s)  BY <1>2, Zenon DEF ByteTaken
  <2>3. Len(s) = 0 \/ (Len(s) = 1 /\ outLeft > 0)
    BY ONLY s \in FetchNextCommandByte(H), FetchedByte, Zenon
  <2>4. outLeft' > 0 => outLeft > 0  BY ONLY <2>1, <2>2, <2>3
  <2> QED  BY ONLY <2>1, <2>2, <2>4, Zenon
<1> QED  BY <1>1, <1>2, Zenon

-----------------------------------------------------------------------------
(* Each step preserves each part of the invariant: one step per action.     *)

\* Every variable keeps its type.
LEMMA StepTypes ==
  ASSUME SafeInv, Next
  PROVE  Types'
<1>0. UNCHANGED session  BY Zenon DEF Next
<1>a. MemoryTypes /\ PortTypes /\ TaskTypes /\ HostTypes /\ SessionTypes  BY Zenon DEF SafeInv, Types
<1>m1. flash \in [Address -> Byte]  BY ONLY <1>a, Zenon DEF MemoryTypes
<1>m2. eeprom \in [0..(EepromSize - 1) -> Byte]  BY ONLY <1>a, Zenon DEF MemoryTypes
<1>m3. buffer \in [Words -> (Byte \X Byte) \cup {Empty}]  BY ONLY <1>a, Zenon DEF MemoryTypes
<1>m4. rww \in BOOLEAN  BY ONLY <1>a, Zenon DEF MemoryTypes
<1>m5. CurrAddress \in Nat /\ CurrAddress < AddressSpace /\ CurrAddress % 2 = 0
  BY ONLY <1>a, Zenon DEF MemoryTypes
<1>z. /\ FlashSize \in Nat /\ FlashSize < AddressSpace /\ FlashSize % 2 = 0
      /\ AddressSpace \in Nat /\ SPM_PAGESIZE \in Nat
  BY ONLY Sizes
<1>c. pc = "fetch" => Len(args) < 3
  <2>1. pc = "fetch" => Len(args) < Args(Command)  BY Zenon DEF SafeInv, Bytes
  <2>2. Len(args) \in Nat /\ Args(Command) \in 0..3  BY ONLY <1>a, Kinds DEF TaskTypes
  <2> QED  BY ONLY <2>1, <2>2
<1>w. pc = "block" => Writing  BY Zenon DEF SafeInv, Bytes
<1>s. pc = "exec" => Sensible(Command) /\ Len(args) = Args(Command) /\ Fetched
  BY Zenon DEF SafeInv, Bytes
<1>d. pc = "exec" /\ Command \in {"C", "c", "m", "R"} => CurrAddress < FlashSize
  BY ONLY <1>s DEF Sensible
<1>e. pc = "exec" /\ Command = "A" => args[1] \in uint8_t /\ args[2] \in uint8_t
  BY ONLY <1>s DEF Fetched, Args
<1>f. pc = "exec" /\ Command \in {"C", "c", "D"} => args[1] \in Byte
  BY ONLY <1>s DEF Fetched, Args
<1>g. pc = "exec" /\ Command \in {"BE", "gE", "D", "d"} => CurrAddress \div 2 < EepromSize
  BY ONLY <1>s DEF Sensible
<1>h. pc = "exec" /\ Command = "gF" => CurrAddress + SPM_PAGESIZE <= FlashSize
  BY ONLY <1>s DEF Sensible
<1>b. SessionTypes'  BY <1>0, <1>a DEF SessionTypes, session
<1>1. CASE main
  <2>1. MemoryTypes'
    BY ONLY <1>1, <1>a, Sizes, EmptyBufferType
    DEF main, NoTask, MemoryTypes, memory
  <2>2. PortTypes'
    <3>1. /\ usb' = "Unattached" /\ outReceived' \in BOOLEAN /\ outLeft' = 0
          /\ inReady' = FALSE /\ inBank' = <<>>
      BY ONLY <1>1, Zenon DEF main
    <3>2. inReady' \in BOOLEAN  BY ONLY <3>1, Zenon
    <3>3. usb' = "Unattached" /\ outReceived' \in BOOLEAN /\ outLeft' = 0 /\ inBank' = <<>>
      BY ONLY <3>1, Zenon
    <3> QED  BY ONLY <3>2, <3>3, Sizes DEF PortTypes
  <2>3. TaskTypes'
    <3>1. finished' = FALSE /\ pc' \in {"poll", "app"} /\ NoTask  BY ONLY <1>1, Zenon DEF main
    <3>2. finished' \in BOOLEAN /\ pc' \in {"poll", "app"}  BY ONLY <3>1, Zenon
    <3> QED  BY ONLY <3>1, <3>2, Sizes, Kinds DEF TaskTypes, NoTask
  <2>4. HostTypes'
    BY ONLY <1>1, <1>a, Sizes, Kinds
    DEF main, NoTask, HostTypes, host
  <2> QED  BY ONLY <1>b, <2>1, <2>2, <2>3, <2>4, Zenon DEF Types
<1>2. CASE Reset
  <2>1. MemoryTypes'
    BY ONLY <1>2, <1>a
    DEF Reset, MemoryTypes, memory
  <2>2. PortTypes'
    BY ONLY <1>2, <1>a
    DEF Reset, PortTypes, out, in
  <2>3. TaskTypes'
    BY ONLY <1>2, <1>a
    DEF Reset, TaskTypes, task
  <2>4. HostTypes'
    BY ONLY <1>2, <1>a
    DEF Reset, HostTypes, host
  <2> QED  BY ONLY <1>b, <2>1, <2>2, <2>3, <2>4, Zenon DEF Types
<1>3. CASE USB_USBTask
  <2>1. MemoryTypes'
    BY ONLY <1>3, <1>a
    DEF USB_USBTask, MemoryTypes, memory
  <2>2. PortTypes'
    <3>1. CASE UNCHANGED <<usb, out, in>>  BY ONLY <3>1, <1>a DEF PortTypes, out, in
    <3>2. CASE ~UNCHANGED <<usb, out, in>>
      <4>1. /\ usb' = "Configured" /\ outReceived' = FALSE /\ outLeft' = 0
            /\ inReady' = TRUE /\ inBank' = <<>>
        BY ONLY <1>3, <3>2, Zenon DEF USB_USBTask
      <4>2. outReceived' \in BOOLEAN /\ inReady' \in BOOLEAN  BY ONLY <4>1, Zenon
      <4>3. usb' = "Configured" /\ outLeft' = 0 /\ inBank' = <<>>  BY ONLY <4>1, Zenon
      <4> QED  BY ONLY <4>2, <4>3, Sizes DEF PortTypes
    <3> QED  BY ONLY <3>1, <3>2, Zenon
  <2>3. TaskTypes'
    BY ONLY <1>3, <1>a
    DEF USB_USBTask, TaskTypes, task
  <2>4. HostTypes'
    BY ONLY <1>3, <1>a
    DEF USB_USBTask, HostTypes, host
  <2> QED  BY ONLY <1>b, <2>1, <2>2, <2>3, <2>4, Zenon DEF Types
<1>4. CASE Poll
  <2>1. MemoryTypes'
    BY ONLY <1>4, <1>a
    DEF Poll, MemoryTypes, memory
  <2>2. PortTypes'
    BY ONLY <1>4, <1>a
    DEF Poll, PortTypes, out, in
  <2>3. TaskTypes'
    BY ONLY <1>4, <1>a
    DEF Poll, TaskTypes, task
  <2>4. HostTypes'
    BY ONLY <1>4, <1>a
    DEF Poll, HostTypes, host
  <2> QED  BY ONLY <1>b, <2>1, <2>2, <2>3, <2>4, Zenon DEF Types
<1>5. CASE FetchCommand
  <2>1. MemoryTypes'
    BY ONLY <1>5, <1>a
    DEF FetchCommand, NextPacket, ClearOUT, ByteTaken, MemoryTypes, memory
  <2>2. PortTypes'
    <3>1. usb' = usb /\ inReady' = inReady /\ inBank' = inBank  BY ONLY <1>5 DEF FetchCommand, in
    <3>2. NextPacket \/ \E s \in FetchNextCommandByte({asked}) : ByteTaken(s)
      BY ONLY <1>5, Zenon DEF FetchCommand
    <3>3. outReceived' \in BOOLEAN /\ outLeft' \in 0..EpSize  BY ONLY <3>2, <1>a, OutTypes, Zenon
    <3> QED  BY ONLY <3>1, <3>3, <1>a DEF PortTypes
  <2>3. TaskTypes'
    <3>0. finished' = finished  BY ONLY <1>5, Zenon DEF FetchCommand
    <3>1. CASE NextPacket
      BY ONLY <3>0, <3>1, <1>a DEF NextPacket, task, TaskTypes
    <3>2. ASSUME NEW s \in FetchNextCommandByte({asked}),
                 /\ Command' = (IF s = <<>> THEN "?" ELSE s[1])
                 /\ args' = <<>> /\ left' = 0 /\ replies' = <<>>
                 /\ pc' = (IF Args(Command') = 0 THEN "exec" ELSE "fetch")
          PROVE  TaskTypes'
      <4>1. s = <<>> \/ s[1] \in {asked}  BY ONLY <3>2, FetchedByte, Zenon
      <4>2. asked \in Letters /\ "?" \in Letters  BY ONLY <1>a, Kinds DEF HostTypes
      <4>3. Command' \in Letters  BY ONLY <3>2, <4>1, <4>2, Zenon
      <4>4. pc' \in {"exec", "fetch"}  BY ONLY <3>2, Zenon
      <4>5. args' = <<>> /\ left' = 0 /\ replies' = <<>>  BY ONLY <3>2, Zenon
      <4> QED  BY ONLY <3>0, <4>3, <4>4, <4>5, <1>a, Sizes DEF TaskTypes
    <3> QED  BY ONLY <1>5, <3>1, <3>2, Zenon DEF FetchCommand
  <2>4. HostTypes'
    BY ONLY <1>5, <1>a
    DEF FetchCommand, NextPacket, ClearOUT, ByteTaken, HostTypes, host
  <2> QED  BY ONLY <1>b, <2>1, <2>2, <2>3, <2>4, Zenon DEF Types
<1>6. CASE FetchArgs
  <2>1. MemoryTypes'
    BY ONLY <1>6, <1>a
    DEF FetchArgs, NextPacket, ClearOUT, ByteTaken, MemoryTypes, memory
  <2>2. PortTypes'
    <3>1. usb' = usb /\ inReady' = inReady /\ inBank' = inBank  BY ONLY <1>6 DEF FetchArgs, in
    <3>2. NextPacket \/ \E s \in FetchNextCommandByte(ArgBytes) : ByteTaken(s)
      BY ONLY <1>6, Zenon DEF FetchArgs
    <3>3. outReceived' \in BOOLEAN /\ outLeft' \in 0..EpSize  BY ONLY <3>2, <1>a, OutTypes, Zenon
    <3> QED  BY ONLY <3>1, <3>3, <1>a DEF PortTypes
  <2>3. TaskTypes'
    <3>0. finished' = finished  BY ONLY <1>6, Zenon DEF FetchArgs
    <3>1. CASE NextPacket
      BY ONLY <3>0, <3>1, <1>a DEF NextPacket, task, TaskTypes
    <3>2. ASSUME NEW s \in FetchNextCommandByte(ArgBytes),
                 /\ args' = Append(args, ByteOr0(s))
                 /\ pc' = (IF Len(args') = Args(Command) THEN "exec" ELSE "fetch")
                 /\ UNCHANGED <<memory, Command, left, replies>>
          PROVE  TaskTypes'
      <4>1. ByteOr0(s) \in ArgBytes \/ ByteOr0(s) = 0
        <5>1. ByteOr0(s) = 0 \/ (ByteOr0(s) = s[1] /\ s[1] \in ArgBytes)
          BY ONLY <3>2, FetchedByte, Zenon
        <5> QED  BY ONLY <5>1, Zenon
      <4>2. ByteOr0(s) \in Nat  BY ONLY <4>1, <1>a, ArgTypes, Kinds
      <4>3. args \in Seq(Nat) /\ Len(args) < 3
        BY ONLY <1>a, <1>c, <1>6 DEF TaskTypes, FetchArgs
      <4>4. args' \in Seq(Nat) /\ Len(args') <= 3
        BY ONLY <3>2, <4>2, <4>3
      <4>5. pc' \in {"exec", "fetch"}  BY ONLY <3>2, Zenon
      <4>6. Command' = Command /\ left' = left /\ replies' = replies  BY ONLY <3>2
      <4> QED  BY ONLY <3>0, <4>4, <4>5, <4>6, <1>a DEF TaskTypes
    <3> QED  BY ONLY <1>6, <3>1, <3>2, Zenon DEF FetchArgs
  <2>4. HostTypes'
    <3>0. asked' = asked /\ toSend' = toSend /\ heard' = heard  BY ONLY <1>6 DEF FetchArgs
    <3>1. CASE NextPacket
      BY ONLY <3>0, <3>1, <1>a DEF NextPacket, HostTypes
    <3>2. ASSUME NEW s \in FetchNextCommandByte(ArgBytes), sent' = sent \o s
          PROVE  HostTypes'
      <4>1. ArgBytes \subseteq Nat  BY ONLY <1>a, ArgTypes, Kinds DEF SessionTypes
      <4>2. s = <<>> \/ (s = <<s[1]>> /\ s[1] \in ArgBytes)  BY ONLY <3>2, FetchedByte, Zenon
      <4>3. s \in Seq(Nat)
        <5>1. CASE s = <<>>  BY ONLY <5>1
        <5>2. ASSUME s[1] \in Nat, s = <<s[1]>> PROVE s \in Seq(Nat)
          <6> DEFINE b == s[1]
          <6>1. b \in Nat /\ s = <<b>>  BY ONLY <5>2
          <6> HIDE DEF b
          <6> QED  BY ONLY <6>1
        <5> QED  BY ONLY <4>1, <4>2, <5>1, <5>2, Zenon
      <4>4. sent \in Seq(Nat)  BY ONLY <1>a DEF HostTypes
      <4>5. sent' \in Seq(Nat)  BY ONLY <3>2, <4>3, <4>4
      <4> QED  BY ONLY <3>0, <4>5, <1>a DEF HostTypes
    <3> QED  BY ONLY <1>6, <3>1, <3>2, Zenon DEF FetchArgs
  <2> QED  BY ONLY <1>b, <2>1, <2>2, <2>3, <2>4, Zenon DEF Types
<1>7. CASE pc = "exec" /\ ExecReport /\ UNCHANGED <<usb, out, in, host>>
  <2>1. MemoryTypes'
    BY ONLY <1>7, <1>a
    DEF ExecReport, Reply, Constants, MemoryTypes, memory
  <2>2. PortTypes'
    BY ONLY <1>7, <1>a
    DEF ExecReport, Reply, Constants, PortTypes, out, in
  <2>3. TaskTypes'
    <3>1. replies' \in Seq(Nat)
      <4>1. <<CR>> \in Seq(Nat) /\ <<>> \in Seq(Nat)  BY DEF CR
      <4>2. Constants(1) \in Seq(Nat) /\ Constants(2) \in Seq(Nat) /\ Constants(3) \in Seq(Nat)
        BY DEF CR, Constants
      <4>3. ASSUME Command = "R", NEW lo \in Read(CurrAddress), NEW hi \in Read(CurrAddress + 1),
                   replies' = <<hi, lo>>
            PROVE  replies' \in Seq(Nat)
        <5>1. CurrAddress \in Address /\ CurrAddress + 1 \in Address
          <6>1. CurrAddress < FlashSize  BY <4>3, <1>7, <1>d, Zenon
          <6> QED  BY ONLY <6>1, <1>m5, Sizes DEF Address
        <5>2. lo \in Byte /\ hi \in Byte  BY ONLY <4>3, <5>1, <1>m1 DEF Read
        <5>3. lo \in Nat /\ hi \in Nat  BY ONLY <5>2, Kinds
        <5> QED  BY ONLY <4>3, <5>3
      <4> QED  BY ONLY <1>7, <4>1, <4>2, <4>3, Zenon DEF ExecReport, Reply
    <3>2. pc' = "reply" /\ UNCHANGED <<Command, args, left>>
      BY ONLY <1>7, Zenon DEF ExecReport, Reply
    <3>3. Command' = Command /\ args' = args /\ left' = left  BY ONLY <3>2
    <3>4. finished' = finished  BY ONLY <1>7 DEF ExecReport
    <3> QED  BY ONLY <3>1, <3>2, <3>3, <3>4, <1>a DEF TaskTypes
  <2>4. HostTypes'
    BY ONLY <1>7, <1>a
    DEF ExecReport, Reply, Constants, HostTypes, host
  <2> QED  BY ONLY <1>b, <2>1, <2>2, <2>3, <2>4, Zenon DEF Types
<1>8. CASE pc = "exec" /\ ExecExit /\ UNCHANGED <<usb, out, in, host>>
  <2>1. MemoryTypes'
    BY ONLY <1>8, <1>a
    DEF ExecExit, Reply, MemoryTypes, memory
  <2>2. PortTypes'
    BY ONLY <1>8, <1>a
    DEF ExecExit, Reply, PortTypes, out, in
  <2>3. TaskTypes'
    <3>1. replies' \in Seq(Nat)
      BY ONLY <1>8 DEF ExecExit, Reply, CR
    <3>2. pc' = "reply" /\ Command' = Command /\ args' = args /\ left' = left
      BY ONLY <1>8 DEF ExecExit, Reply
    <3>3. finished' \in BOOLEAN  BY ONLY <1>8, <1>a DEF ExecExit, Reply, TaskTypes
    <3> QED  BY ONLY <3>1, <3>2, <3>3, <1>a DEF TaskTypes
  <2>4. HostTypes'
    BY ONLY <1>8, <1>a
    DEF ExecExit, Reply, HostTypes, host
  <2> QED  BY ONLY <1>b, <2>1, <2>2, <2>3, <2>4, Zenon DEF Types
<1>9. CASE pc = "exec" /\ ExecAddress /\ UNCHANGED <<usb, out, in, host>>
  <2>1. MemoryTypes'
    <3>1. flash' \in [Address -> Byte]
      <4>1. flash' = flash  BY ONLY <1>9 DEF ExecAddress, Reply, memory
      <4> QED  BY ONLY <4>1, <1>m1, Zenon
    <3>2. eeprom' \in [0..(EepromSize - 1) -> Byte]
      <4>1. eeprom' = eeprom  BY ONLY <1>9 DEF ExecAddress, Reply, memory
      <4> QED  BY ONLY <4>1, <1>m2, Zenon
    <3>3. buffer' \in [Words -> (Byte \X Byte) \cup {Empty}]
      <4>1. buffer' = buffer  BY ONLY <1>9 DEF ExecAddress, Reply, memory
      <4> QED  BY ONLY <4>1, <1>m3, Zenon
    <3>4. rww' \in BOOLEAN
      <4>1. rww' = rww  BY ONLY <1>9 DEF ExecAddress, Reply, memory
      <4> QED  BY ONLY <4>1, <1>m4, Zenon
    <3>5. CurrAddress' \in Nat /\ CurrAddress' < AddressSpace /\ CurrAddress' % 2 = 0
      <4>1. args[1] \in uint8_t /\ args[2] \in uint8_t  BY <1>9, <1>e, Zenon DEF ExecAddress
      <4>2. CurrAddress' = AddressOf(args[1], args[2])  BY ONLY <1>9, Zenon DEF ExecAddress
      <4>3. /\ AddressOf(args[1], args[2]) \in Nat /\ AddressOf(args[1], args[2]) < AddressSpace
            /\ AddressOf(args[1], args[2]) % 2 = 0
        BY ONLY <4>1, Addressed, Zenon
      <4> QED  BY ONLY <4>2, <4>3, Zenon
    <3> QED  BY ONLY <3>1, <3>2, <3>3, <3>4, <3>5, Zenon DEF MemoryTypes
  <2>2. PortTypes'
    BY ONLY <1>9, <1>a
    DEF ExecAddress, Reply, PortTypes, out, in
  <2>3. TaskTypes'
    <3>1. replies' \in Seq(Nat)
      BY ONLY <1>9 DEF ExecAddress, Reply, CR
    <3>2. pc' = "reply" /\ Command' = Command /\ args' = args /\ left' = left
      BY ONLY <1>9 DEF ExecAddress, Reply
    <3>3. finished' \in BOOLEAN  BY ONLY <1>9, <1>a DEF ExecAddress, Reply, TaskTypes
    <3> QED  BY ONLY <3>1, <3>2, <3>3, <1>a DEF TaskTypes
  <2>4. HostTypes'
    BY ONLY <1>9, <1>a
    DEF ExecAddress, Reply, HostTypes, host
  <2> QED  BY ONLY <1>b, <2>1, <2>2, <2>3, <2>4, Zenon DEF Types
<1>10. CASE pc = "exec" /\ ExecErase /\ UNCHANGED <<usb, out, in, host>>
  <2>1. MemoryTypes'
    <3>1. flash' \in [Address -> Byte]
      <4>1. [a \in Address |-> 255] \in [Address -> Byte]  BY ONLY Kinds
      <4>2. flash' = boot_page_write([a \in Address |-> 255], 0)  BY ONLY <1>10, Zenon DEF ExecErase
      <4> QED  BY ONLY <4>1, <4>2, <1>m3, PageTypes, Zenon
    <3>2. eeprom' \in [0..(EepromSize - 1) -> Byte]
      <4>1. eeprom' = eeprom  BY ONLY <1>10 DEF ExecErase, Reply, memory
      <4> QED  BY ONLY <4>1, <1>m2, Zenon
    <3>3. buffer' \in [Words -> (Byte \X Byte) \cup {Empty}]
      <4>1. buffer' = EmptyBuffer  BY ONLY <1>10, Zenon DEF ExecErase, Reply
      <4> QED  BY ONLY <4>1, EmptyBufferType, Zenon
    <3>4. rww' \in BOOLEAN
      <4>1. rww' = FALSE  BY ONLY <1>10, Zenon DEF ExecErase, Reply
      <4> QED  BY ONLY <4>1, Zenon
    <3>5. CurrAddress' \in Nat /\ CurrAddress' < AddressSpace /\ CurrAddress' % 2 = 0
      <4>1. CurrAddress' = CurrAddress  BY ONLY <1>10 DEF ExecErase, Reply, memory
      <4> QED  BY ONLY <4>1, <1>m5, Zenon
    <3> QED  BY ONLY <3>1, <3>2, <3>3, <3>4, <3>5, Zenon DEF MemoryTypes
  <2>2. PortTypes'
    BY ONLY <1>10, <1>a
    DEF ExecErase, Reply, PortTypes, out, in
  <2>3. TaskTypes'
    <3>1. replies' \in Seq(Nat)
      BY ONLY <1>10 DEF ExecErase, Reply, CR
    <3>2. pc' = "reply" /\ Command' = Command /\ args' = args /\ left' = left
      BY ONLY <1>10 DEF ExecErase, Reply
    <3>3. finished' \in BOOLEAN  BY ONLY <1>10, <1>a DEF ExecErase, Reply, TaskTypes
    <3> QED  BY ONLY <3>1, <3>2, <3>3, <1>a DEF TaskTypes
  <2>4. HostTypes'
    BY ONLY <1>10, <1>a
    DEF ExecErase, Reply, HostTypes, host
  <2> QED  BY ONLY <1>b, <2>1, <2>2, <2>3, <2>4, Zenon DEF Types
<1>11. CASE pc = "exec" /\ ExecFill /\ UNCHANGED <<usb, out, in, host>>
  <2>1. MemoryTypes'
    <3>1. flash' \in [Address -> Byte]
      <4>1. flash' = flash  BY ONLY <1>11 DEF ExecFill, Reply, memory
      <4> QED  BY ONLY <4>1, <1>m1, Zenon
    <3>2. eeprom' \in [0..(EepromSize - 1) -> Byte]
      <4>1. eeprom' = eeprom  BY ONLY <1>11 DEF ExecFill, Reply, memory
      <4> QED  BY ONLY <4>1, <1>m2, Zenon
    <3>3. buffer' \in [Words -> (Byte \X Byte) \cup {Empty}]
      <4>1. args[1] \in Byte  BY <1>11, <1>f, Zenon DEF ExecFill
      <4>2. <<args[1], 0>> \in Byte \X Byte  BY ONLY <4>1, Kinds
      <4>3. boot_page_fill(CurrAddress, <<args[1], 0>>)  BY ONLY <1>11, Zenon DEF ExecFill
      <4> QED  BY ONLY <4>2, <4>3, <1>m3, FillType, Zenon
    <3>4. rww' \in BOOLEAN
      <4>1. rww' = rww  BY ONLY <1>11 DEF ExecFill, Reply, memory
      <4> QED  BY ONLY <4>1, <1>m4, Zenon
    <3>5. CurrAddress' \in Nat /\ CurrAddress' < AddressSpace /\ CurrAddress' % 2 = 0
      <4>1. CurrAddress < FlashSize  BY <1>11, <1>d, Zenon DEF ExecFill
      <4>2. CurrAddress' \in {CurrAddress, CurrAddress + 2}  BY ONLY <1>11 DEF ExecFill
      <4>3. CurrAddress + 2 <= FlashSize  BY ONLY <4>1, <1>m5, <1>z
      <4>4. /\ CurrAddress + 2 \in Nat /\ CurrAddress + 2 < AddressSpace
            /\ (CurrAddress + 2) % 2 = 0
        BY ONLY <4>3, <1>m5, <1>z
      <4> QED  BY ONLY <4>2, <4>4, <1>m5, Zenon
    <3> QED  BY ONLY <3>1, <3>2, <3>3, <3>4, <3>5, Zenon DEF MemoryTypes
  <2>2. PortTypes'
    BY ONLY <1>11, <1>a
    DEF ExecFill, Reply, PortTypes, out, in
  <2>3. TaskTypes'
    <3>1. replies' \in Seq(Nat)
      BY ONLY <1>11 DEF ExecFill, Reply, CR
    <3>2. pc' = "reply" /\ Command' = Command /\ args' = args /\ left' = left
      BY ONLY <1>11 DEF ExecFill, Reply
    <3>3. finished' \in BOOLEAN  BY ONLY <1>11, <1>a DEF ExecFill, Reply, TaskTypes
    <3> QED  BY ONLY <3>1, <3>2, <3>3, <1>a DEF TaskTypes
  <2>4. HostTypes'
    BY ONLY <1>11, <1>a
    DEF ExecFill, Reply, HostTypes, host
  <2> QED  BY ONLY <1>b, <2>1, <2>2, <2>3, <2>4, Zenon DEF Types
<1>12. CASE pc = "exec" /\ ExecCommitPage /\ UNCHANGED <<usb, out, in, host>>
  <2>1. MemoryTypes'
    <3>1. flash' \in [Address -> Byte]
      <4>1. flash' = boot_page_write(flash, CurrAddress)  BY ONLY <1>12, Zenon DEF ExecCommitPage
      <4> QED  BY ONLY <4>1, <1>m1, <1>m3, PageTypes, Zenon
    <3>2. eeprom' \in [0..(EepromSize - 1) -> Byte]
      <4>1. eeprom' = eeprom  BY ONLY <1>12 DEF ExecCommitPage, Reply, memory
      <4> QED  BY ONLY <4>1, <1>m2, Zenon
    <3>3. buffer' \in [Words -> (Byte \X Byte) \cup {Empty}]
      <4>1. buffer' = EmptyBuffer  BY ONLY <1>12, Zenon DEF ExecCommitPage, Reply
      <4> QED  BY ONLY <4>1, EmptyBufferType, Zenon
    <3>4. rww' \in BOOLEAN
      <4>1. rww' = FALSE  BY ONLY <1>12, Zenon DEF ExecCommitPage, Reply
      <4> QED  BY ONLY <4>1, Zenon
    <3>5. CurrAddress' \in Nat /\ CurrAddress' < AddressSpace /\ CurrAddress' % 2 = 0
      <4>1. CurrAddress' = CurrAddress  BY ONLY <1>12 DEF ExecCommitPage, Reply, memory
      <4> QED  BY ONLY <4>1, <1>m5, Zenon
    <3> QED  BY ONLY <3>1, <3>2, <3>3, <3>4, <3>5, Zenon DEF MemoryTypes
  <2>2. PortTypes'
    BY ONLY <1>12, <1>a
    DEF ExecCommitPage, Reply, PortTypes, out, in
  <2>3. TaskTypes'
    <3>1. replies' \in Seq(Nat)
      BY ONLY <1>12 DEF ExecCommitPage, Reply, CR
    <3>2. pc' = "reply" /\ Command' = Command /\ args' = args /\ left' = left
      BY ONLY <1>12 DEF ExecCommitPage, Reply
    <3>3. finished' \in BOOLEAN  BY ONLY <1>12, <1>a DEF ExecCommitPage, Reply, TaskTypes
    <3> QED  BY ONLY <3>1, <3>2, <3>3, <1>a DEF TaskTypes
  <2>4. HostTypes'
    BY ONLY <1>12, <1>a
    DEF ExecCommitPage, Reply, HostTypes, host
  <2> QED  BY ONLY <1>b, <2>1, <2>2, <2>3, <2>4, Zenon DEF Types
<1>13. CASE pc = "exec" /\ ExecEeprom /\ UNCHANGED <<usb, out, in, host>>
  <2>1. MemoryTypes'
    <3>1. flash' \in [Address -> Byte]
      <4>1. flash' = flash  BY ONLY <1>13 DEF ExecEeprom, Reply, memory
      <4> QED  BY ONLY <4>1, <1>m1, Zenon
    <3>2. eeprom' \in [0..(EepromSize - 1) -> Byte]
      <4>1. CASE Command = "D"
        <5>1. args[1] \in Byte  BY <1>13, <4>1, <1>f, Zenon
        <5>2. eeprom' = [eeprom EXCEPT ![CurrAddress \div 2] = args[1]]
          BY ONLY <1>13, <4>1 DEF ExecEeprom
        <5> QED  BY ONLY <5>1, <5>2, <1>m2
      <4>2. CASE Command # "D"
        <5>1. eeprom' = eeprom  BY ONLY <1>13, <4>2, Zenon DEF ExecEeprom
        <5> QED  BY ONLY <5>1, <1>m2, Zenon
      <4> QED  BY ONLY <4>1, <4>2, Zenon
    <3>3. buffer' \in [Words -> (Byte \X Byte) \cup {Empty}]
      <4>1. buffer' = buffer  BY ONLY <1>13 DEF ExecEeprom, Reply, memory
      <4> QED  BY ONLY <4>1, <1>m3, Zenon
    <3>4. rww' \in BOOLEAN
      <4>1. rww' = rww  BY ONLY <1>13 DEF ExecEeprom, Reply, memory
      <4> QED  BY ONLY <4>1, <1>m4, Zenon
    <3>5. CurrAddress' \in Nat /\ CurrAddress' < AddressSpace /\ CurrAddress' % 2 = 0
      <4>1. CurrAddress \div 2 < EepromSize  BY <1>13, <1>g, Zenon DEF ExecEeprom
      <4>2. CurrAddress' = CurrAddress + 2  BY ONLY <1>13, Zenon DEF ExecEeprom
      <4> QED  BY ONLY <4>1, <4>2, <1>m5, Sizes
    <3> QED  BY ONLY <3>1, <3>2, <3>3, <3>4, <3>5, Zenon DEF MemoryTypes
  <2>2. PortTypes'
    BY ONLY <1>13, <1>a
    DEF ExecEeprom, Reply, PortTypes, out, in
  <2>3. TaskTypes'
    <3>1. replies' \in Seq(Nat)
      <4>1. CurrAddress \div 2 < EepromSize  BY <1>13, <1>g, Zenon DEF ExecEeprom
      <4>2. eeprom[CurrAddress \div 2] \in Byte  BY ONLY <4>1, <1>m2, <1>m5, Sizes
      <4>3. eeprom[CurrAddress \div 2] \in Nat  BY ONLY <4>2, Kinds
      <4>4. replies' = <<CR>> \/ replies' = <<eeprom[CurrAddress \div 2]>>
        BY ONLY <1>13, Zenon DEF ExecEeprom, Reply
      <4>5. <<eeprom[CurrAddress \div 2]>> \in Seq(Nat)  BY ONLY <4>3
      <4> QED  BY ONLY <4>4, <4>5, CRType, Zenon
    <3>2. pc' = "reply" /\ UNCHANGED <<Command, args, left>>
      BY ONLY <1>13, Zenon DEF ExecEeprom, Reply
    <3>3. Command' = Command /\ args' = args /\ left' = left  BY ONLY <3>2
    <3>4. finished' = finished  BY ONLY <1>13 DEF ExecEeprom
    <3> QED  BY ONLY <3>1, <3>2, <3>3, <3>4, <1>a DEF TaskTypes
  <2>4. HostTypes'
    BY ONLY <1>13, <1>a
    DEF ExecEeprom, Reply, HostTypes, host
  <2> QED  BY ONLY <1>b, <2>1, <2>2, <2>3, <2>4, Zenon DEF Types
<1>14. CASE pc = "exec" /\ ExecReadBlock /\ UNCHANGED <<usb, out, in, host>>
  <2>1. MemoryTypes'
    <3>1. flash' \in [Address -> Byte]
      <4>1. flash' = flash  BY ONLY <1>14 DEF ExecReadBlock, Reply, memory
      <4> QED  BY ONLY <4>1, <1>m1, Zenon
    <3>2. eeprom' \in [0..(EepromSize - 1) -> Byte]
      <4>1. eeprom' = eeprom  BY ONLY <1>14 DEF ExecReadBlock, Reply, memory
      <4> QED  BY ONLY <4>1, <1>m2, Zenon
    <3>3. buffer' \in [Words -> (Byte \X Byte) \cup {Empty}]
      <4>1. buffer' = buffer  BY ONLY <1>14 DEF ExecReadBlock, Reply, memory
      <4> QED  BY ONLY <4>1, <1>m3, Zenon
    <3>4. rww' \in BOOLEAN
      <4>1. rww' = TRUE  BY ONLY <1>14, Zenon DEF ExecReadBlock, Reply
      <4> QED  BY ONLY <4>1, Zenon
    <3>5. CurrAddress' \in Nat /\ CurrAddress' < AddressSpace /\ CurrAddress' % 2 = 0
      <4>1. CASE Command = "gF"
        <5>1. CurrAddress + SPM_PAGESIZE <= FlashSize  BY <1>14, <4>1, <1>h, Zenon
        <5>2. CurrAddress' = CurrAddress + SPM_PAGESIZE  BY ONLY <1>14, <4>1 DEF ExecReadBlock
        <5> QED  BY ONLY <5>1, <5>2, <1>m5, Sizes
      <4>2. CASE Command # "gF"
        <5>1. Command = "gE" /\ CurrAddress' = CurrAddress + 2
          BY ONLY <1>14, <4>2, Zenon DEF ExecReadBlock
        <5>2. CurrAddress \div 2 < EepromSize  BY <1>14, <5>1, <1>g, Zenon
        <5> QED  BY ONLY <5>1, <5>2, <1>m5, Sizes
      <4> QED  BY ONLY <4>1, <4>2, Zenon
    <3> QED  BY ONLY <3>1, <3>2, <3>3, <3>4, <3>5, Zenon DEF MemoryTypes
  <2>2. PortTypes'
    BY ONLY <1>14, <1>a
    DEF ExecReadBlock, Reply, PortTypes, out, in
  <2>3. TaskTypes'
    <3>1. replies' \in Seq(Nat)
      <4>1. CASE Command = "gF"
        <5>1. CurrAddress + SPM_PAGESIZE <= FlashSize  BY <1>14, <4>1, <1>h, Zenon
        <5>2. replies' = [i \in 1..SPM_PAGESIZE |-> flash[CurrAddress + i - 1]]
          BY ONLY <1>14, <4>1 DEF ExecReadBlock, Reply
        <5>3. \A i \in 1..SPM_PAGESIZE : CurrAddress + i - 1 \in Address
          BY ONLY <5>1, <1>m5, Sizes DEF Address
        <5>4. \A i \in 1..SPM_PAGESIZE : flash[CurrAddress + i - 1] \in Nat
          BY ONLY <5>3, <1>m1, Kinds
        <5> QED  BY ONLY <5>2, <5>4, Sizes
      <4>2. CASE Command # "gF"
        <5>1. Command = "gE" /\ replies' = <<eeprom[CurrAddress \div 2]>>
          BY ONLY <1>14, <4>2, Zenon DEF ExecReadBlock, Reply
        <5>2. CurrAddress \div 2 < EepromSize  BY <1>14, <5>1, <1>g, Zenon
        <5>3. eeprom[CurrAddress \div 2] \in Byte  BY ONLY <5>2, <1>m2, <1>m5, Sizes
        <5>4. eeprom[CurrAddress \div 2] \in Nat  BY ONLY <5>3, Kinds
        <5> QED  BY ONLY <5>1, <5>4
      <4> QED  BY ONLY <4>1, <4>2, Zenon
    <3>2. pc' = "reply" /\ UNCHANGED <<Command, args, left>>
      BY ONLY <1>14, Zenon DEF ExecReadBlock, Reply
    <3>3. Command' = Command /\ args' = args /\ left' = left  BY ONLY <3>2
    <3>4. finished' = finished  BY ONLY <1>14 DEF ExecReadBlock
    <3> QED  BY ONLY <3>1, <3>2, <3>3, <3>4, <1>a DEF TaskTypes
  <2>4. HostTypes'
    BY ONLY <1>14, <1>a
    DEF ExecReadBlock, Reply, HostTypes, host
  <2> QED  BY ONLY <1>b, <2>1, <2>2, <2>3, <2>4, Zenon DEF Types
<1>15. CASE pc = "exec" /\ ExecWriteBlock /\ UNCHANGED <<usb, out, in, host>>
  <2>1. MemoryTypes'
    <3>1. flash' \in [Address -> Byte]
      <4>1. flash' = boot_page_erase(flash, CurrAddress) \/ flash' = flash
        BY ONLY <1>15 DEF ExecWriteBlock
      <4> QED  BY ONLY <4>1, <1>m1, <1>m3, PageTypes, Zenon
    <3>2. eeprom' \in [0..(EepromSize - 1) -> Byte]
      <4>1. eeprom' = eeprom  BY ONLY <1>15 DEF ExecWriteBlock, memory
      <4> QED  BY ONLY <4>1, <1>m2, Zenon
    <3>3. buffer' \in [Words -> (Byte \X Byte) \cup {Empty}]
      <4>1. buffer' = buffer  BY ONLY <1>15 DEF ExecWriteBlock, memory
      <4> QED  BY ONLY <4>1, <1>m3, Zenon
    <3>4. rww' \in BOOLEAN
      <4>1. rww' = (rww /\ Command = "BE")  BY ONLY <1>15, Zenon DEF ExecWriteBlock
      <4> QED  BY ONLY <4>1, Zenon
    <3>5. CurrAddress' \in Nat /\ CurrAddress' < AddressSpace /\ CurrAddress' % 2 = 0
      <4>1. CurrAddress' = CurrAddress  BY ONLY <1>15 DEF ExecWriteBlock, memory
      <4> QED  BY ONLY <4>1, <1>m5, Zenon
    <3> QED  BY ONLY <3>1, <3>2, <3>3, <3>4, <3>5, Zenon DEF MemoryTypes
  <2>2. PortTypes'
    BY ONLY <1>15, <1>a
    DEF ExecWriteBlock, PortTypes, out, in
  <2>3. TaskTypes'
    <3>1. args' = <<CurrAddress>> /\ left' = BlockSize(Command) /\ pc' = "block"
      BY ONLY <1>15, Zenon DEF ExecWriteBlock
    <3>2. finished' = finished /\ Command' = Command /\ replies' = replies
      BY ONLY <1>15 DEF ExecWriteBlock
    <3>3. left' \in 0..SPM_PAGESIZE  BY ONLY <3>1, Kinds
    <3>4. args' \in Seq(Nat) /\ Len(args') <= 3  BY ONLY <3>1, <1>m5
    <3>5. pc' = "block"  BY ONLY <3>1
    <3> QED  BY ONLY <3>2, <3>3, <3>4, <3>5, <1>a DEF TaskTypes
  <2>4. HostTypes'
    BY ONLY <1>15, <1>a
    DEF ExecWriteBlock, HostTypes, host
  <2> QED  BY ONLY <1>b, <2>1, <2>2, <2>3, <2>4, Zenon DEF Types
<1>16. CASE Block
  <2>1. MemoryTypes'
    <3>1. CASE NextPacket  BY ONLY <3>1, <1>a DEF NextPacket, MemoryTypes, memory
    <3>2. CASE ~NextPacket
      <4>1. PICK s \in FetchNextCommandByte(HostBytes) :
              /\ \/ /\ Command = "BE"
                    /\ eeprom' = [eeprom EXCEPT ![CurrAddress \div 2] = ByteOr0(s)]
                    /\ CurrAddress' = CurrAddress + 2 /\ buffer' = buffer
                 \/ eeprom' = eeprom /\ buffer' = buffer /\ CurrAddress' = CurrAddress
                 \/ /\ Command = "BF" /\ Len(args) = 2 /\ eeprom' = eeprom
                    /\ boot_page_fill(CurrAddress, <<args[2], ByteOr0(s)>>)
                    /\ CurrAddress' = CurrAddress + 2
              /\ flash' = flash /\ rww' = rww
        BY ONLY <1>16, <3>2 DEF Block
      <4>2. ByteOr0(s) \in Byte
        <5>1. ByteOr0(s) = 0 \/ (ByteOr0(s) = s[1] /\ s[1] \in HostBytes)
          BY ONLY s \in FetchNextCommandByte(HostBytes), FetchedByte, Zenon
        <5> QED  BY ONLY <5>1, <1>a, Kinds DEF SessionTypes
      <4>3. left > 0 /\ Writing  BY ONLY <1>16, <1>w, Zenon DEF Block
      <4>4. CASE Command = "BE"
        <5>1. CurrAddress \div 2 < EepromSize
          BY ONLY <4>3, <4>4, <1>a DEF Writing, BlockSize, TaskTypes
        <5>2. /\ CurrAddress + 2 \in Nat /\ CurrAddress + 2 < AddressSpace
              /\ (CurrAddress + 2) % 2 = 0
          BY ONLY <5>1, <1>m5, Sizes
        <5>3. eeprom' \in [0..(EepromSize - 1) -> Byte]
          BY ONLY <4>1, <4>2, <4>4, <1>m2
        <5>4. buffer' = buffer /\ CurrAddress' \in {CurrAddress, CurrAddress + 2}
          BY ONLY <4>1, <4>4
        <5>5. CurrAddress' \in Nat /\ CurrAddress' < AddressSpace /\ CurrAddress' % 2 = 0
          BY ONLY <5>2, <5>4, <1>m5, Zenon
        <5> QED  BY ONLY <4>1, <5>3, <5>4, <5>5, <1>a, Zenon DEF MemoryTypes
      <4>5. CASE Command # "BE" /\ CurrAddress' = CurrAddress + 2
        <5>1. /\ Command = "BF" /\ Len(args) = 2 /\ eeprom' = eeprom
              /\ boot_page_fill(CurrAddress, <<args[2], ByteOr0(s)>>)
          BY ONLY <4>1, <4>5, <1>m5
        <5>2. args[2] \in Byte /\ CurrAddress + 2 <= FlashSize
          <6>1. /\ args[2] \in Byte /\ args[1] + SPM_PAGESIZE <= FlashSize
                /\ CurrAddress + left + Len(args) = args[1] + SPM_PAGESIZE + 1
            BY ONLY <4>3, <5>1 DEF Writing
          <6>2. args[1] \in Nat /\ left \in Nat
            <7>1. args \in Seq(Nat) /\ left \in Nat  BY ONLY <1>a, <1>z DEF TaskTypes
            <7>2. 1 \in 1..Len(args)  BY ONLY <5>1
            <7> QED  BY ONLY <7>1, <7>2, ElementOfSeq
          <6>3. left > 0 /\ Len(args) = 2  BY ONLY <4>3, <5>1
          <6>4. CurrAddress + 2 <= FlashSize
            BY ONLY <6>1, <6>2, <6>3, <1>m5, <1>z
          <6> QED  BY ONLY <6>1, <6>4
        <5>3. buffer' \in [Words -> (Byte \X Byte) \cup {Empty}]
          <6>1. <<args[2], ByteOr0(s)>> \in Byte \X Byte  BY ONLY <4>2, <5>2
          <6> QED  BY ONLY <5>1, <6>1, <1>m3, FillType, Zenon
        <5>4. CurrAddress' \in Nat /\ CurrAddress' < AddressSpace /\ CurrAddress' % 2 = 0
          BY ONLY <4>5, <5>2, <1>m5, <1>z
        <5> QED  BY ONLY <4>1, <5>1, <5>3, <5>4, <1>a, Zenon DEF MemoryTypes
      <4>6. CASE Command # "BE" /\ CurrAddress' # CurrAddress + 2
        <5>1. eeprom' = eeprom /\ buffer' = buffer /\ CurrAddress' = CurrAddress
          BY ONLY <4>1, <4>6, Zenon
        <5> QED  BY ONLY <4>1, <5>1, <1>a DEF MemoryTypes
      <4> QED  BY ONLY <4>4, <4>5, <4>6, Zenon
    <3> QED  BY ONLY <3>1, <3>2, Zenon
  <2>2. PortTypes'
    <3>1. usb' = usb /\ inReady' = inReady /\ inBank' = inBank  BY ONLY <1>16 DEF Block, in
    <3>2. NextPacket \/ \E s \in FetchNextCommandByte(HostBytes) : ByteTaken(s)
      BY ONLY <1>16, Zenon DEF Block
    <3>3. outReceived' \in BOOLEAN /\ outLeft' \in 0..EpSize  BY ONLY <3>2, <1>a, OutTypes, Zenon
    <3> QED  BY ONLY <3>1, <3>3, <1>a DEF PortTypes
  <2>3. TaskTypes'
    <3>1. CASE NextPacket
      <4>1. finished' = finished  BY ONLY <1>16, Zenon DEF Block
      <4> QED  BY ONLY <3>1, <4>1, <1>a DEF NextPacket, TaskTypes, task
    <3>2. CASE ~NextPacket
      <4>1. PICK s \in FetchNextCommandByte(HostBytes) :
              /\ left' = left - 1
              /\ \/ args' = args
                 \/ Command = "BF" /\ Len(args) # 2 /\ args' = Append(args, ByteOr0(s))
                 \/ Len(args) = 2 /\ args' = <<args[1]>>
              /\ pc' = pc /\ Command' = Command /\ replies' = replies /\ finished' = finished
        BY ONLY <1>16, <3>2 DEF Block
      <4>2. ByteOr0(s) \in Nat
        <5>1. ByteOr0(s) = 0 \/ (ByteOr0(s) = s[1] /\ s[1] \in HostBytes)
          BY ONLY s \in FetchNextCommandByte(HostBytes), FetchedByte, Zenon
        <5> QED  BY ONLY <5>1, <1>a, Kinds DEF SessionTypes
      <4>3. left > 0 /\ Writing  BY ONLY <1>16, <1>w, Zenon DEF Block
      <4>4. left' \in 0..SPM_PAGESIZE  BY ONLY <4>1, <4>3, <1>a, Sizes DEF TaskTypes
      <4>5. args' \in Seq(Nat) /\ Len(args') <= 3
        <5>1. Len(args) \in {1, 2} /\ args \in Seq(Nat)
          BY ONLY <4>3, <1>a DEF TaskTypes, Writing
        <5>2. CASE args' = args  BY ONLY <1>a, <5>2, Zenon DEF TaskTypes
        <5>3. CASE args' = Append(args, ByteOr0(s))
          BY ONLY <4>2, <5>1, <5>3, AppendProperties
        <5>4. CASE args' = <<args[1]>>
          <6>1. args[1] \in Nat  BY ONLY <5>1
          <6> QED  BY ONLY <5>4, <6>1
        <5> QED  BY ONLY <4>1, <5>2, <5>3, <5>4, Zenon
      <4> QED  BY ONLY <4>1, <4>4, <4>5, <1>a DEF TaskTypes
    <3> QED  BY ONLY <3>1, <3>2, Zenon
  <2>4. HostTypes'
    <3>0. asked' = asked /\ toSend' = toSend /\ heard' = heard  BY ONLY <1>16 DEF Block
    <3>1. CASE NextPacket
      BY ONLY <3>0, <3>1, <1>a DEF NextPacket, HostTypes
    <3>2. ASSUME NEW s \in FetchNextCommandByte(HostBytes), sent' = sent \o s
          PROVE  HostTypes'
      <4>1. HostBytes \subseteq Nat  BY ONLY <1>a, ArgTypes, Kinds DEF SessionTypes
      <4>2. s = <<>> \/ (s = <<s[1]>> /\ s[1] \in HostBytes)  BY ONLY <3>2, FetchedByte, Zenon
      <4>3. s \in Seq(Nat)
        <5>1. CASE s = <<>>  BY ONLY <5>1
        <5>2. ASSUME s[1] \in Nat, s = <<s[1]>> PROVE s \in Seq(Nat)
          <6> DEFINE b == s[1]
          <6>1. b \in Nat /\ s = <<b>>  BY ONLY <5>2
          <6> HIDE DEF b
          <6> QED  BY ONLY <6>1
        <5> QED  BY ONLY <4>1, <4>2, <5>1, <5>2, Zenon
      <4>4. sent \in Seq(Nat)  BY ONLY <1>a DEF HostTypes
      <4>5. sent' \in Seq(Nat)  BY ONLY <3>2, <4>3, <4>4
      <4> QED  BY ONLY <3>0, <4>5, <1>a DEF HostTypes
    <3> QED  BY ONLY <1>16, <3>1, <3>2, Zenon DEF Block
  <2> QED  BY ONLY <1>b, <2>1, <2>2, <2>3, <2>4, Zenon DEF Types
<1>17. CASE BlockDone
  <2>1. MemoryTypes'
    <3>1. flash' \in [Address -> Byte]
      <4>1. flash' = boot_page_write(flash, args[1]) \/ flash' = flash
        BY ONLY <1>17 DEF BlockDone
      <4> QED  BY ONLY <4>1, <1>m1, <1>m3, PageTypes
    <3>2. eeprom' \in [0..(EepromSize - 1) -> Byte]
      <4>1. eeprom' = eeprom  BY ONLY <1>17 DEF BlockDone, Reply, memory
      <4> QED  BY ONLY <4>1, <1>m2, Zenon
    <3>3. buffer' \in [Words -> (Byte \X Byte) \cup {Empty}]
      <4>1. buffer' = EmptyBuffer \/ buffer' = buffer  BY ONLY <1>17 DEF BlockDone
      <4> QED  BY ONLY <4>1, <1>m3, EmptyBufferType, Zenon
    <3>4. rww' \in BOOLEAN
      <4>1. rww' = rww  BY ONLY <1>17 DEF BlockDone, Reply, memory
      <4> QED  BY ONLY <4>1, <1>m4, Zenon
    <3>5. CurrAddress' \in Nat /\ CurrAddress' < AddressSpace /\ CurrAddress' % 2 = 0
      <4>1. CurrAddress' = CurrAddress  BY ONLY <1>17 DEF BlockDone, Reply, memory
      <4> QED  BY ONLY <4>1, <1>m5, Zenon
    <3> QED  BY ONLY <3>1, <3>2, <3>3, <3>4, <3>5, Zenon DEF MemoryTypes
  <2>2. PortTypes'
    BY ONLY <1>17, <1>a
    DEF BlockDone, Reply, PortTypes, out, in
  <2>3. TaskTypes'
    <3>1. replies' \in Seq(Nat)
      BY ONLY <1>17 DEF BlockDone, Reply, CR
    <3>2. pc' = "reply" /\ Command' = Command /\ args' = args /\ left' = left
      BY ONLY <1>17 DEF BlockDone, Reply
    <3>3. finished' \in BOOLEAN  BY ONLY <1>17, <1>a DEF BlockDone, Reply, TaskTypes
    <3> QED  BY ONLY <3>1, <3>2, <3>3, <1>a DEF TaskTypes
  <2>4. HostTypes'
    BY ONLY <1>17, <1>a
    DEF BlockDone, Reply, HostTypes, host
  <2> QED  BY ONLY <1>b, <2>1, <2>2, <2>3, <2>4, Zenon DEF Types
<1>18. CASE WriteNextResponseByte
  <2>1. MemoryTypes'
    BY ONLY <1>18, <1>a
    DEF WriteNextResponseByte, ClearIN, IsReadWriteAllowed, MemoryTypes, memory
  <2>2. PortTypes'
    <3>1. usb' = usb /\ outReceived' = outReceived /\ outLeft' = outLeft
      BY ONLY <1>18 DEF WriteNextResponseByte, out
    <3>2. inReady' \in BOOLEAN /\ inBank' \in Seq(Nat) /\ Len(inBank') <= EpSize
      <4>1. CASE inBank' = inBank
        BY ONLY <1>18, <4>1, <1>a DEF WriteNextResponseByte, ClearIN, in, PortTypes
      <4>2. CASE inBank' # inBank
        <5>1. /\ replies # <<>> /\ Len(inBank) < EpSize /\ inReady' = inReady
              /\ inBank' = Append(inBank, Head(replies))
          BY ONLY <1>18, <4>2 DEF WriteNextResponseByte, ClearIN, in, IsReadWriteAllowed
        <5>2. Head(replies) \in Nat  BY ONLY <5>1, <1>a DEF TaskTypes
        <5> QED  BY ONLY <5>1, <5>2, <1>a, Sizes DEF PortTypes
      <4> QED  BY ONLY <4>1, <4>2, Zenon
    <3> QED  BY ONLY <3>1, <3>2, <1>a DEF PortTypes
  <2>3. TaskTypes'
    <3>1. finished' = finished /\ pc' = pc /\ Command' = Command /\ args' = args /\ left' = left
      BY ONLY <1>18 DEF WriteNextResponseByte
    <3>2. replies # <<>> /\ (replies' = replies \/ replies' = Tail(replies))
      BY ONLY <1>18 DEF WriteNextResponseByte
    <3>3. replies' \in Seq(Nat)  BY ONLY <3>2, <1>a, HeadTailProperties DEF TaskTypes
    <3> QED  BY ONLY <3>1, <3>3, <1>a DEF TaskTypes
  <2>4. HostTypes'
    BY ONLY <1>18, <1>a
    DEF WriteNextResponseByte, ClearIN, IsReadWriteAllowed, HostTypes, host
  <2> QED  BY ONLY <1>b, <2>1, <2>2, <2>3, <2>4, Zenon DEF Types
<1>19. CASE Send
  <2>1. MemoryTypes'
    BY ONLY <1>19, <1>a
    DEF Send, ClearIN, MemoryTypes, memory
  <2>2. PortTypes'
    BY ONLY <1>19, <1>a
    DEF Send, ClearIN, PortTypes, out, in
  <2>3. TaskTypes'
    BY ONLY <1>19, <1>a
    DEF Send, ClearIN, TaskTypes, task
  <2>4. HostTypes'
    BY ONLY <1>19, <1>a
    DEF Send, ClearIN, HostTypes, host
  <2> QED  BY ONLY <1>b, <2>1, <2>2, <2>3, <2>4, Zenon DEF Types
<1>20. CASE SendEmpty
  <2>1. MemoryTypes'
    BY ONLY <1>20, <1>a
    DEF SendEmpty, ClearIN, MemoryTypes, memory
  <2>2. PortTypes'
    BY ONLY <1>20, <1>a
    DEF SendEmpty, ClearIN, PortTypes, out, in
  <2>3. TaskTypes'
    BY ONLY <1>20, <1>a
    DEF SendEmpty, ClearIN, TaskTypes, task
  <2>4. HostTypes'
    BY ONLY <1>20, <1>a
    DEF SendEmpty, ClearIN, HostTypes, host
  <2> QED  BY ONLY <1>b, <2>1, <2>2, <2>3, <2>4, Zenon DEF Types
<1>21. CASE Acknowledge
  <2>1. MemoryTypes'
    BY ONLY <1>21, <1>a
    DEF Acknowledge, ClearOUT, NoTask, MemoryTypes, memory
  <2>2. PortTypes'
    <3>1. usb' = usb /\ inReady' = inReady /\ inBank' = inBank  BY ONLY <1>21 DEF Acknowledge, in
    <3>2. CASE ClearOUT
      <4>1. outReceived' \in BOOLEAN /\ outLeft' = 0  BY ONLY <3>2, Zenon DEF ClearOUT
      <4> QED  BY ONLY <3>1, <4>1, <1>a, Sizes DEF PortTypes
    <3>3. CASE UNCHANGED out  BY ONLY <3>1, <3>3, <1>a DEF PortTypes, out
    <3> QED  BY ONLY <1>21, <3>2, <3>3, Zenon DEF Acknowledge
  <2>3. TaskTypes'
    BY ONLY <1>21, <1>a, Sizes, Kinds
    DEF Acknowledge, ClearOUT, NoTask, TaskTypes, task
  <2>4. HostTypes'
    BY ONLY <1>21, <1>a
    DEF Acknowledge, ClearOUT, NoTask, HostTypes, host
  <2> QED  BY ONLY <1>b, <2>1, <2>2, <2>3, <2>4, Zenon DEF Types
<1>22. ASSUME NEW c \in Commands, HostCommand(c) PROVE Types'
  <2>1. MemoryTypes'
    BY ONLY <1>22, <1>a
    DEF HostCommand, MemoryTypes, memory
  <2>2. PortTypes'
    BY ONLY <1>22, <1>a
    DEF HostCommand, PortTypes, out, in
  <2>3. TaskTypes'
    BY ONLY <1>22, <1>a
    DEF HostCommand, TaskTypes, task
  <2>4. HostTypes'
    <3>1. c \in Letters  BY ONLY <1>a, c \in Commands DEF SessionTypes
    <3>2. asked' = c /\ sent' = <<>> /\ heard' = <<>>  BY ONLY <1>22, Zenon DEF HostCommand
    <3>3. toSend' = 1 + Args(c) + Data(c)  BY ONLY <1>22, Zenon DEF HostCommand, Data
    <3>4. toSend' \in 0..(4 + SPM_PAGESIZE)  BY ONLY <3>3, Sizes, Kinds
    <3> QED  BY ONLY <3>1, <3>2, <3>4 DEF HostTypes
  <2> QED  BY ONLY <1>b, <2>1, <2>2, <2>3, <2>4, Zenon DEF Types
<1>23. CASE HostPacket
  <2>1. MemoryTypes'
    BY ONLY <1>23, <1>a
    DEF HostPacket, MemoryTypes, memory
  <2>2. PortTypes'
    BY ONLY <1>23, <1>a
    DEF HostPacket, PortTypes, out, in
  <2>3. TaskTypes'
    BY ONLY <1>23, <1>a
    DEF HostPacket, TaskTypes, task
  <2>4. HostTypes'
    BY ONLY <1>23, <1>a, Sizes, Kinds
    DEF HostPacket, HostTypes, host
  <2> QED  BY ONLY <1>b, <2>1, <2>2, <2>3, <2>4, Zenon DEF Types
<1>24. CASE HostTakes
  <2>1. MemoryTypes'
    BY ONLY <1>24, <1>a
    DEF HostTakes, MemoryTypes, memory
  <2>2. PortTypes'
    BY ONLY <1>24, <1>a, Sizes, Kinds
    DEF HostTakes, PortTypes, out, in
  <2>3. TaskTypes'
    BY ONLY <1>24, <1>a
    DEF HostTakes, TaskTypes, task
  <2>4. HostTypes'
    <3>1. asked' = asked /\ toSend' = toSend /\ sent' = sent  BY ONLY <1>24 DEF HostTakes
    <3>2. heard' = heard \o inBank  BY ONLY <1>24, Zenon DEF HostTakes
    <3>3. inBank \in Seq(Nat) /\ heard \in Seq(Nat)  BY ONLY <1>a DEF PortTypes, HostTypes
    <3>4. heard' \in Seq(Nat)  BY ONLY <3>2, <3>3
    <3> QED  BY ONLY <3>1, <3>4, <1>a DEF HostTypes
  <2> QED  BY ONLY <1>b, <2>1, <2>2, <2>3, <2>4, Zenon DEF Types
<1>25. CASE Unplug
  <2>1. MemoryTypes'
    BY ONLY <1>25, <1>a
    DEF Unplug, MemoryTypes, memory
  <2>2. PortTypes'
    BY ONLY <1>25, <1>a
    DEF Unplug, PortTypes, out, in
  <2>3. TaskTypes'
    BY ONLY <1>25, <1>a
    DEF Unplug, TaskTypes, task
  <2>4. HostTypes'
    BY ONLY <1>25, <1>a, Sizes, Kinds
    DEF Unplug, HostTypes, host
  <2> QED  BY ONLY <1>b, <2>1, <2>2, <2>3, <2>4, Zenon DEF Types
<1>26. CASE Plug
  <2>1. MemoryTypes'
    BY ONLY <1>26, <1>a
    DEF Plug, MemoryTypes, memory
  <2>2. PortTypes'
    <3>1. outReceived' = outReceived /\ outLeft' = outLeft  BY ONLY <1>26 DEF Plug, out
    <3>2. usb' = "Default" /\ inReady' \in BOOLEAN /\ inBank' = <<>>  BY ONLY <1>26, Zenon DEF Plug
    <3> QED  BY ONLY <3>1, <3>2, <1>a, Sizes DEF PortTypes
  <2>3. TaskTypes'
    BY ONLY <1>26, <1>a
    DEF Plug, TaskTypes, task
  <2>4. HostTypes'
    BY ONLY <1>26, <1>a
    DEF Plug, HostTypes, host
  <2> QED  BY ONLY <1>b, <2>1, <2>2, <2>3, <2>4, Zenon DEF Types
<1>27. CASE BusReset
  <2>1. MemoryTypes'
    BY ONLY <1>27, <1>a
    DEF BusReset, MemoryTypes, memory
  <2>2. PortTypes'
    <3>1. /\ usb' = "Default" /\ outReceived' \in BOOLEAN /\ outLeft' = 0
          /\ inReady' = FALSE /\ inBank' = <<>>
      BY ONLY <1>27, Zenon DEF BusReset
    <3>2. inReady' \in BOOLEAN  BY ONLY <3>1, Zenon
    <3>3. usb' = "Default" /\ outReceived' \in BOOLEAN /\ outLeft' = 0 /\ inBank' = <<>>
      BY ONLY <3>1, Zenon
    <3> QED  BY ONLY <3>2, <3>3, Sizes DEF PortTypes
  <2>3. TaskTypes'
    BY ONLY <1>27, <1>a
    DEF BusReset, TaskTypes, task
  <2>4. HostTypes'
    BY ONLY <1>27, <1>a, Sizes, Kinds
    DEF BusReset, HostTypes, host
  <2> QED  BY ONLY <1>b, <2>1, <2>2, <2>3, <2>4, Zenon DEF Types
<1> QED
  BY <1>1, <1>2, <1>3, <1>4, <1>5, <1>6, <1>7, <1>8, <1>9, <1>10, <1>11, <1>12,
     <1>13, <1>14, <1>15, <1>16, <1>17, <1>18, <1>19, <1>20, <1>21, <1>22, <1>23, <1>24,
     <1>25, <1>26, <1>27,
     Zenon DEF Next, Processor, Programmer, CDC_Task, Exec

\* The two endpoints.
LEMMA StepEndpoints ==
  ASSUME SafeInv, Next
  PROVE  Endpoints'
<1>0. UNCHANGED session  BY Zenon DEF Next
<1>a. Endpoints /\ PortTypes /\ TaskTypes /\ HostTypes  BY Zenon DEF SafeInv, Types
<1>1. CASE main
  BY ONLY <1>1, <1>a
  DEF main, NoTask, Endpoints, Answering, out, in, host
<1>2. CASE Reset
  BY ONLY <1>2, <1>a
  DEF Reset, Endpoints, Answering, out, in, host
<1>3. CASE USB_USBTask
  BY ONLY <1>3, <1>a
  DEF USB_USBTask, Endpoints, Answering, out, in, host
<1>4. CASE Poll
  BY ONLY <1>4, <1>a
  DEF Poll, Endpoints, Answering, out, in, host
<1>5. CASE FetchCommand
  <2>1. NextPacket \/ \E s \in FetchNextCommandByte({asked}) : ByteTaken(s)
    BY ONLY <1>5, Zenon DEF FetchCommand
  <2>2. outLeft' > 0 => outReceived'  BY ONLY <2>1, <1>a, OutGoes, Zenon
  <2>3. usb' = usb /\ toSend' = toSend /\ inReady' = inReady /\ inBank' = inBank
    BY ONLY <1>5 DEF FetchCommand, in
  <2>4. pc \notin Answering /\ pc' \notin Answering
    BY ONLY <1>5 DEF FetchCommand, NextPacket, Answering
  <2>5. pc' \notin {"zlp", "sent"}  BY ONLY <2>4 DEF Answering
  <2> QED  BY ONLY <2>2, <2>3, <2>4, <2>5, <1>a, Zenon DEF Endpoints
<1>6. CASE FetchArgs
  <2>1. NextPacket \/ \E s \in FetchNextCommandByte(ArgBytes) : ByteTaken(s)
    BY ONLY <1>6, Zenon DEF FetchArgs
  <2>2. outLeft' > 0 => outReceived'  BY ONLY <2>1, <1>a, OutGoes, Zenon
  <2>3. usb' = usb /\ toSend' = toSend /\ inReady' = inReady /\ inBank' = inBank
    BY ONLY <1>6 DEF FetchArgs, in
  <2>4. pc \notin Answering /\ pc' \notin Answering
    BY ONLY <1>6 DEF FetchArgs, NextPacket, Answering
  <2>5. pc' \notin {"zlp", "sent"}  BY ONLY <2>4 DEF Answering
  <2> QED  BY ONLY <2>2, <2>3, <2>4, <2>5, <1>a, Zenon DEF Endpoints
<1>7. CASE pc = "exec" /\ ExecReport /\ UNCHANGED <<usb, out, in, host>>
  BY ONLY <1>7, <1>a
  DEF ExecReport, Reply, Constants, Endpoints, Answering, out, in, host
<1>8. CASE pc = "exec" /\ ExecExit /\ UNCHANGED <<usb, out, in, host>>
  BY ONLY <1>8, <1>a
  DEF ExecExit, Reply, Endpoints, Answering, out, in, host
<1>9. CASE pc = "exec" /\ ExecAddress /\ UNCHANGED <<usb, out, in, host>>
  BY ONLY <1>9, <1>a
  DEF ExecAddress, Reply, Endpoints, Answering, out, in, host
<1>10. CASE pc = "exec" /\ ExecErase /\ UNCHANGED <<usb, out, in, host>>
  BY ONLY <1>10, <1>a
  DEF ExecErase, Reply, Endpoints, Answering, out, in, host
<1>11. CASE pc = "exec" /\ ExecFill /\ UNCHANGED <<usb, out, in, host>>
  BY ONLY <1>11, <1>a
  DEF ExecFill, Reply, Endpoints, Answering, out, in, host
<1>12. CASE pc = "exec" /\ ExecCommitPage /\ UNCHANGED <<usb, out, in, host>>
  BY ONLY <1>12, <1>a
  DEF ExecCommitPage, Reply, Endpoints, Answering, out, in, host
<1>13. CASE pc = "exec" /\ ExecEeprom /\ UNCHANGED <<usb, out, in, host>>
  BY ONLY <1>13, <1>a
  DEF ExecEeprom, Reply, Endpoints, Answering, out, in, host
<1>14. CASE pc = "exec" /\ ExecReadBlock /\ UNCHANGED <<usb, out, in, host>>
  BY ONLY <1>14, <1>a
  DEF ExecReadBlock, Reply, Endpoints, Answering, out, in, host
<1>15. CASE pc = "exec" /\ ExecWriteBlock /\ UNCHANGED <<usb, out, in, host>>
  BY ONLY <1>15, <1>a
  DEF ExecWriteBlock, Endpoints, Answering, out, in, host
<1>16. CASE Block
  <2>1. NextPacket \/ \E s \in FetchNextCommandByte(HostBytes) : ByteTaken(s)
    BY ONLY <1>16, Zenon DEF Block
  <2>2. outLeft' > 0 => outReceived'  BY ONLY <2>1, <1>a, OutGoes, Zenon
  <2>3. usb' = usb /\ toSend' = toSend /\ inReady' = inReady /\ inBank' = inBank
    BY ONLY <1>16 DEF Block, in
  <2>4. pc \notin Answering /\ pc' \notin Answering
    BY ONLY <1>16 DEF Block, NextPacket, Answering
  <2>5. pc' \notin {"zlp", "sent"}  BY ONLY <2>4 DEF Answering
  <2> QED  BY ONLY <2>2, <2>3, <2>4, <2>5, <1>a, Zenon DEF Endpoints
<1>17. CASE BlockDone
  BY ONLY <1>17, <1>a
  DEF BlockDone, Reply, Endpoints, Answering, out, in, host
<1>18. CASE WriteNextResponseByte
  BY ONLY <1>18, <1>a
  DEF WriteNextResponseByte, ClearIN, IsReadWriteAllowed, Endpoints, Answering, out, in, host
<1>19. CASE Send
  BY ONLY <1>19, <1>a
  DEF Send, ClearIN, Endpoints, Answering, out, in, host
<1>20. CASE SendEmpty
  BY ONLY <1>20, <1>a
  DEF SendEmpty, ClearIN, Endpoints, Answering, out, in, host
<1>21. CASE Acknowledge
  BY ONLY <1>21, <1>a
  DEF Acknowledge, ClearOUT, NoTask, Endpoints, Answering, out, in, host
<1>22. ASSUME NEW c \in Commands, HostCommand(c) PROVE Endpoints'
  BY ONLY <1>22, <1>a
  DEF HostCommand, Endpoints, Answering, out, in, host
<1>23. CASE HostPacket
  BY ONLY <1>23, <1>a
  DEF HostPacket, Endpoints, Answering, out, in, host
<1>24. CASE HostTakes
  BY ONLY <1>24, <1>a
  DEF HostTakes, Endpoints, Answering, out, in, host
<1>25. CASE Unplug
  BY ONLY <1>25, <1>a
  DEF Unplug, Endpoints, Answering, out, in, host
<1>26. CASE Plug
  BY ONLY <1>26, <1>a
  DEF Plug, Endpoints, Answering, out, in, host
<1>27. CASE BusReset
  BY ONLY <1>27, <1>a
  DEF BusReset, Endpoints, Answering, out, in, host
<1> QED
  BY <1>1, <1>2, <1>3, <1>4, <1>5, <1>6, <1>7, <1>8, <1>9, <1>10, <1>11, <1>12,
     <1>13, <1>14, <1>15, <1>16, <1>17, <1>18, <1>19, <1>20, <1>21, <1>22, <1>23, <1>24,
     <1>25, <1>26, <1>27,
     Zenon DEF Next, Processor, Programmer, CDC_Task, Exec

\* A step that leaves the command alone and lets no more bytes come.
LEMMA SameBytes ==
  ASSUME PortTypes, HostTypes, TaskTypes, PortTypes', HostTypes', Bytes,
         UNCHANGED <<Command, args, left, asked, CurrAddress>>,
         pc' = pc \/ (pc \in Waiting /\ pc' \in Waiting \cup {"exit"}),
         Coming' <= Coming
  PROVE  Bytes'
<1>1. /\ Command' = Command /\ args' = args /\ left' = left /\ asked' = asked
      /\ CurrAddress' = CurrAddress
  OBVIOUS
<1>2. Coming \in Nat /\ Coming' \in Nat
  <2>1. outLeft \in Nat /\ outLeft' \in Nat  BY ONLY PortTypes, PortTypes', Sizes DEF PortTypes
  <2>2. toSend \in Nat /\ toSend' \in Nat  BY ONLY HostTypes, HostTypes', Sizes DEF HostTypes
  <2>3. \A m, n \in Nat : m + n \in Nat  OBVIOUS
  <2>4. Coming \in Nat  BY ONLY <2>1, <2>2, <2>3, Zenon DEF Coming
  <2>5. Coming' \in Nat  BY ONLY <2>1, <2>2, <2>3, Zenon DEF Coming
  <2> QED  BY ONLY <2>4, <2>5
<1>3. /\ Sensible(asked)' <=> Sensible(asked)
      /\ Sensible(Command)' <=> Sensible(Command)
  BY ONLY <1>1 DEF Sensible
<1>4. Fetched => Fetched'
  <2>1. Coming = 0 => Coming' = 0  BY ONLY <1>2, Coming' <= Coming
  <2> QED  BY ONLY <1>1, <2>1, Zenon DEF Fetched
<1>5. Writing => Writing'  BY ONLY <1>1, Zenon DEF Writing
<1>6. \A c : Args(c) \in Nat /\ Data(c) \in Nat  BY ONLY Kinds, Sizes
<1>7. Args(asked)' = Args(asked) /\ Data(asked)' = Data(asked) /\ Args(Command)' = Args(Command)
      /\ Data(Command)' = Data(Command)
  BY ONLY <1>1 DEF Args, Data, BlockSize
<1>8. Len(args) \in Nat /\ left \in Nat  BY Sizes DEF TaskTypes
<1>9. CASE pc \in Waiting /\ pc' \in Waiting \cup {"exit"}
  <2>1. pc \in Waiting /\ Coming > 0 =>
          Coming <= 1 + Args(asked) + Data(asked) /\ Sensible(asked)
    BY Zenon DEF Bytes
  <2>2. Coming' > 0 => Coming' <= 1 + Args(asked)' + Data(asked)' /\ Sensible(asked)'
    BY ONLY <1>2, <1>3, <1>6, <1>7, <1>9, <2>1, Coming' <= Coming
  <2>3. pc' \notin Answering \cup {"fetch", "exec", "block"}  BY ONLY <1>9 DEF Waiting, Answering
  <2> QED  BY ONLY <2>2, <2>3 DEF Bytes
<1>10. CASE pc' = pc
  BY ONLY <1>1, <1>2, <1>3, <1>4, <1>5, <1>6, <1>7, <1>8, <1>10, Bytes, Coming' <= Coming DEF Bytes
<1> QED  BY <1>9, <1>10

\* A step after which none come.
LEMMA NoneComing ==
  ASSUME Coming' = 0, pc' \notin {"fetch", "exec", "block"}
  PROVE  Bytes'
BY DEF Bytes

\* The bytes still to come, and the arguments fetched.
LEMMA StepBytes ==
  ASSUME SafeInv, Types', Next
  PROVE  Bytes'
<1>0. UNCHANGED session  BY Zenon DEF Next
<1>a. PortTypes /\ TaskTypes /\ HostTypes /\ MemoryTypes /\ SessionTypes  BY Zenon DEF SafeInv, Types
<1>p. PortTypes' /\ HostTypes'  BY Zenon DEF Types
<1>e. Endpoints  BY Zenon DEF SafeInv
<1>y. Bytes  BY Zenon DEF SafeInv
<1>n. outLeft \in Nat /\ toSend \in Nat  BY ONLY <1>a, Sizes DEF PortTypes, HostTypes
<1>1. CASE main
  <2>1. pc' \notin {"fetch", "exec", "block"}  BY ONLY <1>1 DEF main, NoTask
  <2>2. Coming' = 0
    BY ONLY <1>1 DEF main, Coming
  <2> QED  BY ONLY <2>1, <2>2, NoneComing, Zenon
<1>2. CASE Reset
  BY ONLY <1>2 DEF Reset, Bytes, Waiting, Answering
<1>3. CASE USB_USBTask
  <2>1. UNCHANGED <<Command, args, left, asked, CurrAddress>>
    BY ONLY <1>3 DEF USB_USBTask, memory, task, host
  <2>2. pc' = pc \/ (pc \in Waiting /\ pc' \in Waiting \cup {"exit"})
    BY ONLY <1>3 DEF USB_USBTask, Waiting
  <2>3. Coming' <= Coming
    BY ONLY <1>3, <1>n DEF USB_USBTask, Coming, out, host
  <2> QED  BY ONLY <1>a, <1>p, <1>y, <2>1, <2>2, <2>3, SameBytes, Zenon
<1>4. CASE Poll
  <2>1. UNCHANGED <<Command, args, left, asked, CurrAddress>>
    BY ONLY <1>4 DEF Poll, memory, task, host
  <2>2. pc' = pc \/ (pc \in Waiting /\ pc' \in Waiting \cup {"exit"})
    BY ONLY <1>4 DEF Poll, Waiting
  <2>3. Coming' <= Coming
    BY ONLY <1>4, <1>n DEF Poll, Coming, out, host
  <2> QED  BY ONLY <1>a, <1>p, <1>y, <2>1, <2>2, <2>3, SameBytes, Zenon
<1>5. CASE FetchCommand
  <2>1. CASE NextPacket
    <3>1. UNCHANGED <<Command, args, left, asked, CurrAddress>>
      BY ONLY <1>5, <2>1 DEF FetchCommand, NextPacket, memory, task
    <3>2. pc' = pc  BY ONLY <2>1, Zenon DEF NextPacket
    <3>3. Coming' <= Coming
      BY ONLY <1>5, <2>1, <1>n DEF FetchCommand, NextPacket, ClearOUT, Coming
    <3> QED  BY ONLY <1>a, <1>p, <1>y, <3>1, <3>2, <3>3, SameBytes, Zenon
  <2>2. CASE ~NextPacket
    <3>1. PICK s \in FetchNextCommandByte({asked}) :
            /\ ByteTaken(s) /\ Command' = (IF s = <<>> THEN "?" ELSE s[1]) /\ args' = <<>>
            /\ pc' = (IF Args(Command') = 0 THEN "exec" ELSE "fetch")
            /\ UNCHANGED <<memory, sent>>
      BY ONLY <1>5, <2>2, Zenon DEF FetchCommand
    <3>2. \/ Len(s) = 1 /\ outLeft > 0 /\ s[1] \in {asked} /\ s = <<s[1]>> /\ ByteOr0(s) = s[1]
          \/ Coming = 0 /\ Len(s) = 0 /\ s = <<>> /\ ByteOr0(s) = 0
      <4>1. \/ Len(s) = 1 /\ outLeft > 0 /\ s[1] \in {asked} /\ s = <<s[1]>> /\ ByteOr0(s) = s[1]
            \/ /\ ~(outLeft > 0) /\ usb = "Unattached"
               /\ Len(s) = 0 /\ s = <<>> /\ ByteOr0(s) = 0
        BY ONLY <3>1, FetchedByte, Zenon
      <4>2. usb = "Unattached" => toSend = 0  BY ONLY <1>e DEF Endpoints
      <4>3. ~(outLeft > 0) /\ toSend = 0 => Coming = 0  BY ONLY <1>n DEF Coming
      <4> QED  BY ONLY <4>1, <4>2, <4>3, Zenon
    <3>3. Coming' = Coming - Len(s)
      BY ONLY <1>5, <3>1, <3>2, <1>n DEF FetchCommand, ByteTaken, Coming
    <3>4. CurrAddress' = CurrAddress  BY ONLY <3>1 DEF memory
    <3>5. Coming > 0 => Coming <= 1 + Args(asked) + Data(asked) /\ Sensible(asked)
      BY ONLY <1>5, <1>y DEF FetchCommand, Bytes, Waiting
    <3>6. Coming' <= Args(Command') + Data(Command') /\ Sensible(Command)'
      <4>1. CASE s = <<>>
        <5>1. Command' = "?" /\ Coming' = 0  BY ONLY <3>1, <3>2, <3>3, <4>1
        <5> QED  BY ONLY <5>1, Kinds DEF Sensible
      <4>2. CASE s # <<>>
        <5>1. Command' = asked  BY ONLY <3>1, <3>2, <4>2, Zenon
        <5>a. Len(s) = 1 /\ outLeft > 0  BY ONLY <3>2, <4>2, Zenon
        <5>2. Coming' = Coming - 1 /\ Coming > 0
          <6>1. Coming > 0  BY ONLY <5>a, <1>n DEF Coming
          <6> QED  BY ONLY <3>3, <5>a, <6>1
        <5>3. Sensible(Command)'  BY ONLY <3>4, <3>5, <5>1, <5>2 DEF Sensible
        <5>4. Args(asked) \in Nat /\ Data(asked) \in Nat /\ Coming \in Nat
          BY ONLY Kinds, <1>n, Sizes DEF Coming
        <5>5. Coming' <= Args(asked) + Data(asked)  BY ONLY <3>5, <5>2, <5>4
        <5> QED  BY ONLY <5>1, <5>3, <5>5, Zenon
      <4> QED  BY ONLY <4>1, <4>2, Zenon
    <3>7. Args(Command)' = Args(Command') /\ Data(Command)' = Data(Command')
      BY ONLY Sizes DEF Args, Data, BlockSize
    <3>8. Len(args') = 0 /\ Fetched'  BY ONLY <3>1 DEF Fetched
    <3>9. Args(Command') \in Nat /\ Data(Command') \in Nat  BY ONLY Kinds, Sizes
    <3>10. CASE Args(Command') = 0
      <4>1. pc' = "exec"  BY ONLY <3>1, <3>10, Zenon
      <4> QED  BY ONLY <3>6, <3>7, <3>8, <3>9, <3>10, <4>1 DEF Bytes, Waiting, Answering
    <3>11. CASE Args(Command') # 0
      <4>1. pc' = "fetch"  BY ONLY <3>1, <3>11, Zenon
      <4> QED  BY ONLY <3>6, <3>7, <3>8, <3>9, <3>11, <4>1 DEF Bytes, Waiting, Answering
    <3> QED  BY ONLY <3>10, <3>11, Zenon
  <2> QED  BY ONLY <2>1, <2>2, Zenon
<1>6. CASE FetchArgs
  <2>1. CASE NextPacket
    <3>1. UNCHANGED <<Command, args, left, asked, CurrAddress>>
      BY ONLY <1>6, <2>1 DEF FetchArgs, NextPacket, memory, task
    <3>2. pc' = pc  BY ONLY <2>1, Zenon DEF NextPacket
    <3>3. Coming' <= Coming
      BY ONLY <1>6, <2>1, <1>n DEF FetchArgs, NextPacket, ClearOUT, Coming
    <3> QED  BY ONLY <1>a, <1>p, <1>y, <3>1, <3>2, <3>3, SameBytes, Zenon
  <2>2. CASE ~NextPacket
    <3>1. PICK s \in FetchNextCommandByte(ArgBytes) :
            /\ ByteTaken(s) /\ args' = Append(args, ByteOr0(s)) /\ sent' = sent \o s
            /\ pc' = (IF Len(args') = Args(Command) THEN "exec" ELSE "fetch")
            /\ UNCHANGED <<memory, Command, left, replies>>
      BY ONLY <1>6, <2>2, Zenon DEF FetchArgs
    <3>2. \/ Len(s) = 1 /\ outLeft > 0 /\ s[1] \in ArgBytes /\ s = <<s[1]>> /\ ByteOr0(s) = s[1]
          \/ Coming = 0 /\ Len(s) = 0 /\ s = <<>> /\ ByteOr0(s) = 0
      <4>1. \/ Len(s) = 1 /\ outLeft > 0 /\ s[1] \in ArgBytes /\ s = <<s[1]>> /\ ByteOr0(s) = s[1]
            \/ /\ ~(outLeft > 0) /\ usb = "Unattached"
               /\ Len(s) = 0 /\ s = <<>> /\ ByteOr0(s) = 0
        BY ONLY <3>1, FetchedByte, Zenon
      <4>2. usb = "Unattached" => toSend = 0  BY ONLY <1>e DEF Endpoints
      <4>3. ~(outLeft > 0) /\ toSend = 0 => Coming = 0  BY ONLY <1>n DEF Coming
      <4> QED  BY ONLY <4>1, <4>2, <4>3, Zenon
    <3>3. Coming' = Coming - Len(s)
      BY ONLY <1>6, <3>1, <3>2, <1>n DEF FetchArgs, ByteTaken, Coming
    <3>4. CurrAddress' = CurrAddress /\ Command' = Command  BY ONLY <3>1 DEF memory
    <3>5. /\ Len(args) < Args(Command) /\ Coming <= Args(Command) - Len(args) + Data(Command)
          /\ Sensible(Command) /\ Fetched
      BY ONLY <1>6, <1>y DEF FetchArgs, Bytes
    <3>6. Sensible(Command)'  BY ONLY <3>4, <3>5 DEF Sensible
    <3>7. Args(Command)' = Args(Command) /\ Data(Command)' = Data(Command)
      BY ONLY <3>4 DEF Args, Data, BlockSize
    <3>8. args \in Seq(Nat) /\ ByteOr0(s) \in uint8_t /\ (Command # "A" => ByteOr0(s) \in Byte)
      <4>1. ByteOr0(s) = 0 \/ ByteOr0(s) \in ArgBytes  BY ONLY <3>2, Zenon
      <4> QED  BY ONLY <4>1, <1>a, ArgTypes, Kinds DEF TaskTypes
    <3>9. /\ Len(args') = Len(args) + 1 /\ Len(args) \in Nat
          /\ \A i \in 1..Len(args') : args'[i] = IF i = Len(args) + 1 THEN ByteOr0(s) ELSE args[i]
      <4>1. ByteOr0(s) \in Nat  BY ONLY <3>8, Kinds
      <4> QED  BY ONLY <3>1, <3>8, <4>1
    <3>10. Fetched'
      <4>1. \A i \in 1..Len(args) : args[i] \in uint8_t /\ (Command # "A" => args[i] \in Byte)
        BY ONLY <3>5, Zenon DEF Fetched
      <4>2. \A i \in 1..Len(args') : args'[i] \in uint8_t /\ (Command # "A" => args'[i] \in Byte)
        BY ONLY <4>1, <3>8, <3>9
      <4>3. ASSUME Command \in {"BF", "BE"}
            PROVE  (\A i \in 1..Len(args') : args'[i] # 0) \/ Coming' = 0
        <5>1. CASE Coming = 0
          BY ONLY <3>2, <3>3, <5>1, <1>n DEF Coming
        <5>2. CASE Coming # 0
          <6>1. \A i \in 1..Len(args) : args[i] # 0  BY ONLY <3>5, <4>3, <5>2, Zenon DEF Fetched
          <6>2. ByteOr0(s) = 1  BY ONLY <3>2, <4>3, <5>2 DEF ArgBytes
          <6> QED  BY ONLY <3>9, <6>1, <6>2
        <5> QED  BY ONLY <5>1, <5>2, Zenon
      <4> QED  BY ONLY <3>4, <4>2, <4>3, Zenon DEF Fetched
    <3>11. Coming' <= Args(Command) - Len(args') + Data(Command)
      <4>1. Args(Command) \in Nat /\ Data(Command) \in Nat /\ Coming \in Nat
        BY ONLY Kinds, <1>n, Sizes DEF Coming
      <4> QED  BY ONLY <3>2, <3>3, <3>5, <3>9, <4>1
    <3>12. Args(Command) \in Nat /\ Data(Command) \in Nat  BY ONLY Kinds, Sizes
    <3>13. CASE Len(args') = Args(Command)
      <4>1. pc' = "exec"  BY ONLY <3>1, <3>13, Zenon
      <4> QED  BY ONLY <3>6, <3>7, <3>10, <3>11, <3>12, <3>13, <4>1 DEF Bytes, Waiting, Answering
    <3>14. CASE Len(args') # Args(Command)
      <4>1. pc' = "fetch"  BY ONLY <3>1, <3>14, Zenon
      <4>2. Len(args') < Args(Command)  BY ONLY <3>5, <3>9, <3>12, <3>14
      <4> QED  BY ONLY <3>6, <3>7, <3>10, <3>11, <4>1, <4>2 DEF Bytes, Waiting, Answering
    <3> QED  BY ONLY <3>13, <3>14, Zenon
  <2> QED  BY ONLY <2>1, <2>2, Zenon
<1>7. CASE pc = "exec" /\ ExecReport /\ UNCHANGED <<usb, out, in, host>>
  <2>1. pc' \notin {"fetch", "exec", "block"}  BY ONLY <1>7 DEF ExecReport, Reply, Constants
  <2>2. Coming' = 0
    <3>1. outLeft' = outLeft /\ toSend' = toSend  BY ONLY <1>7 DEF out, host
    <3>2. Coming = 0
      <4>1. CASE Command \in {"BF", "BE"}
        <5>1. args[3] = 0  BY ONLY <1>7, <4>1 DEF ExecReport
        <5>2. Len(args) = 3 /\ ((\A i \in 1..Len(args) : args[i] # 0) \/ Coming = 0)
          BY ONLY <1>7, <4>1, <1>y DEF Bytes, Fetched, Args
        <5> QED  BY ONLY <5>1, <5>2
      <4>2. CASE Command \notin {"BF", "BE"}
        <5>1. Coming <= Data(Command)  BY ONLY <1>7, <1>y DEF Bytes
        <5> QED  BY ONLY <4>2, <5>1, <1>n DEF Data, Coming
      <4> QED  BY ONLY <4>1, <4>2, Zenon
    <3> QED  BY ONLY <3>1, <3>2 DEF Coming
  <2> QED  BY ONLY <2>1, <2>2, NoneComing, Zenon
<1>8. CASE pc = "exec" /\ ExecExit /\ UNCHANGED <<usb, out, in, host>>
  <2>1. pc' \notin {"fetch", "exec", "block"}  BY ONLY <1>8 DEF ExecExit, Reply
  <2>2. Coming' = 0
    <3>1. outLeft' = outLeft /\ toSend' = toSend  BY ONLY <1>8 DEF out, host
    <3>2. Data(Command) = 0  BY ONLY <1>8 DEF ExecExit, Reply, Data
    <3>3. Coming <= Data(Command)  BY ONLY <1>8, <1>y DEF Bytes
    <3> QED  BY ONLY <3>1, <3>2, <3>3, <1>n DEF Coming
  <2> QED  BY ONLY <2>1, <2>2, NoneComing, Zenon
<1>9. CASE pc = "exec" /\ ExecAddress /\ UNCHANGED <<usb, out, in, host>>
  <2>1. pc' \notin {"fetch", "exec", "block"}  BY ONLY <1>9 DEF ExecAddress, Reply
  <2>2. Coming' = 0
    <3>1. outLeft' = outLeft /\ toSend' = toSend  BY ONLY <1>9 DEF out, host
    <3>2. Data(Command) = 0  BY ONLY <1>9 DEF ExecAddress, Reply, Data
    <3>3. Coming <= Data(Command)  BY ONLY <1>9, <1>y DEF Bytes
    <3> QED  BY ONLY <3>1, <3>2, <3>3, <1>n DEF Coming
  <2> QED  BY ONLY <2>1, <2>2, NoneComing, Zenon
<1>10. CASE pc = "exec" /\ ExecErase /\ UNCHANGED <<usb, out, in, host>>
  <2>1. pc' \notin {"fetch", "exec", "block"}  BY ONLY <1>10 DEF ExecErase, Reply
  <2>2. Coming' = 0
    <3>1. outLeft' = outLeft /\ toSend' = toSend  BY ONLY <1>10 DEF out, host
    <3>2. Data(Command) = 0  BY ONLY <1>10 DEF ExecErase, Reply, Data
    <3>3. Coming <= Data(Command)  BY ONLY <1>10, <1>y DEF Bytes
    <3> QED  BY ONLY <3>1, <3>2, <3>3, <1>n DEF Coming
  <2> QED  BY ONLY <2>1, <2>2, NoneComing, Zenon
<1>11. CASE pc = "exec" /\ ExecFill /\ UNCHANGED <<usb, out, in, host>>
  <2>1. pc' \notin {"fetch", "exec", "block"}  BY ONLY <1>11 DEF ExecFill, Reply
  <2>2. Coming' = 0
    <3>1. outLeft' = outLeft /\ toSend' = toSend  BY ONLY <1>11 DEF out, host
    <3>2. Data(Command) = 0  BY ONLY <1>11 DEF ExecFill, Reply, Data
    <3>3. Coming <= Data(Command)  BY ONLY <1>11, <1>y DEF Bytes
    <3> QED  BY ONLY <3>1, <3>2, <3>3, <1>n DEF Coming
  <2> QED  BY ONLY <2>1, <2>2, NoneComing, Zenon
<1>12. CASE pc = "exec" /\ ExecCommitPage /\ UNCHANGED <<usb, out, in, host>>
  <2>1. pc' \notin {"fetch", "exec", "block"}  BY ONLY <1>12 DEF ExecCommitPage, Reply
  <2>2. Coming' = 0
    <3>1. outLeft' = outLeft /\ toSend' = toSend  BY ONLY <1>12 DEF out, host
    <3>2. Data(Command) = 0  BY ONLY <1>12 DEF ExecCommitPage, Reply, Data
    <3>3. Coming <= Data(Command)  BY ONLY <1>12, <1>y DEF Bytes
    <3> QED  BY ONLY <3>1, <3>2, <3>3, <1>n DEF Coming
  <2> QED  BY ONLY <2>1, <2>2, NoneComing, Zenon
<1>13. CASE pc = "exec" /\ ExecEeprom /\ UNCHANGED <<usb, out, in, host>>
  <2>1. pc' \notin {"fetch", "exec", "block"}  BY ONLY <1>13 DEF ExecEeprom, Reply
  <2>2. Coming' = 0
    <3>1. outLeft' = outLeft /\ toSend' = toSend  BY ONLY <1>13 DEF out, host
    <3>2. Data(Command) = 0  BY ONLY <1>13 DEF ExecEeprom, Reply, Data
    <3>3. Coming <= Data(Command)  BY ONLY <1>13, <1>y DEF Bytes
    <3> QED  BY ONLY <3>1, <3>2, <3>3, <1>n DEF Coming
  <2> QED  BY ONLY <2>1, <2>2, NoneComing, Zenon
<1>14. CASE pc = "exec" /\ ExecReadBlock /\ UNCHANGED <<usb, out, in, host>>
  <2>1. pc' \notin {"fetch", "exec", "block"}  BY ONLY <1>14 DEF ExecReadBlock, Reply
  <2>2. Coming' = 0
    <3>1. outLeft' = outLeft /\ toSend' = toSend  BY ONLY <1>14 DEF out, host
    <3>2. Data(Command) = 0  BY ONLY <1>14 DEF ExecReadBlock, Reply, Data
    <3>3. Coming <= Data(Command)  BY ONLY <1>14, <1>y DEF Bytes
    <3> QED  BY ONLY <3>1, <3>2, <3>3, <1>n DEF Coming
  <2> QED  BY ONLY <2>1, <2>2, NoneComing, Zenon
<1>15. CASE pc = "exec" /\ ExecWriteBlock /\ UNCHANGED <<usb, out, in, host>>
  <2>1. /\ Command \in {"BF", "BE"} /\ args' = <<CurrAddress>> /\ left' = BlockSize(Command)
        /\ pc' = "block" /\ Command' = Command /\ CurrAddress' = CurrAddress
    BY ONLY <1>15 DEF ExecWriteBlock
  <2>2. Coming <= Data(Command) /\ Sensible(Command)  BY ONLY <1>15, <1>y DEF Bytes
  <2>3. Coming' = Coming  BY ONLY <1>15 DEF out, host, Coming
  <2>4. Coming' <= left'  BY ONLY <2>1, <2>2, <2>3 DEF Data
  <2>5. BlockSize(Command)' = BlockSize(Command) /\ BlockSize(Command) \in Nat
    BY ONLY <2>1, Kinds, Sizes DEF BlockSize
  <2>6. Len(args') = 1 /\ args'[1] = CurrAddress  BY ONLY <2>1
  <2>7. CurrAddress \in Nat  BY ONLY <1>a DEF MemoryTypes
  <2>8. Command = "BF" =>
          /\ args'[1] + SPM_PAGESIZE <= FlashSize
          /\ CurrAddress' + left' + Len(args') = args'[1] + SPM_PAGESIZE + 1
          /\ left' % 2 = 0
    <3> SUFFICES ASSUME Command = "BF"
                 PROVE  /\ args'[1] + SPM_PAGESIZE <= FlashSize
                        /\ CurrAddress' + left' + Len(args') = args'[1] + SPM_PAGESIZE + 1
                        /\ left' % 2 = 0
      OBVIOUS
    <3>1. CurrAddress < FlashSize /\ CurrAddress % SPM_PAGESIZE = 0
      BY ONLY <2>2, Command = "BF" DEF Sensible
    <3>2. CurrAddress + SPM_PAGESIZE <= FlashSize  BY ONLY <2>7, <3>1, WholePage, Zenon
    <3>3. left' = SPM_PAGESIZE  BY ONLY <2>1, Command = "BF" DEF BlockSize
    <3> QED  BY ONLY <2>1, <2>6, <2>7, <3>2, <3>3, Sizes
  <2>9. Command = "BE" => CurrAddress' \div 2 < EepromSize  BY ONLY <2>1, <2>2 DEF Sensible
  <2>10. Writing'
    <3>1. left' <= BlockSize(Command)'  BY ONLY <2>1, <2>5
    <3> QED  BY ONLY <2>1, <2>6, <2>8, <2>9, <3>1 DEF Writing
  <2> QED  BY ONLY <2>1, <2>4, <2>10 DEF Bytes, Waiting, Answering
<1>16. CASE Block
  <2>1. CASE NextPacket
    <3>1. UNCHANGED <<Command, args, left, asked, CurrAddress>>
      BY ONLY <1>16, <2>1 DEF Block, NextPacket, memory, task
    <3>2. pc' = pc  BY ONLY <2>1, Zenon DEF NextPacket
    <3>3. Coming' <= Coming
      BY ONLY <1>16, <2>1, <1>n DEF Block, NextPacket, ClearOUT, Coming
    <3> QED  BY ONLY <1>a, <1>p, <1>y, <3>1, <3>2, <3>3, SameBytes, Zenon
  <2>2. CASE ~NextPacket
    <3>1. PICK s \in FetchNextCommandByte(HostBytes) :
            /\ ByteTaken(s) /\ left' = left - 1
            /\ \/ Command = "BE" /\ args' = args
               \/ /\ Command = "BF" /\ Len(args) # 2
                  /\ args' = Append(args, ByteOr0(s)) /\ CurrAddress' = CurrAddress
               \/ /\ Command = "BF" /\ Len(args) = 2
                  /\ args' = <<args[1]>> /\ CurrAddress' = CurrAddress + 2
            /\ pc' = pc /\ Command' = Command
      BY ONLY <1>16, <2>2 DEF Block
    <3>2. \/ Len(s) = 1 /\ outLeft > 0 /\ s[1] \in HostBytes /\ s = <<s[1]>> /\ ByteOr0(s) = s[1]
          \/ Coming = 0 /\ Len(s) = 0 /\ s = <<>> /\ ByteOr0(s) = 0
      <4>1. \/ Len(s) = 1 /\ outLeft > 0 /\ s[1] \in HostBytes /\ s = <<s[1]>> /\ ByteOr0(s) = s[1]
            \/ /\ ~(outLeft > 0) /\ usb = "Unattached"
               /\ Len(s) = 0 /\ s = <<>> /\ ByteOr0(s) = 0
        BY ONLY <3>1, FetchedByte, Zenon
      <4>2. usb = "Unattached" => toSend = 0  BY ONLY <1>e DEF Endpoints
      <4>3. ~(outLeft > 0) /\ toSend = 0 => Coming = 0  BY ONLY <1>n DEF Coming
      <4> QED  BY ONLY <4>1, <4>2, <4>3, Zenon
    <3>3. Coming' = Coming - Len(s)
      BY ONLY <1>16, <3>1, <3>2, <1>n DEF Block, ByteTaken, Coming
    <3>4. left > 0 /\ Coming <= left /\ Writing /\ pc = "block"  BY ONLY <1>16, <1>y DEF Block, Bytes
    <3>5. left \in Nat /\ Coming \in Nat  BY ONLY <1>n, <1>a, Sizes DEF Coming, TaskTypes
    <3>6. Coming' <= left'  BY ONLY <3>1, <3>2, <3>3, <3>4, <3>5
    <3>7. /\ Command \in {"BF", "BE"} /\ left <= BlockSize(Command)
          /\ Len(args) \in {1, 2} /\ (Len(args) = 2 => args[2] \in Byte)
      BY ONLY <3>4 DEF Writing
    <3>8. BlockSize(Command)' = BlockSize(Command) /\ BlockSize(Command) \in Nat
      BY ONLY <3>1, Kinds, Sizes DEF BlockSize
    <3>9. left' <= BlockSize(Command)'  BY ONLY <3>1, <3>5, <3>7, <3>8
    <3>10. CASE Command = "BE"
      <4>1. args' = args /\ Command' = "BE"  BY ONLY <3>1, <3>10
      <4>2. Len(args) = 1 /\ left' = 0
        BY ONLY <3>1, <3>4, <3>5, <3>10 DEF Writing, BlockSize
      <4>3. Writing'  BY ONLY <3>9, <4>1, <4>2 DEF Writing
      <4> QED  BY ONLY <3>1, <3>4, <3>6, <4>3 DEF Bytes, Waiting, Answering
    <3>11. CASE Command = "BF"
      <4>1. /\ args[1] + SPM_PAGESIZE <= FlashSize
            /\ CurrAddress + left + Len(args) = args[1] + SPM_PAGESIZE + 1
            /\ left % 2 = 0 <=> Len(args) = 1
        BY ONLY <3>4, <3>11 DEF Writing
      <4>2. args \in Seq(Nat) /\ CurrAddress \in Nat /\ SPM_PAGESIZE \in Nat
        BY ONLY <1>a, Sizes DEF TaskTypes, MemoryTypes
      <4>3. args[1] \in Nat  BY ONLY <3>7, <4>2
      <4>4. ByteOr0(s) \in Byte
        <5>1. ByteOr0(s) = 0 \/ ByteOr0(s) \in HostBytes  BY ONLY <3>2, Zenon
        <5> QED  BY ONLY <5>1, <1>a, Kinds DEF SessionTypes
      <4>5. CASE Len(args) = 1
        <5>1. args' = Append(args, ByteOr0(s)) /\ CurrAddress' = CurrAddress
          BY ONLY <3>1, <3>11, <4>5
        <5>2. ByteOr0(s) \in Nat  BY ONLY <4>4, Kinds
        <5>3. Len(args') = 2 /\ args'[1] = args[1] /\ args'[2] = ByteOr0(s)
          <6>1. /\ Len(args') = Len(args) + 1
                /\ \A i \in 1..Len(args') :
                     args'[i] = IF i = Len(args) + 1 THEN ByteOr0(s) ELSE args[i]
            BY ONLY <4>2, <5>1, <5>2
          <6>2. 1 \in 1..Len(args') /\ 2 \in 1..Len(args')  BY ONLY <4>5, <6>1
          <6> QED  BY ONLY <4>5, <6>1, <6>2
        <5>4. /\ CurrAddress' + left' + Len(args') = args'[1] + SPM_PAGESIZE + 1
              /\ left' % 2 # 0
          <6>1. left' % 2 # 0  BY ONLY <3>1, <3>4, <3>5, <4>1, <4>5
          <6>2. CurrAddress + left + 1 = args[1] + SPM_PAGESIZE + 1  BY ONLY <4>1, <4>5, Zenon
          <6>3. CurrAddress + (left - 1) + 2 = args[1] + SPM_PAGESIZE + 1
            BY ONLY <3>4, <3>5, <4>2, <4>3, <6>2
          <6> QED  BY ONLY <3>1, <5>1, <5>3, <6>1, <6>3, Zenon
        <5>5. Writing'  BY ONLY <3>1, <3>9, <3>11, <4>1, <4>4, <5>3, <5>4 DEF Writing
        <5> QED  BY ONLY <3>1, <3>4, <3>6, <5>5 DEF Bytes, Waiting, Answering
      <4>6. CASE Len(args) = 2
        <5>1. args' = <<args[1]>> /\ CurrAddress' = CurrAddress + 2
          BY ONLY <3>1, <3>11, <4>6
        <5>2. Len(args') = 1 /\ args'[1] = args[1]  BY ONLY <5>1
        <5>3. /\ CurrAddress' + left' + Len(args') = args'[1] + SPM_PAGESIZE + 1
              /\ left' % 2 = 0
          <6>1. left' % 2 = 0  BY ONLY <3>1, <3>4, <3>5, <4>1, <4>6
          <6>2. CurrAddress + left + 2 = args[1] + SPM_PAGESIZE + 1  BY ONLY <4>1, <4>6, Zenon
          <6>3. (CurrAddress + 2) + (left - 1) + 1 = args[1] + SPM_PAGESIZE + 1
            BY ONLY <3>4, <3>5, <4>2, <4>3, <6>2
          <6> QED  BY ONLY <3>1, <5>1, <5>2, <6>1, <6>3, Zenon
        <5>4. Writing'  BY ONLY <3>1, <3>9, <3>11, <4>1, <5>2, <5>3 DEF Writing
        <5> QED  BY ONLY <3>1, <3>4, <3>6, <5>4 DEF Bytes, Waiting, Answering
      <4> QED  BY ONLY <3>7, <4>5, <4>6
    <3> QED  BY ONLY <3>7, <3>10, <3>11
  <2> QED  BY ONLY <2>1, <2>2, Zenon
<1>17. CASE BlockDone
  <2>1. pc' \notin {"fetch", "exec", "block"}  BY ONLY <1>17 DEF BlockDone, Reply
  <2>2. Coming' = 0
    <3>1. outLeft' = outLeft /\ toSend' = toSend  BY ONLY <1>17 DEF BlockDone, out, host
    <3>2. Coming <= left /\ left = 0  BY ONLY <1>17, <1>y DEF BlockDone, Bytes
    <3> QED  BY ONLY <3>1, <3>2, <1>n DEF Coming
  <2> QED  BY ONLY <2>1, <2>2, NoneComing, Zenon
<1>18. CASE WriteNextResponseByte
  <2>1. UNCHANGED <<Command, args, left, asked, CurrAddress>>
    BY ONLY <1>18 DEF WriteNextResponseByte, ClearIN, IsReadWriteAllowed, memory, task, host
  <2>2. pc' = pc \/ (pc \in Waiting /\ pc' \in Waiting \cup {"exit"})
    BY ONLY <1>18 DEF WriteNextResponseByte, ClearIN, IsReadWriteAllowed, Waiting
  <2>3. Coming' <= Coming
    BY ONLY <1>18, <1>n DEF WriteNextResponseByte, ClearIN, IsReadWriteAllowed, Coming, out, host
  <2> QED  BY ONLY <1>a, <1>p, <1>y, <2>1, <2>2, <2>3, SameBytes, Zenon
<1>19. CASE Send
  <2>1. pc' \notin {"fetch", "exec", "block"}  BY ONLY <1>19 DEF Send, ClearIN
  <2>2. Coming' = 0
    <3>1. Coming = 0  BY ONLY <1>19, <1>y DEF Send, ClearIN, Bytes, Answering
    <3> QED  BY ONLY <1>19, <1>n, <3>1 DEF Send, ClearIN, Coming, out, host
  <2> QED  BY ONLY <2>1, <2>2, NoneComing, Zenon
<1>20. CASE SendEmpty
  <2>1. pc' \notin {"fetch", "exec", "block"}  BY ONLY <1>20 DEF SendEmpty, ClearIN
  <2>2. Coming' = 0
    <3>1. Coming = 0  BY ONLY <1>20, <1>y DEF SendEmpty, ClearIN, Bytes, Answering
    <3> QED  BY ONLY <1>20, <1>n, <3>1 DEF SendEmpty, ClearIN, Coming, out, host
  <2> QED  BY ONLY <2>1, <2>2, NoneComing, Zenon
<1>21. CASE Acknowledge
  <2>1. pc' \notin {"fetch", "exec", "block"}  BY ONLY <1>21 DEF Acknowledge, ClearOUT, NoTask
  <2>2. Coming' = 0
    <3>1. Coming = 0  BY ONLY <1>21, <1>y DEF Acknowledge, ClearOUT, NoTask, Bytes, Answering
    <3> QED  BY ONLY <1>21, <1>n, <3>1 DEF Acknowledge, ClearOUT, NoTask, Coming, out, host
  <2> QED  BY ONLY <2>1, <2>2, NoneComing, Zenon
<1>22. ASSUME NEW c \in Commands, HostCommand(c) PROVE Bytes'
  <2>1. /\ pc' = "poll" /\ outLeft' = outLeft /\ CurrAddress' = CurrAddress /\ asked' = c
        /\ toSend' = 1 + Args(c) + Data(c) /\ Sensible(c)
    BY ONLY <1>22 DEF HostCommand, task, memory, out, Data
  <2>2. outLeft = 0  BY ONLY <1>22, <1>a, <1>e, <1>n DEF HostCommand, Endpoints
  <2>3. Sensible(asked)'  BY ONLY <2>1 DEF Sensible
  <2>4. Args(asked)' = Args(c) /\ Data(asked)' = Data(c)  BY ONLY <2>1 DEF Args, Data, BlockSize
  <2>5. Coming' = 1 + Args(asked)' + Data(asked)'
    BY ONLY <2>1, <2>2, <2>4, Kinds, Sizes DEF Coming
  <2>6. 1 + Args(asked)' + Data(asked)' \in Nat  BY ONLY <2>4, Kinds, Sizes
  <2> QED  BY ONLY <2>1, <2>3, <2>5, <2>6 DEF Bytes, Waiting, Answering
<1>23. CASE HostPacket
  <2>1. UNCHANGED <<Command, args, left, asked, CurrAddress>>
    BY ONLY <1>23 DEF HostPacket, memory, task, host
  <2>2. pc' = pc \/ (pc \in Waiting /\ pc' \in Waiting \cup {"exit"})
    BY ONLY <1>23 DEF HostPacket, Waiting
  <2>3. Coming' <= Coming
    <3>1. outLeft = 0  BY ONLY <1>23, <1>a, <1>e, <1>n DEF HostPacket, Endpoints
    <3> QED  BY ONLY <1>23, <1>n, <3>1 DEF HostPacket, Coming
  <2> QED  BY ONLY <1>a, <1>p, <1>y, <2>1, <2>2, <2>3, SameBytes, Zenon
<1>24. CASE HostTakes
  <2>1. UNCHANGED <<Command, args, left, asked, CurrAddress>>
    BY ONLY <1>24 DEF HostTakes, memory, task, host
  <2>2. pc' = pc \/ (pc \in Waiting /\ pc' \in Waiting \cup {"exit"})
    BY ONLY <1>24 DEF HostTakes, Waiting
  <2>3. Coming' <= Coming
    BY ONLY <1>24, <1>n DEF HostTakes, Coming, out, host
  <2> QED  BY ONLY <1>a, <1>p, <1>y, <2>1, <2>2, <2>3, SameBytes, Zenon
<1>25. CASE Unplug
  <2>1. UNCHANGED <<Command, args, left, asked, CurrAddress>>
    BY ONLY <1>25 DEF Unplug, memory, task, host
  <2>2. pc' = pc \/ (pc \in Waiting /\ pc' \in Waiting \cup {"exit"})
    BY ONLY <1>25 DEF Unplug, Waiting
  <2>3. Coming' <= Coming
    BY ONLY <1>25, <1>n DEF Unplug, Coming, out, host
  <2> QED  BY ONLY <1>a, <1>p, <1>y, <2>1, <2>2, <2>3, SameBytes, Zenon
<1>26. CASE Plug
  <2>1. UNCHANGED <<Command, args, left, asked, CurrAddress>>
    BY ONLY <1>26 DEF Plug, memory, task, host
  <2>2. pc' = pc \/ (pc \in Waiting /\ pc' \in Waiting \cup {"exit"})
    BY ONLY <1>26 DEF Plug, Waiting
  <2>3. Coming' <= Coming
    BY ONLY <1>26, <1>n DEF Plug, Coming, out, host
  <2> QED  BY ONLY <1>a, <1>p, <1>y, <2>1, <2>2, <2>3, SameBytes, Zenon
<1>27. CASE BusReset
  <2>1. UNCHANGED <<Command, args, left, asked, CurrAddress>>
    BY ONLY <1>27 DEF BusReset, memory, task, host
  <2>2. pc' = pc \/ (pc \in Waiting /\ pc' \in Waiting \cup {"exit"})
    BY ONLY <1>27 DEF BusReset, Waiting
  <2>3. Coming' <= Coming
    BY ONLY <1>27, <1>n DEF BusReset, Coming, out, host
  <2> QED  BY ONLY <1>a, <1>p, <1>y, <2>1, <2>2, <2>3, SameBytes, Zenon
<1> QED
  BY <1>1, <1>2, <1>3, <1>4, <1>5, <1>6, <1>7, <1>8, <1>9, <1>10, <1>11, <1>12,
     <1>13, <1>14, <1>15, <1>16, <1>17, <1>18, <1>19, <1>20, <1>21, <1>22, <1>23, <1>24,
     <1>25, <1>26, <1>27,
     Zenon DEF Next, Processor, Programmer, CDC_Task, Exec

\* Three kinds of step that keep the session: the command is as it was, it is
\* being answered, it is over.
LEMMA SameSession ==
  ASSUME InSession, UNCHANGED <<Command, args, left, asked, CurrAddress, sent, where>>,
         usb' = usb, pc' = pc, Coming' = Coming, heard' = heard \/ pc \in Answering,
         pc \in Waiting => (outReceived' => outLeft' > 0),
         pc = "command" => outReceived', usb # "Configured" => ~outReceived'
  PROVE  InSession'
<1>1. /\ Command' = Command /\ args' = args /\ left' = left /\ asked' = asked
      /\ CurrAddress' = CurrAddress /\ sent' = sent /\ where' = where
  OBVIOUS
<1>2. /\ Args(asked)' = Args(asked) /\ Data(asked)' = Data(asked)
      /\ Args(Command)' = Args(Command) /\ Data(Command)' = Data(Command)
  BY ONLY <1>1 DEF Args, Data, BlockSize
<1>3. CASE pc \in Answering
  BY <1>1, <1>3 DEF InSession, Waiting, Answering
<1>4. CASE heard' = heard
  BY <1>1, <1>2, <1>4 DEF InSession
<1> QED  BY <1>3, <1>4

\* The answer to the command under way.
LEMMA AnswerSession ==
  ASSUME pc' \in Answering, Command' = asked', asked' \notin {"C", "c", "m"}, usb' = "Configured"
  PROVE  InSession'
BY DEF InSession, Waiting, Answering

\* No command is under way.
LEMMA OverSession ==
  ASSUME pc' \in {"poll", "usb", "start", "app", "exit"}, Coming' = 0, ~outReceived',
         asked' \notin {"C", "c", "m"}
  PROVE  InSession'
BY DEF InSession, Waiting

\* The session of a programmer whose cable stays in.
LEMMA StepSession ==
  ASSUME SafeInv, ByBlock, InSession, Next
  PROVE  InSession'
<1>0. UNCHANGED session  BY Zenon DEF Next
<1>a. PortTypes /\ TaskTypes /\ HostTypes /\ MemoryTypes /\ SessionTypes  BY Zenon DEF SafeInv, Types
<1>e. Endpoints  BY Zenon DEF SafeInv
<1>y. Bytes  BY Zenon DEF SafeInv
<1>b. ByBlock  OBVIOUS
<1>s. InSession  OBVIOUS
<1>n. outLeft \in Nat /\ toSend \in Nat  BY ONLY <1>a, Sizes DEF PortTypes, HostTypes
<1>1. CASE main
  <2>1. pc' \in {"poll", "app"} /\ ~outReceived' /\ outLeft' = 0 /\ toSend' = 0 /\ asked' = "?"
    BY ONLY <1>1, Zenon DEF main
  <2>2. Coming' = 0  BY ONLY <2>1 DEF Coming
  <2>3. pc' \in {"poll", "usb", "start", "app", "exit"} /\ asked' \notin {"C", "c", "m"}
    BY ONLY <2>1
  <2> QED  BY ONLY <2>1, <2>2, <2>3, OverSession, Zenon
<1>2. CASE Reset
  <2>1. pc' = "start" /\ usb' = usb /\ outReceived' = outReceived /\ asked' = asked
    BY ONLY <1>2 DEF Reset, out, host
  <2> QED  BY ONLY <1>2, <2>1, <1>s DEF InSession, Waiting, Reset
<1>3. CASE USB_USBTask
  <2>1. /\ asked' = asked /\ sent' = sent /\ heard' = heard /\ where' = where
        /\ CurrAddress' = CurrAddress
    BY ONLY <1>3 DEF USB_USBTask, memory, host
  <2>2. Args(asked)' = Args(asked) /\ Data(asked)' = Data(asked)
    BY ONLY <2>1 DEF Args, Data, BlockSize
  <2>3. pc = "usb" /\ pc' \in {"exit", "poll"} /\ toSend' = toSend
    BY ONLY <1>3 DEF USB_USBTask, host
  <2>4. CASE usb' = usb /\ outReceived' = outReceived /\ outLeft' = outLeft
    <3>1. Coming' = Coming  BY ONLY <2>3, <2>4 DEF Coming
    <3>2. usb' # "Configured" => pc' \in {"start", "app", "poll", "usb", "exit"} /\ ~outReceived'
      BY ONLY <2>3, <2>4, <1>s DEF InSession
    <3> QED  BY ONLY <2>1, <2>2, <2>3, <2>4, <3>1, <3>2, <1>s DEF InSession, Waiting
  <2>5. CASE usb = "Default" /\ outReceived' = FALSE /\ outLeft' = 0
    <3>1. toSend = 0  BY ONLY <2>5, <1>e DEF Endpoints
    <3>2. Coming' = 0 /\ ~outReceived'
      <4>1. outLeft' = 0 /\ toSend' = 0  BY ONLY <2>3, <2>5, <3>1
      <4>2. ~outReceived'  BY ONLY <2>5, Zenon
      <4> QED  BY ONLY <4>1, <4>2 DEF Coming
    <3>3. pc' \in {"poll", "usb", "start", "app", "exit"}  BY ONLY <2>3
    <3>4. asked' \notin {"C", "c", "m"}  BY ONLY <2>1, <1>s DEF InSession
    <3> QED  BY ONLY <3>2, <3>3, <3>4, OverSession, Zenon
  <2>6. \/ usb' = usb /\ outReceived' = outReceived /\ outLeft' = outLeft
        \/ usb = "Default" /\ outReceived' = FALSE /\ outLeft' = 0
    BY ONLY <1>3 DEF USB_USBTask, out
  <2> QED  BY ONLY <2>4, <2>5, <2>6, Zenon
<1>4. CASE Poll
  <2>1. /\ asked' = asked /\ sent' = sent /\ heard' = heard /\ where' = where
        /\ CurrAddress' = CurrAddress
    BY ONLY <1>4 DEF Poll, memory, host
  <2>2. Args(asked)' = Args(asked) /\ Data(asked)' = Data(asked)
    BY ONLY <2>1 DEF Args, Data, BlockSize
  <2>3. outReceived' = outReceived /\ outLeft' = outLeft /\ toSend' = toSend /\ usb' = usb
    BY ONLY <1>4 DEF Poll, out, host
  <2>4. /\ pc = "poll" /\ pc' \in {"command", "usb"} /\ (pc' = "command" => outReceived)
    BY ONLY <1>4 DEF Poll
  <2>5. Coming' = Coming  BY ONLY <2>3 DEF Coming
  <2>6. usb' # "Configured" => pc' \in {"start", "app", "poll", "usb", "exit"} /\ ~outReceived'
    BY ONLY <2>3, <2>4, <1>s DEF InSession
  <2> QED  BY ONLY <2>1, <2>2, <2>3, <2>4, <2>5, <2>6, <1>s DEF InSession, Waiting
<1>5. CASE FetchCommand
  <2>0. usb = "Configured" /\ usb' = usb /\ usb # "Unattached"  BY ONLY <1>5, <1>s DEF FetchCommand, InSession
  <2>1. outReceived /\ outLeft > 0 /\ pc = "command"
    BY ONLY <1>5, <1>s DEF FetchCommand, InSession, Waiting
  <2>2. ~NextPacket  BY ONLY <2>1, <1>n DEF NextPacket
  <2>3. InSession'
    <3>1. PICK s \in FetchNextCommandByte({asked}) :
            /\ ByteTaken(s) /\ Command' = (IF s = <<>> THEN "?" ELSE s[1]) /\ args' = <<>>
            /\ pc' = (IF Args(Command') = 0 THEN "exec" ELSE "fetch")
            /\ UNCHANGED <<memory, sent>>
      BY ONLY <1>5, <2>2, Zenon DEF FetchCommand
    <3>2. Len(s) = 1 /\ outLeft > 0 /\ s[1] \in {asked} /\ s = <<s[1]>> /\ ByteOr0(s) = s[1]
      BY ONLY <3>1, <2>0, FetchedByte, Zenon
    <3>3. Coming' = Coming - 1
      BY ONLY <1>5, <3>1, <3>2, <1>n DEF FetchCommand, ByteTaken, Coming
    <3>4. /\ CurrAddress' = CurrAddress /\ sent' = sent /\ asked' = asked
          /\ heard' = heard /\ where' = where
      BY ONLY <1>5, <3>1 DEF memory, FetchCommand
    <3>5. Command' = asked
      <4>1. s # <<>>  BY ONLY <3>2
      <4> QED  BY ONLY <3>1, <3>2, <4>1, Zenon
    <3>6. Coming > 0  BY ONLY <3>2, <1>n DEF Coming
    <3>7. /\ Coming = 1 + Args(asked) + Data(asked)
          /\ sent = <<>> /\ heard = <<>> /\ where = CurrAddress /\ asked \notin {"C", "c", "m"}
      BY ONLY <2>1, <3>6, <1>s DEF InSession, Waiting
    <3>8. Args(Command)' = Args(asked) /\ Data(Command)' = Data(asked)
      BY ONLY <3>5 DEF Args, Data, BlockSize
    <3>9. Args(asked) \in Nat /\ Data(asked) \in Nat  BY ONLY Kinds, Sizes
    <3>10. Coming' = Args(asked) + Data(asked)  BY ONLY <3>3, <3>7, <3>9
    <3>11. Len(args') = 0 /\ args' = <<>>  BY ONLY <3>1
    <3>12. pc' = (IF Args(asked) = 0 THEN "exec" ELSE "fetch")  BY ONLY <3>1, <3>5, Zenon
    <3> QED  BY ONLY <2>0, <3>4, <3>5, <3>7, <3>8, <3>9, <3>10, <3>11, <3>12 DEF InSession, Waiting
  <2> QED  BY ONLY <2>3
<1>6. CASE FetchArgs
  <2>0. usb = "Configured" /\ usb' = usb /\ usb # "Unattached"  BY ONLY <1>6, <1>s DEF FetchArgs, InSession
  <2>1. CASE NextPacket
    <3>1. UNCHANGED <<Command, args, left, asked, CurrAddress, sent, where>>
      BY ONLY <1>6, <2>1 DEF FetchArgs, NextPacket, memory, task
    <3>2. pc' = pc /\ heard' = heard  BY ONLY <1>6, <2>1 DEF FetchArgs, NextPacket
    <3>3. Coming' = Coming
      BY ONLY <1>6, <2>1, <1>n DEF FetchArgs, NextPacket, ClearOUT, Coming
    <3>4. pc \notin Waiting /\ pc # "command"  BY ONLY <1>6 DEF FetchArgs, Waiting
    <3> QED  BY ONLY <1>s, <2>0, <3>1, <3>2, <3>3, <3>4, SameSession, Zenon
  <2>2. CASE ~NextPacket
    <3>1. PICK s \in FetchNextCommandByte(ArgBytes) :
            /\ ByteTaken(s) /\ args' = Append(args, ByteOr0(s)) /\ sent' = sent \o s
            /\ pc' = (IF Len(args') = Args(Command) THEN "exec" ELSE "fetch")
            /\ UNCHANGED <<memory, Command, left, replies>>
      BY ONLY <1>6, <2>2, Zenon DEF FetchArgs
    <3>2. Len(s) = 1 /\ outLeft > 0 /\ s[1] \in ArgBytes /\ s = <<s[1]>> /\ ByteOr0(s) = s[1]
      BY ONLY <3>1, <2>0, FetchedByte, Zenon
    <3>3. Coming' = Coming - 1
      BY ONLY <1>6, <3>1, <3>2, <1>n DEF FetchArgs, ByteTaken, Coming
    <3>4. /\ CurrAddress' = CurrAddress /\ Command' = Command /\ asked' = asked
          /\ heard' = heard /\ where' = where
      BY ONLY <1>6, <3>1 DEF memory, FetchArgs
    <3>5. /\ Coming = Args(Command) - Len(args) + Data(Command) /\ Command = asked
          /\ sent = args /\ heard = <<>> /\ where = CurrAddress /\ asked \notin {"C", "c", "m"}
          /\ Command \in {"BF", "BE", "gF", "gE"} => \A i \in 1..Len(args) : args[i] = 1
      BY ONLY <1>6, <1>s DEF FetchArgs, InSession, Waiting
    <3>6. args \in Seq(Nat) /\ s[1] \in Nat
      BY ONLY <3>2, <1>a, ArgTypes, Kinds DEF TaskTypes
    <3>7. /\ Len(args') = Len(args) + 1 /\ Len(args) \in Nat
          /\ \A i \in 1..Len(args') : args'[i] = IF i = Len(args) + 1 THEN s[1] ELSE args[i]
      BY ONLY <3>1, <3>2, <3>6
    <3>8. sent' = args'
      <4> DEFINE b == s[1]
      <4>1. b \in Nat /\ s = <<b>> /\ ByteOr0(s) = b  BY ONLY <3>2, <3>6
      <4> HIDE DEF b
      <4>2. Append(args, b) = args \o <<b>>  BY ONLY <3>6, <4>1, Short
      <4> QED  BY ONLY <3>1, <3>5, <4>1, <4>2, Zenon
    <3>9. Command \in {"BF", "BE", "gF", "gE"} => \A i \in 1..Len(args') : args'[i] = 1
      <4>1. Command \in {"BF", "BE", "gF", "gE"} => s[1] = 1  BY ONLY <3>2 DEF ArgBytes
      <4> QED  BY ONLY <3>5, <3>7, <4>1
    <3>10. Args(Command)' = Args(Command) /\ Data(Command)' = Data(Command)
      BY ONLY <3>4 DEF Args, Data, BlockSize
    <3>11. Args(Command) \in Nat /\ Data(Command) \in Nat  BY ONLY Kinds, Sizes
    <3>12. Coming' = Args(Command) - Len(args') + Data(Command)  BY ONLY <3>3, <3>5, <3>7, <3>11
    <3>13. pc' \in {"exec", "fetch"} /\ (pc' = "exec" => Len(args') = Args(Command))
      BY ONLY <3>1
    <3>14. pc' = "exec" => Coming' = Data(Command)  BY ONLY <3>11, <3>12, <3>13
    <3>15. usb' = "Configured"  BY ONLY <2>0
    <3> QED
      BY ONLY <3>4, <3>5, <3>8, <3>9, <3>10, <3>12, <3>13, <3>14, <3>15 DEF InSession, Waiting
  <2> QED  BY ONLY <2>1, <2>2, Zenon
<1>7. CASE pc = "exec" /\ ExecReport /\ UNCHANGED <<usb, out, in, host>>
  <2>1. Command = asked /\ asked \notin {"C", "c", "m"} /\ usb = "Configured"
    BY ONLY <1>7, <1>s DEF InSession, Waiting
  <2>2. pc' \in Answering /\ Command' = Command /\ asked' = asked /\ usb' = usb
    BY ONLY <1>7 DEF ExecReport, Reply, Constants, Answering, task, host
  <2> QED  BY ONLY <2>1, <2>2, AnswerSession, Zenon
<1>8. CASE pc = "exec" /\ ExecExit /\ UNCHANGED <<usb, out, in, host>>
  <2>1. Command = asked /\ asked \notin {"C", "c", "m"} /\ usb = "Configured"
    BY ONLY <1>8, <1>s DEF InSession, Waiting
  <2>2. pc' \in Answering /\ Command' = Command /\ asked' = asked /\ usb' = usb
    BY ONLY <1>8 DEF ExecExit, Reply, Answering, task, host
  <2> QED  BY ONLY <2>1, <2>2, AnswerSession, Zenon
<1>9. CASE pc = "exec" /\ ExecAddress /\ UNCHANGED <<usb, out, in, host>>
  <2>1. Command = asked /\ asked \notin {"C", "c", "m"} /\ usb = "Configured"
    BY ONLY <1>9, <1>s DEF InSession, Waiting
  <2>2. pc' \in Answering /\ Command' = Command /\ asked' = asked /\ usb' = usb
    BY ONLY <1>9 DEF ExecAddress, Reply, Answering, task, host
  <2> QED  BY ONLY <2>1, <2>2, AnswerSession, Zenon
<1>10. CASE pc = "exec" /\ ExecErase /\ UNCHANGED <<usb, out, in, host>>
  <2>1. Command = asked /\ asked \notin {"C", "c", "m"} /\ usb = "Configured"
    BY ONLY <1>10, <1>s DEF InSession, Waiting
  <2>2. pc' \in Answering /\ Command' = Command /\ asked' = asked /\ usb' = usb
    BY ONLY <1>10 DEF ExecErase, Reply, Answering, task, host
  <2> QED  BY ONLY <2>1, <2>2, AnswerSession, Zenon
<1>11. CASE pc = "exec" /\ ExecFill /\ UNCHANGED <<usb, out, in, host>>
  <2>1. Command = asked /\ asked \notin {"C", "c", "m"} /\ usb = "Configured"
    BY ONLY <1>11, <1>s DEF InSession, Waiting
  <2>2. pc' \in Answering /\ Command' = Command /\ asked' = asked /\ usb' = usb
    BY ONLY <1>11 DEF ExecFill, Reply, Answering, task, host
  <2> QED  BY ONLY <2>1, <2>2, AnswerSession, Zenon
<1>12. CASE pc = "exec" /\ ExecCommitPage /\ UNCHANGED <<usb, out, in, host>>
  <2>1. Command = asked /\ asked \notin {"C", "c", "m"} /\ usb = "Configured"
    BY ONLY <1>12, <1>s DEF InSession, Waiting
  <2>2. pc' \in Answering /\ Command' = Command /\ asked' = asked /\ usb' = usb
    BY ONLY <1>12 DEF ExecCommitPage, Reply, Answering, task, host
  <2> QED  BY ONLY <2>1, <2>2, AnswerSession, Zenon
<1>13. CASE pc = "exec" /\ ExecEeprom /\ UNCHANGED <<usb, out, in, host>>
  <2>1. Command = asked /\ asked \notin {"C", "c", "m"} /\ usb = "Configured"
    BY ONLY <1>13, <1>s DEF InSession, Waiting
  <2>2. pc' \in Answering /\ Command' = Command /\ asked' = asked /\ usb' = usb
    BY ONLY <1>13 DEF ExecEeprom, Reply, Answering, task, host
  <2> QED  BY ONLY <2>1, <2>2, AnswerSession, Zenon
<1>14. CASE pc = "exec" /\ ExecReadBlock /\ UNCHANGED <<usb, out, in, host>>
  <2>1. Command = asked /\ asked \notin {"C", "c", "m"} /\ usb = "Configured"
    BY ONLY <1>14, <1>s DEF InSession, Waiting
  <2>2. pc' \in Answering /\ Command' = Command /\ asked' = asked /\ usb' = usb
    BY ONLY <1>14 DEF ExecReadBlock, Reply, Answering, task, host
  <2> QED  BY ONLY <2>1, <2>2, AnswerSession, Zenon
<1>15. CASE pc = "exec" /\ ExecWriteBlock /\ UNCHANGED <<usb, out, in, host>>
  <2>1. /\ Command = asked /\ asked \notin {"C", "c", "m"} /\ usb = "Configured"
        /\ Coming = Data(Command) /\ heard = <<>>
    BY ONLY <1>15, <1>s DEF InSession, Waiting
  <2>2. /\ Command \in {"BF", "BE"} /\ left' = BlockSize(Command) /\ pc' = "block"
        /\ Command' = Command /\ asked' = asked /\ usb' = usb /\ heard' = heard
    BY ONLY <1>15 DEF ExecWriteBlock, host
  <2>3. Coming' = Coming  BY ONLY <1>15 DEF out, host, Coming
  <2>4. Coming' = left'  BY ONLY <2>1, <2>2, <2>3 DEF Data
  <2> QED  BY ONLY <2>1, <2>2, <2>4 DEF InSession, Waiting
<1>16. CASE Block
  <2>0. usb = "Configured" /\ usb' = usb /\ usb # "Unattached"  BY ONLY <1>16, <1>s DEF Block, InSession
  <2>1. CASE NextPacket
    <3>1. UNCHANGED <<Command, args, left, asked, CurrAddress, sent, where>>
      BY ONLY <1>16, <2>1 DEF Block, NextPacket, memory, task
    <3>2. pc' = pc /\ heard' = heard  BY ONLY <1>16, <2>1 DEF Block, NextPacket
    <3>3. Coming' = Coming
      BY ONLY <1>16, <2>1, <1>n DEF Block, NextPacket, ClearOUT, Coming
    <3>4. pc \notin Waiting /\ pc # "command"  BY ONLY <1>16 DEF Block, Waiting
    <3> QED  BY ONLY <1>s, <2>0, <3>1, <3>2, <3>3, <3>4, SameSession, Zenon
  <2>2. CASE ~NextPacket
    <3>1. PICK s \in FetchNextCommandByte(HostBytes) :
            ByteTaken(s) /\ left' = left - 1 /\ pc' = pc /\ Command' = Command
      BY ONLY <1>16, <2>2 DEF Block
    <3>2. Len(s) = 1 /\ outLeft > 0 /\ s[1] \in HostBytes /\ s = <<s[1]>> /\ ByteOr0(s) = s[1]
      BY ONLY <3>1, <2>0, FetchedByte, Zenon
    <3>3. Coming' = Coming - 1
      BY ONLY <1>16, <3>1, <3>2, <1>n DEF Block, ByteTaken, Coming
    <3>4. /\ pc = "block" /\ Coming = left /\ heard = <<>> /\ Command = asked
          /\ asked \notin {"C", "c", "m"} /\ heard' = heard /\ asked' = asked
      BY ONLY <1>16, <1>s DEF Block, InSession, Waiting
    <3>5. Coming' = left'  BY ONLY <3>1, <3>3, <3>4
    <3> QED  BY ONLY <2>0, <3>1, <3>4, <3>5 DEF InSession, Waiting
  <2> QED  BY ONLY <2>1, <2>2, Zenon
<1>17. CASE BlockDone
  <2>1. Command = asked /\ asked \notin {"C", "c", "m"} /\ usb = "Configured"
    BY ONLY <1>17, <1>s DEF BlockDone, InSession, Waiting
  <2>2. pc' \in Answering /\ Command' = Command /\ asked' = asked /\ usb' = usb
    BY ONLY <1>17 DEF BlockDone, Reply, Answering, task, host
  <2> QED  BY ONLY <2>1, <2>2, AnswerSession, Zenon
<1>18. CASE WriteNextResponseByte
  <2>1. Command = asked /\ asked \notin {"C", "c", "m"} /\ usb = "Configured"
    BY ONLY <1>18, <1>s DEF WriteNextResponseByte, InSession, Waiting
  <2>2. pc' \in Answering /\ Command' = Command /\ asked' = asked /\ usb' = usb
    BY ONLY <1>18 DEF WriteNextResponseByte, ClearIN, IsReadWriteAllowed, Answering, task, host
  <2> QED  BY ONLY <2>1, <2>2, AnswerSession, Zenon
<1>19. CASE Send
  <2>1. Command = asked /\ asked \notin {"C", "c", "m"} /\ usb = "Configured"
    BY ONLY <1>19, <1>s DEF Send, InSession, Waiting
  <2>2. pc' \in Answering /\ Command' = Command /\ asked' = asked /\ usb' = usb
    BY ONLY <1>19 DEF Send, ClearIN, Answering, task, host
  <2> QED  BY ONLY <2>1, <2>2, AnswerSession, Zenon
<1>20. CASE SendEmpty
  <2>1. Command = asked /\ asked \notin {"C", "c", "m"} /\ usb = "Configured"
    BY ONLY <1>20, <1>s DEF SendEmpty, InSession, Waiting
  <2>2. pc' \in Answering /\ Command' = Command /\ asked' = asked /\ usb' = usb
    BY ONLY <1>20, <2>1 DEF SendEmpty, Answering, task, host
  <2> QED  BY ONLY <2>1, <2>2, AnswerSession, Zenon
<1>21. CASE Acknowledge
  <2>1. usb = "Configured" /\ asked \notin {"C", "c", "m"} /\ pc = "sent"
    BY ONLY <1>21, <1>s DEF Acknowledge, InSession, Waiting
  <2>2. ~outReceived' /\ outLeft' = 0 /\ pc' = "usb"
    BY ONLY <1>21, <2>1, Zenon DEF Acknowledge, ClearOUT
  <2>3. toSend' = toSend /\ asked' = asked  BY ONLY <1>21 DEF Acknowledge, host
  <2>4. Coming = 0  BY ONLY <2>1, <1>y DEF Bytes, Answering
  <2>5. Coming' = 0  BY ONLY <2>2, <2>3, <2>4, <1>n DEF Coming
  <2>6. pc' \in {"poll", "usb", "start", "app", "exit"} /\ asked' \notin {"C", "c", "m"}
    BY ONLY <2>1, <2>2, <2>3
  <2> QED  BY ONLY <2>2, <2>5, <2>6, OverSession, Zenon
<1>22. ASSUME NEW c \in Commands, HostCommand(c) PROVE InSession'
  <2>1. /\ usb = "Configured" /\ usb' = usb /\ pc' = "poll" /\ ~outReceived /\ outLeft' = outLeft
        /\ outReceived' = outReceived
        /\ CurrAddress' = CurrAddress /\ asked' = c /\ where' = CurrAddress
        /\ toSend' = 1 + Args(c) + Data(c) /\ sent' = <<>> /\ heard' = <<>>
    BY ONLY <1>22 DEF HostCommand, task, memory, out, Data
  <2>2. outLeft = 0  BY ONLY <1>22, <1>e, <1>n DEF HostCommand, Endpoints
  <2>3. Args(asked)' = Args(c) /\ Data(asked)' = Data(c)  BY ONLY <2>1 DEF Args, Data, BlockSize
  <2>4. Coming' = 1 + Args(asked)' + Data(asked)'
    BY ONLY <2>1, <2>2, <2>3, Kinds, Sizes DEF Coming
  <2>5. c \notin {"C", "c", "m"}  BY ONLY c \in Commands, <1>b DEF ByBlock
  <2> QED  BY ONLY <2>1, <2>4, <2>5 DEF InSession, Waiting
<1>23. CASE HostPacket
  <2>1. UNCHANGED <<Command, args, left, asked, CurrAddress, sent, where>>
    BY ONLY <1>23 DEF HostPacket, task, memory
  <2>2. usb = "Configured" /\ usb' = usb /\ pc' = pc /\ heard' = heard  BY ONLY <1>23 DEF HostPacket
  <2>3. outReceived' /\ outLeft' > 0
    <3>1. outReceived'  BY ONLY <1>23, Zenon DEF HostPacket
    <3>2. outLeft' > 0  BY ONLY <1>23, Sizes DEF HostPacket
    <3> QED  BY ONLY <3>1, <3>2
  <2>4. outLeft = 0  BY ONLY <1>23, <1>e, <1>n DEF HostPacket, Endpoints
  <2>5. Coming' = Coming  BY ONLY <1>23, <1>n, <2>4 DEF HostPacket, Coming
  <2> QED  BY ONLY <1>s, <2>1, <2>2, <2>3, <2>5, SameSession, Zenon
<1>24. CASE HostTakes
  <2>1. usb = "Configured" /\ ~inReady  BY ONLY <1>24, Zenon DEF HostTakes
  <2>2. pc \in Answering  BY ONLY <2>1, <1>e, Zenon DEF Endpoints
  <2>3. pc' = pc /\ Command' = Command /\ asked' = asked /\ usb' = usb
    BY ONLY <1>24 DEF HostTakes, task
  <2>4. Command = asked /\ asked \notin {"C", "c", "m"}
    BY ONLY <2>2, <1>s DEF InSession, Waiting, Answering
  <2> QED  BY ONLY <2>1, <2>2, <2>3, <2>4, AnswerSession, Zenon
<1>25. CASE Unplug
  BY ONLY <1>25, <1>b DEF Unplug, ByBlock
<1>26. CASE Plug
  <2>1. /\ asked' = asked /\ sent' = sent /\ heard' = heard /\ where' = where
        /\ CurrAddress' = CurrAddress
    BY ONLY <1>26 DEF Plug, memory, host
  <2>2. Args(asked)' = Args(asked) /\ Data(asked)' = Data(asked)
    BY ONLY <2>1 DEF Args, Data, BlockSize
  <2>3. /\ usb = "Unattached" /\ pc \in {"poll", "usb"} /\ ~outReceived
        /\ pc' = pc /\ outReceived' = outReceived /\ outLeft' = outLeft /\ toSend' = toSend
    BY ONLY <1>26 DEF Plug, out, host
  <2>4. toSend = 0 /\ outLeft = 0  BY ONLY <2>3, <1>e, <1>n DEF Endpoints
  <2>5. Coming' = 0 /\ ~outReceived'
    <3>1. Coming' = 0  BY ONLY <2>3, <2>4 DEF Coming
    <3> QED  BY ONLY <2>3, <3>1, Zenon
  <2>6. pc' \in {"poll", "usb", "start", "app", "exit"} /\ asked' \notin {"C", "c", "m"}
    BY ONLY <2>1, <2>3, <1>s DEF InSession
  <2> QED  BY ONLY <2>5, <2>6, OverSession, Zenon
<1>27. CASE BusReset
  BY ONLY <1>27, <1>b DEF BusReset, ByBlock
<1> QED
  BY <1>1, <1>2, <1>3, <1>4, <1>5, <1>6, <1>7, <1>8, <1>9, <1>10, <1>11, <1>12,
     <1>13, <1>14, <1>15, <1>16, <1>17, <1>18, <1>19, <1>20, <1>21, <1>22, <1>23, <1>24,
     <1>25, <1>26, <1>27,
     Zenon DEF Next, Processor, Programmer, CDC_Task, Exec

\* An answer of one byte is with the programmer, or is not.
LEMMA OneByte ==
  ASSUME NEW h \in Seq(Nat), NEW q \in Seq(Nat), NEW r \in Seq(Nat), h \o (q \o r) = <<CR>>
  PROVE  /\ h = <<CR>> => q = <<>> /\ r = <<>>
         /\ h \o q = <<CR>> => q = <<>> \/ h = <<>>
<1>1. Len(h) \in Nat /\ Len(q) \in Nat /\ Len(r) \in Nat /\ Len(<<CR>>) = 1  OBVIOUS
<1>2. Len(h \o (q \o r)) = Len(h) + (Len(q) + Len(r)) /\ Len(h \o q) = Len(h) + Len(q)
  <2>1. q \o r \in Seq(Nat) /\ Len(q \o r) = Len(q) + Len(r)
    BY ONLY q \in Seq(Nat), r \in Seq(Nat)
  <2>2. Len(h \o q) = Len(h) + Len(q)  BY ONLY h \in Seq(Nat), q \in Seq(Nat)
  <2> DEFINE t == q \o r
  <2>3. t \in Seq(Nat)  BY <2>1
  <2> HIDE DEF t
  <2>4. Len(h \o t) = Len(h) + Len(t)  BY ONLY h \in Seq(Nat), <2>3
  <2> QED  BY <2>1, <2>2, <2>4, Zenon DEF t
<1>3. Len(h) + (Len(q) + Len(r)) = 1  BY <1>1, <1>2
<1>4. /\ Len(q) = 0 => q = <<>>
      /\ Len(r) = 0 => r = <<>>
      /\ Len(h) = 0 => h = <<>>
  BY EmptySeq
<1>5. h = <<CR>> => Len(q) = 0 /\ Len(r) = 0  BY <1>1, <1>3
<1>6. h \o q = <<CR>> => Len(q) = 0 \/ Len(h) = 0  BY <1>1, <1>2
<1> QED  BY ONLY <1>4, <1>5, <1>6, Zenon

\* Steps between commands, steps of an answer, and the beginning of one that
\* says nothing of flash.
LEMMA QuietContents ==
  ASSUME pc' \notin Answering \cup {"block"}, flash' = image', buffer' = EmptyBuffer,
         pc' \in Waiting /\ asked' = "gF" /\ heard' # <<>> => heard' = Reading'
  PROVE  Contents'
<1>1. EmptyBuffer' = EmptyBuffer  OBVIOUS
<1>2. pc' # "zlp" /\ pc' # "sent" /\ pc' # "block"  BY DEF Answering
<1> QED  BY <1>1, <1>2 DEF Contents

\* What the programmer will know depends only on what it has done.
LEMMA SameImage ==
  ASSUME UNCHANGED <<image, where, sent>>
  PROVE  Written' = Written /\ Reading' = Reading
<1>1. image' = image /\ where' = where /\ sent' = sent  OBVIOUS
<1> QED  BY ONLY <1>1, Zenon DEF Written, Reading

\* A step of an answer, none of whose bytes is lost.
LEMMA AnswerContents ==
  ASSUME Contents, pc \in Answering, pc' \in Answering,
         UNCHANGED <<flash, buffer, image, asked, sent, where, heard>>,
         heard' \o (inBank' \o replies') = heard \o (inBank \o replies),
         pc' \in {"zlp", "sent"} => replies' = <<>>
  PROVE  Contents'
<1>1. /\ flash' = flash /\ buffer' = buffer /\ image' = image /\ asked' = asked
      /\ sent' = sent /\ where' = where /\ heard' = heard
  OBVIOUS
<1>2. Written' = Written /\ Reading' = Reading  BY <1>1, SameImage, Zenon
<1>3. pc # "block" /\ pc' # "block" /\ pc' \notin Waiting  BY DEF Answering, Waiting
<1>4. Erased' = Erased /\ EmptyBuffer' = EmptyBuffer /\ CR' = CR  BY Zenon
<1>5. buffer = EmptyBuffer  BY <1>3 DEF Contents
<1>6. LET answer == heard \o (inBank \o replies) IN
       /\ asked = "BF" =>
            answer = <<CR>> /\ flash = IF heard = <<CR>> THEN image ELSE Written
       /\ asked = "e" => answer = <<CR>> /\ flash = Erased /\ (heard = <<CR>> => image = Erased)
       /\ asked \notin {"BF", "e"} => flash = image
       /\ asked = "gF" => answer = Reading
  BY Zenon DEF Contents
<1>7. LET answer == heard' \o (inBank' \o replies') IN
       /\ asked' = "BF" =>
            answer = <<CR>> /\ flash' = IF heard' = <<CR>> THEN image' ELSE Written'
       /\ asked' = "e" => answer = <<CR>> /\ flash' = Erased /\ (heard' = <<CR>> => image' = Erased)
       /\ asked' \notin {"BF", "e"} => flash' = image'
       /\ asked' = "gF" => answer = Reading'
  BY ONLY <1>1, <1>2, <1>6, heard' \o (inBank' \o replies') = heard \o (inBank \o replies), Zenon
<1>8. buffer' = EmptyBuffer  BY ONLY <1>1, <1>5, Zenon
<1> QED  BY ONLY pc' \in Answering, pc' \in {"zlp", "sent"} => replies' = <<>>,
                 <1>3, <1>4, <1>7, <1>8, Zenon DEF Contents

\* The answer to a command that leaves flash alone and does not read it.
LEMMA PlainAnswer ==
  ASSUME pc' = "reply", flash' = image', buffer' = EmptyBuffer, asked' \notin {"BF", "e", "gF"}
  PROVE  Contents'
<1>1. EmptyBuffer' = EmptyBuffer  OBVIOUS
<1>2. /\ pc' \in Answering /\ pc' # "block" /\ pc' \notin {"zlp", "sent"} /\ pc' \notin Waiting
      /\ asked' # "BF" /\ asked' # "e" /\ asked' # "gF"
  BY DEF Answering, Waiting
<1> QED  BY ONLY flash' = image', buffer' = EmptyBuffer, <1>1, <1>2, Zenon DEF Contents

\* What is left of an even number of bytes is even when what has gone is.
LEMMA Parity ==
  ASSUME NEW s \in Nat, NEW l \in Nat, l <= s, s % 2 = 0
  PROVE  /\ l % 2 = 0 => (s - l) % 2 = 0
         /\ l % 2 # 0 => (s - l) % 2 = 1
OBVIOUS

\* The next byte of a block: the page buffer takes a word when it is complete.
LEMMA FillOn ==
  ASSUME MemoryTypes, TaskTypes, HostTypes, Writing, Command = "BF", left > 0, Filling,
         flash' = flash, image' = image, where' = where,
         NEW b \in Byte, sent' = sent \o <<b>>, left' = left - 1,
         \/ Len(args) # 2 /\ args' = Append(args, b) /\ buffer' = buffer
         \/ /\ Len(args) = 2 /\ args' = <<args[1]>>
            /\ boot_page_fill(CurrAddress, <<args[2], b>>)
  PROVE  Filling'
<1>1. /\ args \in Seq(Nat) /\ sent \in Seq(Nat) /\ b \in Nat /\ left \in Nat /\ left <= SPM_PAGESIZE
      /\ CurrAddress \in Nat
  BY Kinds, Sizes DEF MemoryTypes, TaskTypes, HostTypes
<1>2. /\ args[1] = where /\ where % SPM_PAGESIZE = 0
      /\ Len(sent) = 3 + SPM_PAGESIZE - left
      /\ \A i \in 1..Len(sent) : sent[i] \in Byte
      /\ Len(args) = 2 => args[2] = sent[Len(sent)]
      /\ \A w \in Words :
           buffer[w] = IF 2 * w + 1 < SPM_PAGESIZE - left
                       THEN <<sent[2 * w + 4], sent[2 * w + 5]>> ELSE Empty
      /\ flash = boot_page_erase(image, where)
  BY Zenon DEF Filling
<1>3. /\ Len(args) \in {1, 2} /\ args[1] + SPM_PAGESIZE <= FlashSize
      /\ CurrAddress + left + Len(args) = args[1] + SPM_PAGESIZE + 1
      /\ left % 2 = 0 <=> Len(args) = 1
  BY DEF Writing
<1>4. SPM_PAGESIZE \in Nat /\ SPM_PAGESIZE % 2 = 0 /\ SPM_PAGESIZE >= 2  BY ONLY Sizes
<1>5. /\ Len(sent') = Len(sent) + 1 /\ Len(sent) \in Nat /\ sent'[Len(sent) + 1] = b
      /\ \A i \in 1..Len(sent) : sent'[i] = sent[i]
  BY ONLY <1>1, sent' = sent \o <<b>>
<1>6. /\ Len(sent') = 3 + SPM_PAGESIZE - left'
      /\ \A i \in 1..Len(sent') : sent'[i] \in Byte
  <2>1. Len(sent') = 3 + SPM_PAGESIZE - left'
    BY ONLY <1>1, <1>2, <1>4, <1>5, left > 0, left' = left - 1
  <2>2. \A i \in 1..Len(sent') : i \in 1..Len(sent) \/ i = Len(sent) + 1  BY ONLY <1>5
  <2> QED  BY ONLY <1>2, <1>5, <2>1, <2>2, b \in Byte
<1>7. \A w \in Words : w \in Nat  BY ONLY <1>4 DEF Words
<1>8. boot_page_erase(image, where)' = boot_page_erase(image, where)
  BY Zenon DEF boot_page_erase
<1>9. flash' = boot_page_erase(image, where)'  BY <1>2, <1>8, Zenon
<1>10. where' % SPM_PAGESIZE = 0 /\ args[1] = where' /\ args[1] \in Nat
  <2>1. args[1] \in Nat  BY ONLY <1>1, <1>3
  <2> QED  BY <1>2, <2>1
<1>11. CASE Len(args) = 1
  <2>1. args' = Append(args, b) /\ buffer' = buffer /\ left % 2 = 0  BY <1>3, <1>11
  <2>2. Len(args') = 2 /\ args'[1] = args[1] /\ args'[2] = b
    <3>1. /\ Len(args') = Len(args) + 1
          /\ \A i \in 1..Len(args') : args'[i] = IF i = Len(args) + 1 THEN b ELSE args[i]
      BY ONLY <1>1, <2>1
    <3>2. 1 \in 1..Len(args') /\ 2 \in 1..Len(args')  BY ONLY <1>11, <3>1
    <3> QED  BY ONLY <1>11, <3>1, <3>2
  <2>3. args'[2] = sent'[Len(sent')]  BY ONLY <1>5, <2>2
  <2>4. ASSUME NEW w \in Words
        PROVE  buffer'[w] = IF 2 * w + 1 < SPM_PAGESIZE - left'
                            THEN <<sent'[2 * w + 4], sent'[2 * w + 5]>> ELSE Empty
    <3>1. w \in Nat  BY ONLY <1>7, <2>4
    <3>2. 2 * w + 1 < SPM_PAGESIZE - left' <=> 2 * w + 1 < SPM_PAGESIZE - left
      <4> DEFINE d == SPM_PAGESIZE - left
      <4>1. d \in Nat /\ d % 2 = 0
        <5>1. d \in Nat  BY ONLY <1>1, <1>4
        <5> QED  BY ONLY <1>1, <1>4, <2>1, <5>1, Parity, Zenon
      <4>2. SPM_PAGESIZE - left' = d + 1  BY ONLY <1>1, <1>4, left' = left - 1
      <4> HIDE DEF d
      <4>3. 2 * w + 1 < d + 1 <=> 2 * w + 1 < d  BY ONLY <3>1, <4>1
      <4> QED  BY ONLY <4>2, <4>3, Zenon DEF d
    <3>3. 2 * w + 1 < SPM_PAGESIZE - left =>
            /\ 2 * w + 4 \in 1..Len(sent)
            /\ 2 * w + 5 \in 1..Len(sent)
      BY ONLY <1>1, <1>2, <1>4, <3>1
    <3>4. 2 * w + 1 < SPM_PAGESIZE - left =>
            sent'[2 * w + 4] = sent[2 * w + 4] /\ sent'[2 * w + 5] = sent[2 * w + 5]
      BY ONLY <1>5, <3>3, Zenon
    <3>5. buffer[w] = IF 2 * w + 1 < SPM_PAGESIZE - left
                      THEN <<sent[2 * w + 4], sent[2 * w + 5]>> ELSE Empty
      BY ONLY <1>2, <2>4, Zenon
    <3> QED  BY ONLY <2>1, <3>2, <3>4, <3>5, Zenon
  <2>5. args'[1] = where'  BY ONLY <1>10, <2>2
  <2> QED  BY ONLY <1>6, <1>9, <1>10, <2>3, <2>4, <2>5, Zenon DEF Filling
<1>12. CASE Len(args) = 2
  <2>1. args' = <<args[1]>> /\ boot_page_fill(CurrAddress, <<args[2], b>>) /\ left % 2 # 0
    BY <1>3, <1>12
  <2>2. Len(args') = 1 /\ args'[1] = args[1]  BY ONLY <2>1
  <2> DEFINE d == SPM_PAGESIZE - left
             v == (d - 1) \div 2
  <2>3. /\ d \in Nat /\ v \in Nat /\ d = 2 * v + 1 /\ d < SPM_PAGESIZE
        /\ CurrAddress = where + (2 * v)
    <3>1. d \in Nat /\ d % 2 = 1 /\ d < SPM_PAGESIZE
      <4>1. d \in Nat /\ d < SPM_PAGESIZE /\ SPM_PAGESIZE = left + d
        BY ONLY <1>1, <1>4, left > 0
      <4> QED  BY ONLY <1>1, <1>4, <2>1, <4>1, Parity, Zenon
    <3>2. CurrAddress + left + 2 = where + SPM_PAGESIZE + 1  BY ONLY <1>2, <1>3, <1>12
    <3>3. CurrAddress = where + (d - 1) /\ where \in Nat
      <4>1. where \in Nat  BY ONLY <1>2, <1>10
      <4> QED  BY ONLY <1>1, <1>4, <3>2, <4>1
    <3> HIDE DEF d
    <3>4. v \in Nat /\ d = 2 * v + 1  BY ONLY <3>1
    <3> HIDE DEF v
    <3>5. CurrAddress = where + (2 * v)  BY ONLY <3>1, <3>3, <3>4
    <3> QED  BY ONLY <3>1, <3>4, <3>5
  <2>4. left = SPM_PAGESIZE - d  BY ONLY <1>1, <1>4
  <2> HIDE DEF d, v
  <2>5. Word(CurrAddress) = v /\ v \in Words
    <3>1. where \in Nat  BY ONLY <1>2, <1>10
    <3>2. where <= CurrAddress /\ CurrAddress < where + SPM_PAGESIZE
      BY ONLY <1>4, <2>3, <3>1
    <3>3. CurrAddress % SPM_PAGESIZE = CurrAddress - where
      BY ONLY <1>1, <1>2, <3>1, <3>2, InPage
    <3>4. CurrAddress % SPM_PAGESIZE = 2 * v  BY ONLY <2>3, <3>1, <3>3
    <3>5. Word(CurrAddress) = (2 * v) \div 2  BY ONLY <3>4, Zenon DEF Word
    <3>6. (2 * v) \div 2 = v  BY ONLY <2>3
    <3>7. v \in Words  BY ONLY <1>4, <2>3 DEF Words
    <3> QED  BY ONLY <3>5, <3>6, <3>7
  <2>6. buffer[v] = Empty
    <3>1. ~(2 * v + 1 < SPM_PAGESIZE - left)  BY ONLY <1>4, <2>3, <2>4
    <3> QED  BY ONLY <1>2, <2>5, <3>1, Zenon
  <2>7. buffer' = [buffer EXCEPT ![v] = <<args[2], b>>]
    <3>1. boot_page_fill(CurrAddress, <<args[2], b>>)  BY ONLY <2>1
    <3> QED  BY ONLY <2>5, <2>6, <3>1 DEF boot_page_fill
  <2>8. DOMAIN buffer = Words
    <3>1. buffer \in [Words -> (Byte \X Byte) \cup {Empty}]  BY Zenon DEF MemoryTypes
    <3> DEFINE T == (Byte \X Byte) \cup {Empty}
    <3>2. buffer \in [Words -> T]  BY <3>1
    <3> HIDE DEF T
    <3> QED  BY ONLY <3>2
  <2>9. ASSUME NEW w \in Words
        PROVE  buffer'[w] = IF 2 * w + 1 < SPM_PAGESIZE - left'
                            THEN <<sent'[2 * w + 4], sent'[2 * w + 5]>> ELSE Empty
    <3>1. w \in Nat  BY ONLY <1>7, <2>9
    <3>2. CASE w = v
      <4>1. 2 * w + 1 < SPM_PAGESIZE - left'
        BY ONLY <1>1, <1>4, <2>3, <2>4, <3>2, left > 0, left' = left - 1
      <4>2. buffer'[w] = <<args[2], b>>  BY ONLY <2>5, <2>7, <2>8, <3>2
      <4>3. 2 * w + 4 = Len(sent) /\ 2 * w + 5 = Len(sent) + 1 /\ Len(sent) \in 1..Len(sent)
        BY ONLY <1>1, <1>2, <1>4, <2>3, <2>4, <3>2
      <4>4. sent'[2 * w + 4] = args[2] /\ sent'[2 * w + 5] = b
        BY ONLY <1>2, <1>5, <1>12, <4>3
      <4> QED  BY ONLY <4>1, <4>2, <4>4, Zenon
    <3>3. CASE w # v
      <4>1. buffer'[w] = buffer[w]  BY ONLY <2>5, <2>7, <2>8, <2>9, <3>3
      <4>2. 2 * w + 1 < SPM_PAGESIZE - left' <=> 2 * w + 1 < SPM_PAGESIZE - left
        BY ONLY <1>1, <1>4, <2>3, <2>4, <3>1, <3>3, left > 0, left' = left - 1
      <4>3. 2 * w + 1 < SPM_PAGESIZE - left =>
              /\ 2 * w + 4 \in 1..Len(sent)
              /\ 2 * w + 5 \in 1..Len(sent)
        BY ONLY <1>1, <1>2, <1>4, <3>1
      <4>4. 2 * w + 1 < SPM_PAGESIZE - left =>
              sent'[2 * w + 4] = sent[2 * w + 4] /\ sent'[2 * w + 5] = sent[2 * w + 5]
        BY ONLY <1>5, <4>3, Zenon
      <4>5. buffer[w] = IF 2 * w + 1 < SPM_PAGESIZE - left
                        THEN <<sent[2 * w + 4], sent[2 * w + 5]>> ELSE Empty
        BY ONLY <1>2, <2>9, Zenon
      <4> QED  BY ONLY <4>1, <4>2, <4>4, <4>5, Zenon
    <3> QED  BY ONLY <3>2, <3>3, Zenon
  <2>10. Len(args') # 2 /\ args'[1] = where'  BY ONLY <1>10, <2>2
  <2> QED  BY ONLY <1>6, <1>9, <1>10, <2>9, <2>10, Zenon DEF Filling
<1> QED  BY ONLY <1>3, <1>11, <1>12

\* The block is complete: the page written holds the bytes that were sent.
LEMMA PageWritten ==
  ASSUME MemoryTypes, TaskTypes, HostTypes, Writing, Command = "BF", left = 0, Filling
  PROVE  boot_page_write(flash, args[1]) = Written
<1>1. /\ args[1] = where /\ where % SPM_PAGESIZE = 0
      /\ Len(sent) = 3 + SPM_PAGESIZE - left
      /\ \A i \in 1..Len(sent) : sent[i] \in Byte
      /\ \A w \in Words :
           buffer[w] = IF 2 * w + 1 < SPM_PAGESIZE - left
                       THEN <<sent[2 * w + 4], sent[2 * w + 5]>> ELSE Empty
      /\ flash = boot_page_erase(image, where)
  BY Zenon DEF Filling
<1>2. SPM_PAGESIZE \in Nat /\ SPM_PAGESIZE % 2 = 0 /\ SPM_PAGESIZE >= 2  BY ONLY Sizes
<1>3. where \in Nat /\ where % 2 = 0
  <2>1. /\ Len(args) \in {1, 2} /\ CurrAddress + left + Len(args) = args[1] + SPM_PAGESIZE + 1
        /\ left % 2 = 0 <=> Len(args) = 1
    BY DEF Writing
  <2>2. Len(args) = 1  BY ONLY <2>1, left = 0
  <2>3. args \in Seq(Nat) /\ CurrAddress \in Nat /\ CurrAddress % 2 = 0
    BY DEF TaskTypes, MemoryTypes
  <2>4. args[1] \in Nat
    <3>1. args \in Seq(Nat)  BY DEF TaskTypes
    <3>2. 1 \in 1..Len(args)  BY ONLY <2>2
    <3> QED  BY ONLY <3>1, <3>2
  <2>5. CurrAddress + left + 1 = where + SPM_PAGESIZE + 1 /\ where \in Nat
    <3>1. CurrAddress + left + Len(args) = args[1] + SPM_PAGESIZE + 1  BY ONLY <2>1
    <3> QED  BY ONLY <1>1, <2>2, <2>4, <3>1, Zenon
  <2> QED  BY ONLY <1>2, <2>3, <2>5, left = 0
<1>4. ASSUME NEW x \in Address, PageOf(x) = PageOf(where)
      PROVE  And(flash[x], Filled(x)) = sent[x - where + 4]
  <2>1. x \in Nat  BY ONLY <1>4, Sizes DEF Address
  <2> DEFINE y == x - where
             w == y \div 2
  <2>2. where <= x /\ x < where + SPM_PAGESIZE /\ x % SPM_PAGESIZE = y
    BY ONLY <1>1, <1>3, <1>4, <2>1, InPage
  <2>3. y \in Nat /\ y < SPM_PAGESIZE /\ x % 2 = y % 2 /\ x = where + y
    BY ONLY <1>2, <1>3, <2>1, <2>2
  <2>4. Word(x) = w  BY ONLY <2>2, Zenon DEF Word
  <2>5. x - where + 4 = y + 4  BY ONLY <2>1, <1>3
  <2> HIDE DEF y
  <2>6. w \in Nat /\ (y = 2 * w \/ y = 2 * w + 1) /\ (y % 2 = 0 <=> y = 2 * w)
        /\ 2 * w + 1 < SPM_PAGESIZE /\ y % 2 \in {0, 1}
    BY ONLY <1>2, <2>3
  <2> HIDE DEF w
  <2>7. w \in Words  BY ONLY <1>2, <2>6 DEF Words
  <2>8. buffer[w] = <<sent[2 * w + 4], sent[2 * w + 5]>>
    <3>1. 2 * w + 1 < SPM_PAGESIZE - left  BY ONLY <1>2, <2>6, left = 0
    <3> QED  BY ONLY <1>1, <2>7, <3>1, Zenon
  <2>9. Filled(x) = buffer[w][(x % 2) + 1]
    <3>1. buffer[w] # Empty  BY ONLY <2>8 DEF Empty
    <3> QED  BY ONLY <2>4, <3>1, Zenon DEF Filled
  <2>10. Filled(x) = sent[y + 4]
    <3>1. CASE y % 2 = 0
      <4>1. (x % 2) + 1 = 1 /\ y + 4 = 2 * w + 4  BY ONLY <2>3, <2>6, <3>1
      <4>2. Filled(x) = buffer[w][1]  BY ONLY <2>9, <4>1, Zenon
      <4> QED  BY ONLY <2>8, <4>1, <4>2
    <3>2. CASE y % 2 = 1
      <4>1. (x % 2) + 1 = 2 /\ y + 4 = 2 * w + 5  BY ONLY <2>3, <2>6, <3>2
      <4>2. Filled(x) = buffer[w][2]  BY ONLY <2>9, <4>1, Zenon
      <4> QED  BY ONLY <2>8, <4>1, <4>2
    <3> QED  BY ONLY <2>6, <3>1, <3>2
  <2>11. sent[y + 4] \in Byte
    <3>1. y + 4 \in 1..Len(sent)  BY ONLY <1>1, <1>2, <2>3, left = 0
    <3> QED  BY ONLY <1>1, <3>1, Zenon
  <2>12. flash[x] = 255  BY ONLY <1>1, <1>4 DEF boot_page_erase
  <2> QED  BY ONLY <2>5, <2>10, <2>11, <2>12 DEF And, Byte
<1>5. ASSUME NEW x \in Address, PageOf(x) # PageOf(where)
      PROVE  flash[x] = image[x]
  BY ONLY <1>1, <1>5 DEF boot_page_erase
<1> QED  BY ONLY <1>1, <1>4, <1>5, Zenon DEF boot_page_write, Written

\* What flash holds, and what the answer says.
LEMMA StepContents ==
  ASSUME SafeInv, Types', ByBlock, InSession, Contents, Next
  PROVE  Contents'
<1>0. UNCHANGED session  BY Zenon DEF Next
<1>a. PortTypes /\ TaskTypes /\ HostTypes /\ MemoryTypes /\ SessionTypes  BY Zenon DEF SafeInv, Types
<1>p. TaskTypes'  BY Zenon DEF Types
<1>e. Endpoints  BY Zenon DEF SafeInv
<1>y. Bytes  BY Zenon DEF SafeInv
<1>b. ByBlock  OBVIOUS
<1>s. InSession  OBVIOUS
<1>c. Contents  OBVIOUS
<1>n. outLeft \in Nat /\ toSend \in Nat  BY ONLY <1>a, Sizes DEF PortTypes, HostTypes
<1>1. CASE main
  <2>1. flash = image /\ buffer = EmptyBuffer
    <3>1. pc \notin Answering \cup {"block"} /\ pc # "block"  BY ONLY <1>1 DEF main, Answering
    <3> QED  BY ONLY <3>1, <1>c, Zenon DEF Contents
  <2>2. flash' = flash /\ image' = image  BY ONLY <1>1 DEF main
  <2>3. buffer' = EmptyBuffer /\ asked' = "?" /\ pc' \in {"poll", "app"}  BY ONLY <1>1, Zenon DEF main
  <2>4. pc' \notin Answering \cup {"block"} /\ asked' # "gF"  BY ONLY <2>3 DEF Answering
  <2> QED  BY ONLY <2>1, <2>2, <2>3, <2>4, QuietContents, Zenon
<1>2. CASE Reset
  <2>1. /\ flash = image /\ buffer = EmptyBuffer
        /\ pc \in Waiting /\ asked = "gF" /\ heard # <<>> => heard = Reading
    <3>1. pc \notin Answering \cup {"block"} /\ pc # "block"  BY ONLY <1>2 DEF Reset, Answering
    <3> QED  BY ONLY <3>1, <1>c, Zenon DEF Contents
  <2>2. /\ flash' = flash /\ buffer' = buffer /\ image' = image /\ where' = where /\ sent' = sent
        /\ asked' = asked /\ heard' = heard
    BY ONLY <1>2 DEF Reset, memory, host
  <2>3. pc' \notin Answering \cup {"block"} /\ (pc' \in Waiting => pc \in Waiting)
    BY ONLY <1>2 DEF Reset, Answering, Waiting
  <2>4. Reading' = Reading  BY ONLY <2>2, SameImage, Zenon
  <2> QED  BY ONLY <2>1, <2>2, <2>3, <2>4, QuietContents, Zenon
<1>3. CASE USB_USBTask
  <2>1. /\ flash = image /\ buffer = EmptyBuffer
        /\ pc \in Waiting /\ asked = "gF" /\ heard # <<>> => heard = Reading
    <3>1. pc \notin Answering \cup {"block"} /\ pc # "block"  BY ONLY <1>3 DEF USB_USBTask, Answering
    <3> QED  BY ONLY <3>1, <1>c, Zenon DEF Contents
  <2>2. /\ flash' = flash /\ buffer' = buffer /\ image' = image /\ where' = where /\ sent' = sent
        /\ asked' = asked /\ heard' = heard
    BY ONLY <1>3 DEF USB_USBTask, memory, host
  <2>3. pc' \notin Answering \cup {"block"} /\ (pc' \in Waiting => pc \in Waiting)
    BY ONLY <1>3 DEF USB_USBTask, Answering, Waiting
  <2>4. Reading' = Reading  BY ONLY <2>2, SameImage, Zenon
  <2> QED  BY ONLY <2>1, <2>2, <2>3, <2>4, QuietContents, Zenon
<1>4. CASE Poll
  <2>1. /\ flash = image /\ buffer = EmptyBuffer
        /\ pc \in Waiting /\ asked = "gF" /\ heard # <<>> => heard = Reading
    <3>1. pc \notin Answering \cup {"block"} /\ pc # "block"  BY ONLY <1>4 DEF Poll, Answering
    <3> QED  BY ONLY <3>1, <1>c, Zenon DEF Contents
  <2>2. /\ flash' = flash /\ buffer' = buffer /\ image' = image /\ where' = where /\ sent' = sent
        /\ asked' = asked /\ heard' = heard
    BY ONLY <1>4 DEF Poll, memory, host
  <2>3. pc' \notin Answering \cup {"block"} /\ (pc' \in Waiting => pc \in Waiting)
    BY ONLY <1>4 DEF Poll, Answering, Waiting
  <2>4. Reading' = Reading  BY ONLY <2>2, SameImage, Zenon
  <2> QED  BY ONLY <2>1, <2>2, <2>3, <2>4, QuietContents, Zenon
<1>5. CASE FetchCommand
  <2>1. flash = image /\ buffer = EmptyBuffer
    <3>1. pc \notin Answering \cup {"block"} /\ pc # "block"  BY ONLY <1>5 DEF FetchCommand, Answering
    <3> QED  BY ONLY <3>1, <1>c, Zenon DEF Contents
  <2>2. flash' = flash /\ buffer' = buffer /\ image' = image /\ heard' = heard /\ where' = where
    BY ONLY <1>5 DEF FetchCommand, NextPacket, memory
  <2>3. pc' \in {"command", "fetch", "exec"}  BY ONLY <1>5 DEF FetchCommand, NextPacket
  <2>4. pc' \notin Answering \cup {"block"}  BY ONLY <2>3 DEF Answering
  <2>5. pc' \in Waiting => heard' = <<>>
    <3>1. outReceived /\ outLeft > 0 /\ pc = "command"
      BY ONLY <1>5, <1>s DEF FetchCommand, InSession, Waiting
    <3>2. Coming > 0  BY ONLY <3>1, <1>n DEF Coming
    <3>3. heard = <<>>  BY ONLY <3>1, <3>2, <1>s DEF InSession, Waiting
    <3> QED  BY ONLY <2>2, <3>3
  <2> QED  BY ONLY <2>1, <2>2, <2>4, <2>5, QuietContents, Zenon
<1>6. CASE FetchArgs
  <2>1. flash = image /\ buffer = EmptyBuffer
    <3>1. pc \notin Answering \cup {"block"} /\ pc # "block"  BY ONLY <1>6 DEF FetchArgs, Answering
    <3> QED  BY ONLY <3>1, <1>c, Zenon DEF Contents
  <2>2. flash' = flash /\ buffer' = buffer /\ image' = image /\ heard' = heard /\ where' = where
    BY ONLY <1>6 DEF FetchArgs, NextPacket, memory
  <2>3. pc' \in {"command", "fetch", "exec"}  BY ONLY <1>6 DEF FetchArgs, NextPacket
  <2>4. pc' \notin Answering \cup {"block"}  BY ONLY <2>3 DEF Answering
  <2>5. pc' \in Waiting => heard' = <<>>
    <3>1. heard = <<>>  BY ONLY <1>6, <1>s DEF FetchArgs, InSession
    <3> QED  BY ONLY <2>2, <3>1
  <2> QED  BY ONLY <2>1, <2>2, <2>4, <2>5, QuietContents, Zenon
<1>7. CASE pc = "exec" /\ ExecReport /\ UNCHANGED <<usb, out, in, host>>
  <2>1. flash = image /\ buffer = EmptyBuffer
    <3>1. pc \notin Answering \cup {"block"} /\ pc # "block"  BY ONLY <1>7 DEF Answering
    <3> QED  BY ONLY <3>1, <1>c, Zenon DEF Contents
  <2>2. /\ Command = asked /\ usb = "Configured" /\ sent = args /\ heard = <<>>
        /\ where = CurrAddress /\ asked \notin {"C", "c", "m"}
        /\ Command \in {"BF", "BE", "gF", "gE"} => \A i \in 1..Len(args) : args[i] = 1
    BY ONLY <1>7, <1>s DEF InSession, Waiting
  <2>3. /\ asked' = asked /\ sent' = sent /\ heard' = heard /\ where' = where /\ image' = image
        /\ inBank' = inBank
    BY ONLY <1>7 DEF host, in
  <2>4. flash' = flash /\ buffer' = buffer /\ pc' = "reply"
    BY ONLY <1>7 DEF ExecReport, Reply, Constants, memory
  <2>5. asked \notin {"BF", "e", "gF"}
    <3>1. Command \in {"BF", "gF"} => args[3] = 1
      <4>1. Len(args) = Args(Command)  BY ONLY <1>7, <1>y DEF Bytes
      <4> QED  BY ONLY <2>2, <4>1 DEF Args
    <3> QED  BY ONLY <1>7, <2>2, <3>1 DEF ExecReport
  <2> QED  BY ONLY <2>1, <2>3, <2>4, <2>5, PlainAnswer, Zenon
<1>8. CASE pc = "exec" /\ ExecExit /\ UNCHANGED <<usb, out, in, host>>
  <2>1. flash = image /\ buffer = EmptyBuffer
    <3>1. pc \notin Answering \cup {"block"} /\ pc # "block"  BY ONLY <1>8 DEF Answering
    <3> QED  BY ONLY <3>1, <1>c, Zenon DEF Contents
  <2>2. /\ Command = asked /\ usb = "Configured" /\ sent = args /\ heard = <<>>
        /\ where = CurrAddress /\ asked \notin {"C", "c", "m"}
        /\ Command \in {"BF", "BE", "gF", "gE"} => \A i \in 1..Len(args) : args[i] = 1
    BY ONLY <1>8, <1>s DEF InSession, Waiting
  <2>3. /\ asked' = asked /\ sent' = sent /\ heard' = heard /\ where' = where /\ image' = image
        /\ inBank' = inBank
    BY ONLY <1>8 DEF host, in
  <2>4. flash' = flash /\ buffer' = buffer /\ pc' = "reply"  BY ONLY <1>8 DEF ExecExit, Reply, memory
  <2>5. asked \notin {"BF", "e", "gF"}
    BY ONLY <1>8, <2>2 DEF ExecExit
  <2> QED  BY ONLY <2>1, <2>3, <2>4, <2>5, PlainAnswer, Zenon
<1>9. CASE pc = "exec" /\ ExecAddress /\ UNCHANGED <<usb, out, in, host>>
  <2>1. flash = image /\ buffer = EmptyBuffer
    <3>1. pc \notin Answering \cup {"block"} /\ pc # "block"  BY ONLY <1>9 DEF Answering
    <3> QED  BY ONLY <3>1, <1>c, Zenon DEF Contents
  <2>2. /\ Command = asked /\ usb = "Configured" /\ sent = args /\ heard = <<>>
        /\ where = CurrAddress /\ asked \notin {"C", "c", "m"}
        /\ Command \in {"BF", "BE", "gF", "gE"} => \A i \in 1..Len(args) : args[i] = 1
    BY ONLY <1>9, <1>s DEF InSession, Waiting
  <2>3. /\ asked' = asked /\ sent' = sent /\ heard' = heard /\ where' = where /\ image' = image
        /\ inBank' = inBank
    BY ONLY <1>9 DEF host, in
  <2>4. flash' = flash /\ buffer' = buffer /\ pc' = "reply"  BY ONLY <1>9 DEF ExecAddress, Reply, memory
  <2>5. asked \notin {"BF", "e", "gF"}
    BY ONLY <1>9, <2>2 DEF ExecAddress
  <2> QED  BY ONLY <2>1, <2>3, <2>4, <2>5, PlainAnswer, Zenon
<1>10. CASE pc = "exec" /\ ExecErase /\ UNCHANGED <<usb, out, in, host>>
  <2>1. flash = image /\ buffer = EmptyBuffer
    <3>1. pc \notin Answering \cup {"block"} /\ pc # "block"  BY ONLY <1>10 DEF Answering
    <3> QED  BY ONLY <3>1, <1>c, Zenon DEF Contents
  <2>2. /\ Command = asked /\ usb = "Configured" /\ sent = args /\ heard = <<>>
        /\ where = CurrAddress /\ asked \notin {"C", "c", "m"}
        /\ Command \in {"BF", "BE", "gF", "gE"} => \A i \in 1..Len(args) : args[i] = 1
    BY ONLY <1>10, <1>s DEF InSession, Waiting
  <2>3. /\ asked' = asked /\ sent' = sent /\ heard' = heard /\ where' = where /\ image' = image
        /\ inBank' = inBank
    BY ONLY <1>10 DEF host, in
  <2>4. /\ flash' = boot_page_write([a \in Address |-> 255], 0) /\ buffer' = EmptyBuffer
        /\ replies' = <<CR>> /\ pc' = "reply" /\ Command = "e"
    BY ONLY <1>10, Zenon DEF ExecErase, Reply
  <2>5. boot_page_write([a \in Address |-> 255], 0) = Erased
    <3>1. \A x \in Address : Filled(x) = 255
      <4>1. \A x \in Address : Word(x) \in Words  BY Sizes, InBuffer DEF Address
      <4> QED  BY ONLY <2>1, <4>1 DEF Filled, EmptyBuffer
    <3> QED  BY ONLY <3>1 DEF boot_page_write, And, Erased
  <2>6. inBank = <<>>  BY ONLY <1>10, <2>2, <1>e DEF Endpoints, Answering
  <2>7. heard' \o (inBank' \o replies') = <<CR>>
    <3>1. <<>> \o (<<>> \o <<CR>>) = <<CR>>  BY ONLY CRType, Short
    <3> QED  BY ONLY <2>2, <2>3, <2>4, <2>6, <3>1, Zenon
  <2>8. heard' # <<CR>>  BY ONLY <2>2, <2>3
  <2>9. Erased' = Erased /\ EmptyBuffer' = EmptyBuffer /\ CR' = CR  BY Zenon
  <2>10. /\ pc' \in Answering /\ pc' # "block" /\ pc' \notin {"zlp", "sent"} /\ pc' \notin Waiting
         /\ asked' # "BF" /\ asked' = "e" /\ asked' # "gF"
    BY ONLY <2>2, <2>3, <2>4 DEF Answering, Waiting
  <2>11. flash' = Erased  BY ONLY <2>4, <2>5, Zenon
  <2> QED  BY ONLY <2>4, <2>7, <2>8, <2>9, <2>10, <2>11, Zenon DEF Contents
<1>11. CASE pc = "exec" /\ ExecFill /\ UNCHANGED <<usb, out, in, host>>
  <2>1. flash = image /\ buffer = EmptyBuffer
    <3>1. pc \notin Answering \cup {"block"} /\ pc # "block"  BY ONLY <1>11 DEF Answering
    <3> QED  BY ONLY <3>1, <1>c, Zenon DEF Contents
  <2>2. /\ Command = asked /\ usb = "Configured" /\ sent = args /\ heard = <<>>
        /\ where = CurrAddress /\ asked \notin {"C", "c", "m"}
        /\ Command \in {"BF", "BE", "gF", "gE"} => \A i \in 1..Len(args) : args[i] = 1
    BY ONLY <1>11, <1>s DEF InSession, Waiting
  <2>3. /\ asked' = asked /\ sent' = sent /\ heard' = heard /\ where' = where /\ image' = image
        /\ inBank' = inBank
    BY ONLY <1>11 DEF host, in
  <2> QED  BY ONLY <1>11, <2>2 DEF ExecFill
<1>12. CASE pc = "exec" /\ ExecCommitPage /\ UNCHANGED <<usb, out, in, host>>
  <2>1. flash = image /\ buffer = EmptyBuffer
    <3>1. pc \notin Answering \cup {"block"} /\ pc # "block"  BY ONLY <1>12 DEF Answering
    <3> QED  BY ONLY <3>1, <1>c, Zenon DEF Contents
  <2>2. /\ Command = asked /\ usb = "Configured" /\ sent = args /\ heard = <<>>
        /\ where = CurrAddress /\ asked \notin {"C", "c", "m"}
        /\ Command \in {"BF", "BE", "gF", "gE"} => \A i \in 1..Len(args) : args[i] = 1
    BY ONLY <1>12, <1>s DEF InSession, Waiting
  <2>3. /\ asked' = asked /\ sent' = sent /\ heard' = heard /\ where' = where /\ image' = image
        /\ inBank' = inBank
    BY ONLY <1>12 DEF host, in
  <2> QED  BY ONLY <1>12, <2>2 DEF ExecCommitPage
<1>13. CASE pc = "exec" /\ ExecEeprom /\ UNCHANGED <<usb, out, in, host>>
  <2>1. flash = image /\ buffer = EmptyBuffer
    <3>1. pc \notin Answering \cup {"block"} /\ pc # "block"  BY ONLY <1>13 DEF Answering
    <3> QED  BY ONLY <3>1, <1>c, Zenon DEF Contents
  <2>2. /\ Command = asked /\ usb = "Configured" /\ sent = args /\ heard = <<>>
        /\ where = CurrAddress /\ asked \notin {"C", "c", "m"}
        /\ Command \in {"BF", "BE", "gF", "gE"} => \A i \in 1..Len(args) : args[i] = 1
    BY ONLY <1>13, <1>s DEF InSession, Waiting
  <2>3. /\ asked' = asked /\ sent' = sent /\ heard' = heard /\ where' = where /\ image' = image
        /\ inBank' = inBank
    BY ONLY <1>13 DEF host, in
  <2>4. flash' = flash /\ buffer' = buffer /\ pc' = "reply"  BY ONLY <1>13 DEF ExecEeprom, Reply, memory
  <2>5. asked \notin {"BF", "e", "gF"}
    BY ONLY <1>13, <2>2 DEF ExecEeprom
  <2> QED  BY ONLY <2>1, <2>3, <2>4, <2>5, PlainAnswer, Zenon
<1>14. CASE pc = "exec" /\ ExecReadBlock /\ UNCHANGED <<usb, out, in, host>>
  <2>1. flash = image /\ buffer = EmptyBuffer
    <3>1. pc \notin Answering \cup {"block"} /\ pc # "block"  BY ONLY <1>14 DEF Answering
    <3> QED  BY ONLY <3>1, <1>c, Zenon DEF Contents
  <2>2. /\ Command = asked /\ usb = "Configured" /\ sent = args /\ heard = <<>>
        /\ where = CurrAddress /\ asked \notin {"C", "c", "m"}
        /\ Command \in {"BF", "BE", "gF", "gE"} => \A i \in 1..Len(args) : args[i] = 1
    BY ONLY <1>14, <1>s DEF InSession, Waiting
  <2>3. /\ asked' = asked /\ sent' = sent /\ heard' = heard /\ where' = where /\ image' = image
        /\ inBank' = inBank
    BY ONLY <1>14 DEF host, in
  <2>4. flash' = flash /\ buffer' = buffer /\ pc' = "reply"  BY ONLY <1>14 DEF ExecReadBlock, Reply
  <2>5. CASE Command = "gE"
    <3>1. asked' \notin {"BF", "e", "gF"}  BY ONLY <2>2, <2>3, <2>5
    <3> QED  BY ONLY <2>1, <2>3, <2>4, <3>1, PlainAnswer, Zenon
  <2>6. CASE Command = "gF"
    <3>1. replies' = [i \in 1..SPM_PAGESIZE |-> flash[CurrAddress + i - 1]]
      BY ONLY <1>14, <2>6 DEF ExecReadBlock, Reply
    <3>2. replies' = Reading  BY ONLY <2>1, <2>2, <3>1, Zenon DEF Reading
    <3>3. Reading' = Reading  BY ONLY <2>3, SameImage, Zenon
    <3>4. inBank = <<>>  BY ONLY <1>14, <2>2, <1>e DEF Endpoints, Answering
    <3>5. heard' \o (inBank' \o replies') = Reading'
      <4>1. replies' \in Seq(Nat)  BY ONLY <1>p DEF TaskTypes
      <4>2. <<>> \o (<<>> \o replies') = replies'  BY ONLY <4>1, Short
      <4> QED  BY ONLY <2>2, <2>3, <3>2, <3>3, <3>4, <4>2, Zenon
    <3>6. /\ pc' \in Answering /\ pc' # "block" /\ pc' \notin {"zlp", "sent"} /\ pc' \notin Waiting
          /\ asked' # "BF" /\ asked' # "e" /\ asked' = "gF"
      BY ONLY <2>2, <2>3, <2>4, <2>6 DEF Answering, Waiting
    <3>7. EmptyBuffer' = EmptyBuffer  BY Zenon
    <3> QED  BY ONLY <2>1, <2>3, <2>4, <3>5, <3>6, <3>7, Zenon DEF Contents
  <2> QED  BY ONLY <1>14, <2>5, <2>6, Zenon DEF ExecReadBlock
<1>15. CASE pc = "exec" /\ ExecWriteBlock /\ UNCHANGED <<usb, out, in, host>>
  <2>1. flash = image /\ buffer = EmptyBuffer
    <3>1. pc \notin Answering \cup {"block"} /\ pc # "block"  BY ONLY <1>15 DEF Answering
    <3> QED  BY ONLY <3>1, <1>c, Zenon DEF Contents
  <2>2. /\ Command = asked /\ usb = "Configured" /\ sent = args /\ heard = <<>>
        /\ where = CurrAddress /\ asked \notin {"C", "c", "m"}
        /\ Command \in {"BF", "BE", "gF", "gE"} => \A i \in 1..Len(args) : args[i] = 1
    BY ONLY <1>15, <1>s DEF InSession, Waiting
  <2>3. /\ asked' = asked /\ sent' = sent /\ heard' = heard /\ where' = where /\ image' = image
        /\ inBank' = inBank
    BY ONLY <1>15 DEF host, in
  <2>4. /\ Command \in {"BF", "BE"} /\ Command' = Command /\ pc' = "block" /\ buffer' = buffer
        /\ args' = <<CurrAddress>> /\ left' = BlockSize(Command)
    BY ONLY <1>15 DEF ExecWriteBlock
  <2>5. EmptyBuffer' = EmptyBuffer /\ pc' \notin Answering /\ pc' \notin Waiting
    BY ONLY <2>4 DEF Answering, Waiting, EmptyBuffer, Words
  <2>6. CASE Command = "BE"
    <3>1. flash' = flash  BY ONLY <1>15, <2>6 DEF ExecWriteBlock
    <3> QED  BY ONLY <2>1, <2>3, <2>4, <2>5, <2>6, <3>1 DEF Contents, Answering
  <2>7. CASE Command = "BF"
    <3>1. flash' = boot_page_erase(image, where)  BY ONLY <1>15, <2>1, <2>2, <2>7 DEF ExecWriteBlock
    <3>2. left' = SPM_PAGESIZE  BY ONLY <2>4, <2>7 DEF BlockSize
    <3>3. Len(args') = 1 /\ args'[1] = CurrAddress  BY ONLY <2>4
    <3>4. where' % SPM_PAGESIZE = 0 /\ args'[1] = where'
      <4>1. Sensible(Command)  BY ONLY <1>15, <1>y DEF Bytes
      <4> QED  BY ONLY <2>2, <2>3, <2>7, <3>3, <4>1 DEF Sensible
    <3>5. Len(sent') = 3 /\ \A i \in 1..Len(sent') : sent'[i] \in Byte
      <4>1. Len(args) = Args(Command)  BY ONLY <1>15, <1>y DEF Bytes
      <4>2. Len(sent) = 3  BY ONLY <2>2, <2>7, <4>1 DEF Args
      <4>3. \A i \in 1..Len(sent) : sent[i] \in Byte  BY ONLY <2>2, <2>7, Kinds
      <4> QED  BY ONLY <2>3, <4>2, <4>3, Zenon
    <3>6. \A w \in Words : buffer'[w] = Empty /\ ~(2 * w + 1 < SPM_PAGESIZE - left')
      <4>1. \A w \in Words : w \in Nat  BY ONLY Sizes DEF Words
      <4> QED  BY ONLY <2>1, <2>4, <3>2, <4>1, Sizes DEF EmptyBuffer
    <3>7. boot_page_erase(image, where)' = boot_page_erase(image, where)
      BY ONLY <2>3, Zenon DEF boot_page_erase
    <3>8. Len(sent') = 3 + SPM_PAGESIZE - left' /\ Len(args') # 2
      BY ONLY <3>2, <3>3, <3>5, Sizes
    <3>9. Filling'
      <4>1. \A w \in Words : buffer'[w] = IF 2 * w + 1 < SPM_PAGESIZE - left'
                                          THEN <<sent'[2 * w + 4], sent'[2 * w + 5]>> ELSE Empty
        BY ONLY <3>6, Zenon
      <4> QED  BY ONLY <3>1, <3>4, <3>5, <3>7, <3>8, <4>1, Zenon DEF Filling
    <3>10. Command' # "BE" /\ pc' = "block"  BY ONLY <2>4, <2>7
    <3> QED  BY ONLY <2>5, <3>9, <3>10 DEF Contents, Answering
  <2> QED  BY ONLY <2>4, <2>6, <2>7, Zenon
<1>16. CASE Block
  <2>1. /\ pc = "block" /\ left > 0 /\ flash' = flash /\ image' = image /\ where' = where
        /\ pc' = pc /\ Command' = Command /\ usb # "Unattached"
    BY ONLY <1>16, <1>s DEF Block, NextPacket, memory, task, InSession
  <2>2. EmptyBuffer' = EmptyBuffer /\ pc' \notin Answering /\ pc' \notin Waiting
    BY ONLY <2>1 DEF Answering, Waiting, EmptyBuffer, Words
  <2>3. Writing  BY ONLY <2>1, <1>y DEF Bytes
  <2>4. CASE Command = "BE"
    <3>1. flash = image /\ buffer = EmptyBuffer  BY ONLY <2>1, <2>4, <1>c DEF Contents
    <3>2. buffer' = buffer  BY ONLY <1>16, <2>4 DEF Block, NextPacket, memory
    <3> QED  BY ONLY <2>1, <2>2, <2>4, <3>1, <3>2 DEF Contents, Answering
  <2>5. ASSUME Command = "BF" PROVE Filling'
    <3>1. Filling  BY ONLY <2>1, <2>5, <1>c DEF Contents
    <3>2. CASE NextPacket
      <4>1. /\ args' = args /\ sent' = sent /\ left' = left /\ buffer' = buffer
        BY ONLY <3>2 DEF NextPacket, memory, task
      <4>2. boot_page_erase(image, where)' = boot_page_erase(image, where)
        BY ONLY <2>1, Zenon DEF boot_page_erase
      <4> QED  BY ONLY <2>1, <3>1, <4>1, <4>2, Zenon DEF Filling
    <3>3. CASE ~NextPacket
      <4>1. PICK s \in FetchNextCommandByte(HostBytes) :
              /\ sent' = sent \o s /\ left' = left - 1
              /\ \/ Len(args) # 2 /\ args' = Append(args, ByteOr0(s)) /\ buffer' = buffer
                 \/ /\ Len(args) = 2 /\ args' = <<args[1]>>
                    /\ boot_page_fill(CurrAddress, <<args[2], ByteOr0(s)>>)
        BY ONLY <1>16, <2>5, <3>3 DEF Block
      <4>2. s[1] \in HostBytes /\ s = <<s[1]>> /\ ByteOr0(s) = s[1]
        BY ONLY <4>1, <2>1, FetchedByte, Zenon
      <4> DEFINE b == s[1]
      <4>3. b \in Byte /\ s = <<b>> /\ ByteOr0(s) = b
        BY ONLY <4>2, <1>a DEF SessionTypes
      <4> HIDE DEF b
      <4>4. /\ sent' = sent \o <<b>> /\ left' = left - 1 /\ b \in Byte
            /\ \/ Len(args) # 2 /\ args' = Append(args, b) /\ buffer' = buffer
               \/ /\ Len(args) = 2 /\ args' = <<args[1]>>
                  /\ boot_page_fill(CurrAddress, <<args[2], b>>)
        BY ONLY <4>1, <4>3, Zenon
      <4> QED  BY ONLY <1>a, <2>1, <2>3, <2>5, <3>1, <4>4, FillOn, Zenon
    <3> QED  BY ONLY <3>2, <3>3, Zenon
  <2>6. CASE Command = "BF"
    <3>1. Command' # "BE" /\ pc' = "block"  BY ONLY <2>1, <2>6
    <3> QED  BY ONLY <2>2, <2>5, <2>6, <3>1 DEF Contents, Answering
  <2> QED  BY ONLY <2>3, <2>4, <2>6 DEF Writing
<1>17. CASE BlockDone
  <2>1. /\ pc = "block" /\ left = 0 /\ pc' = "reply" /\ replies' = <<CR>>
        /\ asked' = asked /\ sent' = sent /\ heard' = heard /\ where' = where /\ image' = image
        /\ inBank' = inBank
    BY ONLY <1>17 DEF BlockDone, Reply, host, in
  <2>2. Command = asked /\ usb = "Configured" /\ heard = <<>>
    BY ONLY <2>1, <1>s DEF InSession, Waiting
  <2>3. Writing  BY ONLY <2>1, <1>y DEF Bytes
  <2>4. CASE Command = "BE"
    <3>1. flash = image /\ buffer = EmptyBuffer  BY ONLY <2>1, <2>4, <1>c DEF Contents
    <3>2. flash' = flash /\ buffer' = buffer  BY ONLY <1>17, <2>4 DEF BlockDone
    <3>3. asked' \notin {"BF", "e", "gF"}  BY ONLY <2>1, <2>2, <2>4
    <3> QED  BY ONLY <2>1, <3>1, <3>2, <3>3, PlainAnswer, Zenon
  <2>5. CASE Command = "BF"
    <3>1. Filling  BY ONLY <2>1, <2>5, <1>c DEF Contents
    <3>2. flash' = boot_page_write(flash, args[1]) /\ buffer' = EmptyBuffer
      BY ONLY <1>17, <2>5, Zenon DEF BlockDone
    <3>3. flash' = Written
      <4>1. boot_page_write(flash, args[1]) = Written
        BY ONLY <1>a, <2>1, <2>3, <2>5, <3>1, PageWritten, Zenon
      <4> QED  BY ONLY <3>2, <4>1, Zenon
    <3>4. Written' = Written  BY ONLY <2>1, SameImage, Zenon
    <3>5. inBank = <<>>  BY ONLY <2>1, <2>2, <1>e DEF Endpoints, Answering
    <3>6. heard' \o (inBank' \o replies') = <<CR>>
      <4>1. <<>> \o (<<>> \o <<CR>>) = <<CR>>  BY ONLY CRType, Short
      <4> QED  BY ONLY <2>1, <2>2, <3>5, <4>1, Zenon
    <3>7. heard' # <<CR>>  BY ONLY <2>1, <2>2
    <3>8. EmptyBuffer' = EmptyBuffer /\ CR' = CR  BY Zenon
    <3>9. /\ pc' \in Answering /\ pc' # "block" /\ pc' \notin {"zlp", "sent"} /\ pc' \notin Waiting
          /\ asked' = "BF" /\ asked' # "e" /\ asked' # "gF"
      BY ONLY <2>1, <2>2, <2>5 DEF Answering, Waiting
    <3> QED  BY ONLY <3>2, <3>3, <3>4, <3>6, <3>7, <3>8, <3>9, Zenon DEF Contents
  <2> QED  BY ONLY <2>3, <2>4, <2>5 DEF Writing
<1>18. CASE WriteNextResponseByte
  <2>1. UNCHANGED <<flash, buffer, image, asked, sent, where, heard>>
    BY ONLY <1>18 DEF WriteNextResponseByte, ClearIN, IsReadWriteAllowed, memory, host
  <2>2. pc = "reply" /\ pc' = "reply" /\ replies # <<>> /\ heard' = heard
    BY ONLY <1>18 DEF WriteNextResponseByte, host
  <2>3. usb = "Configured"  BY ONLY <2>2, <1>s DEF InSession
  <2>4. inBank' \o replies' = inBank \o replies
    <3>1. \/ inBank' = Append(inBank, Head(replies)) /\ replies' = Tail(replies)
          \/ inBank' = inBank /\ replies' = replies
      BY ONLY <1>18, <2>3 DEF WriteNextResponseByte, ClearIN
    <3>2. Append(inBank, Head(replies)) \o Tail(replies) = inBank \o replies
      BY ONLY <2>2, <1>a, Short DEF PortTypes, TaskTypes
    <3> QED  BY ONLY <3>1, <3>2, Zenon
  <2>5. pc \in Answering /\ pc' \in Answering /\ pc' \notin {"zlp", "sent"}
    BY ONLY <2>2 DEF Answering
  <2>6. heard' \o (inBank' \o replies') = heard \o (inBank \o replies)  BY ONLY <2>2, <2>4, Zenon
  <2> QED  BY ONLY <1>c, <2>1, <2>5, <2>6, AnswerContents, Zenon
<1>19. CASE Send
  <2>1. UNCHANGED <<flash, buffer, image, asked, sent, where, heard>>
    BY ONLY <1>19 DEF Send, ClearIN, memory, host
  <2>2. usb = "Configured"  BY ONLY <1>19, <1>s DEF Send, InSession
  <2>3. heard' = heard /\ inBank' = inBank /\ replies' = replies
    BY ONLY <1>19, <2>2 DEF Send, ClearIN, host, task
  <2>4. pc \in Answering /\ pc' \in Answering  BY ONLY <1>19, <2>2 DEF Send, Answering
  <2>5. replies' = <<>>
    BY ONLY <1>19, <2>3 DEF Send
  <2>6. heard' \o (inBank' \o replies') = heard \o (inBank \o replies)  BY ONLY <2>3, Zenon
  <2> QED  BY ONLY <1>c, <2>1, <2>4, <2>5, <2>6, AnswerContents, Zenon
<1>20. CASE SendEmpty
  <2>1. UNCHANGED <<flash, buffer, image, asked, sent, where, heard>>
    BY ONLY <1>20 DEF SendEmpty, ClearIN, memory, host
  <2>2. usb = "Configured"  BY ONLY <1>20, <1>s DEF SendEmpty, InSession
  <2>3. heard' = heard /\ inBank' = inBank /\ replies' = replies
    BY ONLY <1>20, <2>2 DEF SendEmpty, ClearIN, host, task
  <2>4. pc \in Answering /\ pc' \in Answering  BY ONLY <1>20, <2>2 DEF SendEmpty, Answering
  <2>5. replies' = <<>>
    <3>1. pc \in {"zlp", "sent"}  BY ONLY <1>20 DEF SendEmpty
    <3> QED  BY ONLY <2>3, <3>1, <1>c, Zenon DEF Contents
  <2>6. heard' \o (inBank' \o replies') = heard \o (inBank \o replies)  BY ONLY <2>3, Zenon
  <2> QED  BY ONLY <1>c, <2>1, <2>4, <2>5, <2>6, AnswerContents, Zenon
<1>21. CASE Acknowledge
  <2>1. /\ flash' = flash /\ buffer' = buffer /\ image' = image /\ where' = where /\ sent' = sent
        /\ asked' = asked /\ heard' = heard /\ pc = "sent" /\ pc' = "usb"
    BY ONLY <1>21 DEF Acknowledge, memory, host
  <2>2. usb = "Configured"  BY ONLY <2>1, <1>s DEF InSession
  <2>3. inReady  BY ONLY <1>21, <2>2, Zenon DEF Acknowledge
  <2>4. inBank = <<>>  BY ONLY <2>1, <2>3, <1>e DEF Endpoints
  <2>5. pc \in Answering /\ pc \in {"zlp", "sent"} /\ pc # "block" /\ pc' \notin Answering \cup {"block"}
    BY ONLY <2>1 DEF Answering
  <2>6. replies = <<>> /\ buffer = EmptyBuffer  BY ONLY <2>5, <1>c, Zenon DEF Contents
  <2>7. heard \o (inBank \o replies) = heard
    <3>1. heard \in Seq(Nat) /\ <<>> \in Seq(Nat)  BY ONLY <1>a DEF HostTypes
    <3>2. heard \o (<<>> \o <<>>) = heard  BY ONLY <3>1, Short
    <3> QED  BY ONLY <2>4, <2>6, <3>2, Zenon
  <2>8. flash = image /\ (asked = "gF" => heard = Reading)
    BY ONLY <2>5, <2>7, <1>c DEF Contents
  <2>9. Reading' = Reading  BY ONLY <2>1, SameImage, Zenon
  <2> QED  BY ONLY <2>1, <2>5, <2>6, <2>8, <2>9, QuietContents, Zenon
<1>22. ASSUME NEW c \in Commands, HostCommand(c) PROVE Contents'
  <2>1. flash = image /\ buffer = EmptyBuffer
    <3>1. pc \notin Answering \cup {"block"} /\ pc # "block"  BY ONLY <1>22 DEF HostCommand, Answering
    <3> QED  BY ONLY <3>1, <1>c, Zenon DEF Contents
  <2>2. flash' = flash /\ buffer' = buffer /\ image' = image /\ heard' = <<>> /\ pc' = "poll"
    BY ONLY <1>22 DEF HostCommand, memory
  <2>3. pc' \notin Answering \cup {"block"}  BY ONLY <2>2 DEF Answering
  <2> QED  BY ONLY <2>1, <2>2, <2>3, QuietContents, Zenon
<1>23. CASE HostPacket
  <2>1. /\ flash' = flash /\ buffer' = buffer /\ image' = image /\ where' = where /\ sent' = sent
        /\ asked' = asked /\ heard' = heard /\ pc' = pc /\ Command' = Command /\ args' = args
        /\ left' = left /\ replies' = replies /\ inBank' = inBank
    BY ONLY <1>23 DEF HostPacket, memory, task, in
  <2>2. Written' = Written /\ Reading' = Reading  BY ONLY <2>1, SameImage, Zenon
  <2>3. EmptyBuffer' = EmptyBuffer /\ Erased' = Erased /\ CR' = CR  BY Zenon
  <2>4. boot_page_erase(image, where)' = boot_page_erase(image, where)
    BY ONLY <2>1, Zenon DEF boot_page_erase
  <2>5. Filling => Filling'  BY ONLY <2>1, <2>4, Zenon DEF Filling
  <2> QED  BY ONLY <2>1, <2>2, <2>3, <2>5, <1>c DEF Contents
<1>24. CASE HostTakes
  <2>1. usb = "Configured" /\ ~inReady  BY ONLY <1>24, Zenon DEF HostTakes
  <2>2. pc \in Answering  BY ONLY <2>1, <1>e, Zenon DEF Endpoints
  <2>3. /\ flash' = flash /\ buffer' = buffer /\ where' = where /\ sent' = sent
        /\ asked' = asked /\ pc' = pc /\ replies' = replies
    BY ONLY <1>24 DEF HostTakes, memory, task
  <2>4. heard' = heard \o inBank /\ inBank' = <<>>  BY ONLY <1>24, Zenon DEF HostTakes
  <2>5. heard \in Seq(Nat) /\ inBank \in Seq(Nat) /\ replies \in Seq(Nat)
    BY ONLY <1>a DEF HostTypes, PortTypes, TaskTypes
  <2>6. heard' \o (inBank' \o replies') = heard \o (inBank \o replies)
    <3>1. (heard \o inBank) \o (<<>> \o replies) = heard \o (inBank \o replies)
      BY ONLY <2>5, Short
    <3> QED  BY ONLY <2>3, <2>4, <3>1, Zenon
  <2>7. /\ pc # "block" /\ pc' # "block" /\ pc' \notin Waiting /\ buffer = EmptyBuffer
        /\ (pc \in {"zlp", "sent"} => replies = <<>>)
    <3>1. pc # "block" /\ pc \notin Waiting  BY ONLY <2>2 DEF Answering, Waiting
    <3> QED  BY ONLY <2>3, <3>1, <1>c, Zenon DEF Contents
  <2>8. EmptyBuffer' = EmptyBuffer /\ Erased' = Erased /\ CR' = CR  BY Zenon
  <2>9. LET answer == heard \o (inBank \o replies) IN
         /\ asked = "BF" =>
              answer = <<CR>> /\ flash = IF heard = <<CR>> THEN image ELSE Written
         /\ asked = "e" => answer = <<CR>> /\ flash = Erased /\ (heard = <<CR>> => image = Erased)
         /\ asked \notin {"BF", "e"} => flash = image
         /\ asked = "gF" => answer = Reading
    BY ONLY <2>2, <1>c, Zenon DEF Contents
  <2>10. asked = "BF" => flash' = IF heard' = <<CR>> THEN image' ELSE Written'
    <3> SUFFICES ASSUME asked = "BF"
                 PROVE  flash' = IF heard' = <<CR>> THEN image' ELSE Written'
      OBVIOUS
    <3>1. image' = IF heard' = <<CR>> /\ inBank # <<>> THEN Written ELSE image
      BY ONLY <1>24, asked = "BF" DEF HostTakes, Written
    <3>2. flash = IF heard = <<CR>> THEN image ELSE Written  BY ONLY <2>9, asked = "BF", Zenon
    <3>3. /\ heard = <<CR>> => inBank = <<>>
          /\ heard \o inBank = <<CR>> => inBank = <<>> \/ heard = <<>>
      BY ONLY <2>5, <2>9, asked = "BF", OneByte, Zenon
    <3>4. heard \o <<>> = heard  BY ONLY <2>5, Short
    <3>5. <<>> # <<CR>>  OBVIOUS
    <3>6. CASE heard' = <<CR>> /\ inBank # <<>>
      <4>1. heard # <<CR>>  BY ONLY <3>3, <3>6, Zenon
      <4> QED  BY ONLY <2>3, <3>1, <3>2, <3>6, <4>1, Zenon
    <3>7. CASE heard' = <<CR>> /\ inBank = <<>>
      <4>1. heard = <<CR>>  BY ONLY <2>4, <3>4, <3>7, Zenon
      <4> QED  BY ONLY <2>3, <3>1, <3>2, <3>7, <4>1, Zenon
    <3>8. CASE heard' # <<CR>>
      <4>1. heard # <<CR>>  BY ONLY <2>4, <3>3, <3>4, <3>8, Zenon
      <4>2. image' = image  BY ONLY <3>1, <3>8, Zenon
      <4>3. Written' = Written  BY ONLY <2>3, <4>2, SameImage, Zenon
      <4> QED  BY ONLY <2>3, <3>2, <3>8, <4>1, <4>3, Zenon
    <3> QED  BY ONLY <3>6, <3>7, <3>8, Zenon
  <2>11. asked = "e" => (heard' = <<CR>> => image' = Erased)
    BY ONLY <1>24 DEF HostTakes, Erased
  <2>12. asked \notin {"BF", "e"} => image' = image
    BY ONLY <1>24 DEF HostTakes
  <2>13. asked = "gF" => Reading' = Reading
    <3>1. asked = "gF" => image' = image  BY ONLY <2>12
    <3> QED  BY ONLY <2>3, <3>1, SameImage, Zenon
  <2>14. LET answer == heard' \o (inBank' \o replies') IN
         /\ asked' = "BF" =>
              answer = <<CR>> /\ flash' = IF heard' = <<CR>> THEN image' ELSE Written'
         /\ asked' = "e" => answer = <<CR>> /\ flash' = Erased /\ (heard' = <<CR>> => image' = Erased)
         /\ asked' \notin {"BF", "e"} => flash' = image'
         /\ asked' = "gF" => answer = Reading'
    BY ONLY <2>3, <2>6, <2>9, <2>10, <2>11, <2>12, <2>13, Zenon
  <2>15. buffer' = EmptyBuffer /\ pc' \in Answering /\ (pc' \in {"zlp", "sent"} => replies' = <<>>)
    BY ONLY <2>2, <2>3, <2>7, Zenon
  <2> QED  BY ONLY <2>7, <2>8, <2>14, <2>15, Zenon DEF Contents
<1>25. CASE Unplug
  BY ONLY <1>25, <1>b DEF Unplug, ByBlock
<1>26. CASE Plug
  <2>1. /\ flash = image /\ buffer = EmptyBuffer
        /\ pc \in Waiting /\ asked = "gF" /\ heard # <<>> => heard = Reading
    <3>1. pc \notin Answering \cup {"block"} /\ pc # "block"  BY ONLY <1>26 DEF Plug, Answering
    <3> QED  BY ONLY <3>1, <1>c, Zenon DEF Contents
  <2>2. /\ flash' = flash /\ buffer' = buffer /\ image' = image /\ where' = where /\ sent' = sent
        /\ asked' = asked /\ heard' = heard
    BY ONLY <1>26 DEF Plug, memory, host
  <2>3. pc' \notin Answering \cup {"block"} /\ (pc' \in Waiting => pc \in Waiting)
    BY ONLY <1>26 DEF Plug, Answering, Waiting
  <2>4. Reading' = Reading  BY ONLY <2>2, SameImage, Zenon
  <2> QED  BY ONLY <2>1, <2>2, <2>3, <2>4, QuietContents, Zenon
<1>27. CASE BusReset
  BY ONLY <1>27, <1>b DEF BusReset, ByBlock
<1> QED
  BY <1>1, <1>2, <1>3, <1>4, <1>5, <1>6, <1>7, <1>8, <1>9, <1>10, <1>11, <1>12,
     <1>13, <1>14, <1>15, <1>16, <1>17, <1>18, <1>19, <1>20, <1>21, <1>22, <1>23, <1>24,
     <1>25, <1>26, <1>27,
     Zenon DEF Next, Processor, Programmer, CDC_Task, Exec

-----------------------------------------------------------------------------
(* The invariant holds, and what follows from it.                           *)

\* The bootloader starts with flash erased and no command under way.
LEMMA InitIInv == ASSUME Init PROVE IInv
<1>1. SessionTypes
  <2>1. PICK s \in Sessions : /\ HostBytes = s.bytes /\ HighBytes = s.high
                              /\ Commands = s.commands /\ BusEvents = s.events
    BY Zenon DEF Init
  <2>2. /\ s.bytes \subseteq Byte /\ s.high \subseteq uint8_t
        /\ s.commands \subseteq Letters /\ s.events \subseteq {"unplug", "reset"}
    BY BootAssumption, Zenon
  <2> QED  BY ONLY <2>1, <2>2, Zenon DEF SessionTypes
<1>2. /\ flash = Erased /\ eeprom = [a \in 0..(EepromSize - 1) |-> 255] /\ image = Erased
      /\ buffer = EmptyBuffer /\ rww \in BOOLEAN /\ CurrAddress = 0 /\ finished \in BOOLEAN
      /\ usb = "Unattached" /\ outReceived \in BOOLEAN /\ ~outReceived /\ outLeft = 0
      /\ inReady \in BOOLEAN /\ inBank = <<>>
      /\ pc = "start" /\ Command = "?" /\ args = <<>> /\ left = 0 /\ replies = <<>>
      /\ asked = "?" /\ toSend = 0 /\ sent = <<>> /\ heard = <<>>
  BY Zenon DEF Init, Erased
<1>3. 0 < AddressSpace /\ 0 % 2 = 0  BY SMT DEF AddressSpace
<1>4. MemoryTypes
  <2>1. Erased \in [Address -> Byte] /\ [a \in 0..(EepromSize - 1) |-> 255] \in [0..(EepromSize - 1) -> Byte]
    BY ONLY Kinds DEF Erased
  <2>2. CurrAddress \in Nat  BY ONLY <1>2
  <2> QED  BY ONLY <1>2, <1>3, <2>1, <2>2, EmptyBufferType, Zenon DEF MemoryTypes
<1>5. PortTypes  BY ONLY <1>2, Sizes DEF PortTypes
<1>6. TaskTypes  BY ONLY <1>2, Sizes, Kinds DEF TaskTypes
<1>7. HostTypes  BY ONLY <1>2, Sizes, Kinds DEF HostTypes
<1>8. Endpoints  BY ONLY <1>2 DEF Endpoints
<1>9. Bytes  BY ONLY <1>2 DEF Bytes, Waiting, Answering
<1>10. InSession  BY ONLY <1>2 DEF InSession, Waiting
<1>11. Contents  BY ONLY <1>2 DEF Contents, Waiting, Answering
<1> QED  BY ONLY <1>1, <1>4, <1>5, <1>6, <1>7, <1>8, <1>9, <1>10, <1>11, Zenon DEF IInv, SafeInv, Types

\* Every step of the bootloader, of the programmer and of the bus keeps it.
LEMMA StepIInv == ASSUME IInv, [Next]_vars PROVE IInv'
<1>1. CASE Next
  <2>1. ByBlock' = ByBlock
    <3>1. UNCHANGED session  BY <1>1, Zenon DEF Next
    <3> QED  BY ONLY <3>1, Zenon DEF session, ByBlock
  <2>2. SafeInv  BY Zenon DEF IInv
  <2>3. Types'  BY <1>1, <2>2, StepTypes, Zenon
  <2>4. Endpoints' /\ Bytes'  BY <1>1, <2>2, <2>3, StepEndpoints, StepBytes, Zenon
  <2>5. ASSUME ByBlock PROVE InSession' /\ Contents'
    <3>1. InSession /\ Contents  BY <2>5, Zenon DEF IInv
    <3> QED  BY <1>1, <2>2, <2>3, <2>5, <3>1, StepSession, StepContents, Zenon
  <2> QED  BY <2>1, <2>3, <2>4, <2>5, Zenon DEF IInv, SafeInv
<1>2. CASE UNCHANGED vars
  <2>1. UNCHANGED <<session, memory, out, in, task, host, pc, usb, finished>>  BY <1>2, Zenon DEF vars
  <2>2. /\ HostBytes' = HostBytes /\ HighBytes' = HighBytes
        /\ Commands' = Commands /\ BusEvents' = BusEvents
        /\ flash' = flash /\ eeprom' = eeprom /\ buffer' = buffer /\ rww' = rww
        /\ CurrAddress' = CurrAddress /\ finished' = finished /\ usb' = usb
        /\ outReceived' = outReceived /\ outLeft' = outLeft /\ inReady' = inReady
        /\ inBank' = inBank /\ pc' = pc /\ Command' = Command /\ args' = args /\ left' = left
        /\ replies' = replies /\ asked' = asked /\ toSend' = toSend /\ sent' = sent
        /\ heard' = heard /\ where' = where /\ image' = image
    BY <2>1, Zenon DEF session, memory, out, in, task, host
  <2>3. SessionTypes' = SessionTypes /\ MemoryTypes' = MemoryTypes /\ PortTypes' = PortTypes
    BY ONLY <2>2, Zenon DEF SessionTypes, MemoryTypes, PortTypes
  <2>4. TaskTypes' = TaskTypes /\ HostTypes' = HostTypes
    BY ONLY <2>2, Zenon DEF TaskTypes, HostTypes
  <2>5. Endpoints' = Endpoints /\ Coming' = Coming
    BY ONLY <2>2, Zenon DEF Endpoints, Coming
  <2>6. Sensible(Command)' = Sensible(Command) /\ Sensible(asked)' = Sensible(asked)
    BY ONLY <2>2, Zenon DEF Sensible
  <2>7. Fetched' = Fetched /\ Writing' = Writing
    BY ONLY <2>2, <2>5, Zenon DEF Fetched, Writing, BlockSize
  <2>8. Bytes' = Bytes
    BY ONLY <2>2, <2>5, <2>6, <2>7, Zenon DEF Bytes, Args, Data, BlockSize
  <2>9. InSession' = InSession
    BY ONLY <2>2, <2>5, Zenon DEF InSession, Args, Data, BlockSize
  <2>10. Written' = Written /\ Reading' = Reading  BY <2>2, SameImage, Zenon
  <2>11. Filling' = Filling  BY ONLY <2>2, Zenon DEF Filling, boot_page_erase
  <2>12. Contents' = Contents  BY ONLY <2>2, <2>10, <2>11, Zenon DEF Contents
  <2>13. ByBlock' = ByBlock  BY ONLY <2>2, Zenon DEF ByBlock
  <2> QED  BY <2>3, <2>4, <2>5, <2>8, <2>9, <2>12, <2>13, Zenon DEF IInv, SafeInv, Types
<1> QED  BY <1>1, <1>2

\* The inductive invariant holds in every reachable state.
THEOREM Invariant == Spec => []IInv
BY InitIInv, StepIInv, PTL DEF Spec

\* Whenever a command is over the programmer has its whole answer and the IN
\* bank is free for the next (the end of CDC_Task); and as long as the cable
\* stays in and it writes by the block, flash holds exactly what it was told it
\* had written (ReadWriteMemoryBlock).  Every variable keeps its type.
THEOREM CommandsEnd == Spec => []CommandOver
<1>1. ASSUME IInv PROVE CommandOver
  <2>1. Types /\ Endpoints  BY <1>1, Zenon DEF IInv, SafeInv
  <2>2. TypeOK
    BY <2>1, Zenon DEF TypeOK, Types, SessionTypes, MemoryTypes, PortTypes, TaskTypes, HostTypes
  <2>3. ASSUME pc = "poll", usb = "Configured" PROVE inReady /\ inBank = <<>>
    BY <2>1, <2>3 DEF Endpoints, Answering
  <2>4. ASSUME pc = "poll", ByBlock PROVE flash = image
    <3>1. Contents  BY <1>1, <2>4, Zenon DEF IInv
    <3> QED  BY <2>4, <3>1 DEF Contents, Answering
  <2> QED  BY <2>2, <2>3, <2>4, Zenon DEF CommandOver
<1> QED  BY <1>1, Invariant, PTL

\* A block of flash read back is what the programmer had written, as long as
\* the cable stays in and it writes by the block (ReadWriteMemoryBlock).
THEOREM BlocksReadBack == Spec => []ReadBack
<1>1. ASSUME IInv PROVE ReadBack
  <2> SUFFICES ASSUME ByBlock, pc = "usb", asked = "gF", Len(heard) = SPM_PAGESIZE
               PROVE  \A i \in 1..SPM_PAGESIZE : heard[i] = image[where + i - 1]
    BY Zenon DEF ReadBack
  <2>1. Contents  BY <1>1, Zenon DEF IInv
  <2>2. heard # <<>>  BY Sizes
  <2>3. heard = Reading  BY <2>1, <2>2 DEF Contents, Waiting
  <2> QED  BY <2>3, Zenon DEF Reading
<1> QED  BY <1>1, Invariant, PTL
=============================================================================
