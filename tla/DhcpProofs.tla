----------------------------- MODULE DhcpProofs -----------------------------
(***************************************************************************)
(* Two results for every network, every clock and every set of time-outs.   *)
(* The chip only ever uses an acknowledged address.  The argument follows   *)
(* the code: the address is copied at the end of a call that succeeded      *)
(* (Done), a call succeeds only when its loop ends in state LEASED          *)
(* (Iterate), and only an acknowledgement, which brings its own address,    *)
(* leads there (TakeAck).                                                   *)
(* The client asks again before its lease is over.  The argument compares   *)
(* what is left of the lease with what the counter says: the difference     *)
(* (Slack) stays the same while seconds are counted.                        *)
(***************************************************************************)
EXTENDS Dhcp, TLAPS

\* What the proofs need to know of a DhcpClass record.
Shape(d) == {"state", "localIp", "serverIp"} \subseteq DOMAIN d

\* The addresses that may be in the chip.
Allowed(a, given) == a # None => a \in given

IInv == Shape(dhcp) /\ Allowed(ip, granted)

\* reset_DHCP_lease keeps the state of the record.
LEMMA ResetShape ==
  ASSUME NEW d, Shape(d)
  PROVE  Shape(reset_DHCP_lease(d)) /\ reset_DHCP_lease(d).state = d.state
  BY DEF Shape, reset_DHCP_lease

\* Giving a record another state changes nothing else of it.
LEMMA StateShape ==
  ASSUME NEW d, Shape(d), NEW s
  PROVE  /\ Shape([d EXCEPT !.state = s])
         /\ [d EXCEPT !.state = s].state = s
         /\ [d EXCEPT !.state = s].localIp = d.localIp
  BY DEF Shape

\* checkLease counts without touching the state or the address.
LEMMA CountedShape ==
  ASSUME NEW d, Shape(d), NEW t
  PROVE  Shape(Counted(d, t))
  BY DEF Shape, Counted

\* The fields parseDHCPResponse takes from a reply: the state is not one of
\* them, and the address is that of the server unless it refuses.
LEMMA ParsedShape ==
  ASSUME NEW r, Shape(dhcp)
  PROVE  /\ Shape(Parsed(r)) /\ Parsed(r).state = dhcp.state
         /\ r.type # "NAK" => Parsed(r).localIp = r.server
  BY DEF Shape, Parsed

\* An acknowledgement leads to LEASED and keeps the address.
LEMMA LeasedShape ==
  ASSUME NEW d, Shape(d)
  PROVE  /\ Shape(Leased(d)) /\ Leased(d).state = "LEASED"
         /\ Leased(d).localIp = d.localIp
  BY DEF Shape, Leased

-----------------------------------------------------------------------------

\* The end of a call keeps the invariant when it copies an allowed address.
LEMMA DoneAllowed ==
  ASSUME NEW d, Shape(d), NEW r, Done(d, r),
         Allowed(ip, granted'), r = "ok" => Allowed(d.localIp, granted')
  PROVE  IInv'
  BY DEF Done, IInv, Shape, Allowed

\* The start of the loop leaves the chip alone.
LEMMA OpenAllowed ==
  ASSUME NEW d, Shape(d), NEW caller, Open(caller, d), Allowed(ip, granted')
  PROVE  IInv'
  BY DEF Open, IInv, Shape, Allowed

\* So does the second half of checkLease, whether it rebinds or ends.
LEMMA RebindAllowed ==
  ASSUME NEW d, Shape(d), NEW r, CheckRebind(d, r),
         Allowed(ip, granted'), r = "ok" => Allowed(d.localIp, granted')
  PROVE  IInv'
<1> DEFINE e == reset_DHCP_lease([d EXCEPT !.state = "START"])
<1>1. Shape(e)
  BY StateShape, ResetShape
<1>2. CASE Open("rebind", e)
  BY <1>1, <1>2, OpenAllowed
<1>3. CASE Done(e, "fail")
  BY <1>1, <1>3, DoneAllowed
<1>4. CASE Done(d, r)
  BY <1>4, DoneAllowed
<1> QED
  BY <1>2, <1>3, <1>4 DEF CheckRebind

\* The first half of checkLease.
LEMMA RenewAllowed ==
  ASSUME NEW d, Shape(d), CheckRenew(d), Allowed(ip, granted')
  PROVE  IInv'
<1> DEFINE e == [d EXCEPT !.state = "REREQUEST"]
<1>1. Shape(e)
  BY StateShape
<1>2. CASE Open("renew", e)
  BY <1>1, <1>2, OpenAllowed
<1>3. CASE CheckRebind(e, "fail")
  BY <1>1, <1>3, RebindAllowed
<1>4. CASE CheckRebind(d, "none")
  BY <1>4, RebindAllowed
<1> QED
  BY <1>2, <1>3, <1>4 DEF CheckRenew

\* An iteration keeps the invariant when LEASED comes with an allowed address.
LEMMA IterateAllowed ==
  ASSUME NEW d, Shape(d), NEW x, NEW s, Iterate(d, x, s),
         Allowed(ip, granted'), d.state = "LEASED" => Allowed(d.localIp, granted')
  PROVE  IInv'
<1>1. CASE d.state = "LEASED" /\ Return(d, "ok")
  BY <1>1, RebindAllowed, DoneAllowed DEF Return
<1>2. CASE Return(d, "fail")
  BY <1>2, RebindAllowed, DoneAllowed DEF Return
<1>3. CASE dhcp' = d /\ UNCHANGED ip
  BY <1>3 DEF IInv, Shape, Allowed
<1> QED
  BY <1>1, <1>2, <1>3 DEF Iterate

\* Every step keeps the invariant.
LEMMA StepAllowed ==
  ASSUME IInv, [Next]_vars
  PROVE  IInv'
<1>0. Shape(dhcp) /\ Allowed(ip, granted)
  BY DEF IInv
<1>1. CASE begin
  <2> DEFINE d == reset_DHCP_lease([dhcp EXCEPT !.leaseTime = 0, !.T1 = 0, !.T2 = 0,
                                                !.lastCheck = FALSE, !.state = "START"])
  <2>1. Shape(d)
    BY <1>0 DEF Shape, reset_DHCP_lease
  <2>2. dhcp' = d /\ ip' = None
    BY <1>1 DEF begin
  <2> QED
    BY <2>1, <2>2 DEF IInv, Shape, Allowed
<1>2. CASE maintain
  <2>1. Allowed(ip, granted')
    BY <1>0, <1>2 DEF maintain
  <2>2. CASE dhcp.lastCheck
    <3> DEFINE d == [Counted(dhcp, now') EXCEPT !.lastCheck = now' # 0]
    <3>1. Shape(Counted(dhcp, now'))
      BY <1>0, CountedShape
    <3>2. Shape(d)
      BY <3>1 DEF Shape
    <3>3. CheckRenew(d)
      BY <1>2, <2>2 DEF maintain
    <3> QED
      BY <2>1, <3>2, <3>3, RenewAllowed
  <2>3. CASE ~dhcp.lastCheck
    <3> DEFINE d == [dhcp EXCEPT !.secTimeout = (now' + Second) % Word,
                                 !.lastCheck = now' # 0]
    <3>1. Shape(d)
      BY <1>0 DEF Shape
    <3>2. Done(d, "none")
      BY <1>2, <2>3 DEF maintain
    <3> QED
      BY <2>1, <3>1, <3>2, DoneAllowed
  <2> QED
    BY <2>2, <2>3
<1>3. CASE Send
  <2> DEFINE kind == IF dhcp.state = "START" THEN "DISCOVER" ELSE "REQUEST"
             d    == [dhcp EXCEPT !.state = kind]
  <2>1. Shape(d) /\ d.state = kind
    BY <1>0, StateShape
  <2>2. d.state # "LEASED"
    BY <2>1
  <2>3. PICK x, s : Iterate(d, x, s)
    BY <1>3 DEF Send
  <2>4. Allowed(ip, granted')
    BY <1>0, <1>3 DEF Send
  <2> HIDE DEF d
  <2> QED
    BY <2>1, <2>2, <2>3, <2>4, IterateAllowed, Zenon
<1>4. CASE TakeOffer
  <2>1. PICK r : \E x, s : Iterate([Parsed(r) EXCEPT !.state = "REQUEST"], x, s)
    BY <1>4 DEF TakeOffer
  <2>2. Shape(Parsed(r))
    BY <1>0, ParsedShape
  <2>3. Allowed(ip, granted')
    BY <1>0, <1>4 DEF TakeOffer
  <2> DEFINE d == [Parsed(r) EXCEPT !.state = "REQUEST"]
  <2>4. Shape(d) /\ d.state # "LEASED"
    BY <2>2, StateShape
  <2> QED
    BY <2>1, <2>3, <2>4, IterateAllowed, Zenon
<1>5. CASE TakeAck
  <2>1. PICK r : /\ r.type = "ACK" /\ granted' = granted \cup {r.server}
                 /\ Iterate(Leased(Parsed(r)), call.xid, call.sent)
    BY <1>5 DEF TakeAck
  <2>2. Shape(Parsed(r)) /\ Parsed(r).localIp = r.server
    BY <1>0, <2>1, ParsedShape
  <2>3. Shape(Leased(Parsed(r))) /\ Leased(Parsed(r)).localIp = r.server
    BY <2>2, LeasedShape
  <2>4. Allowed(ip, granted') /\ Allowed(r.server, granted')
    BY <1>0, <2>1 DEF Allowed
  <2> QED
    BY <2>1, <2>3, <2>4, IterateAllowed
<1>6. CASE TakeNak
  <2>1. PICK r : Iterate([Parsed(r) EXCEPT !.state = "START"], call.xid, call.sent)
    BY <1>6 DEF TakeNak
  <2>2. Shape(Parsed(r))
    BY <1>0, ParsedShape
  <2>3. Allowed(ip, granted')
    BY <1>0, <1>6 DEF TakeNak
  <2> DEFINE d == [Parsed(r) EXCEPT !.state = "START"]
  <2>4. Shape(d) /\ d.state # "LEASED"
    BY <2>2, StateShape
  <2> QED
    BY <2>1, <2>3, <2>4, IterateAllowed, Zenon
<1>7. CASE TakeOther
  <2>1. PICK r : Iterate(Parsed(r), call.xid, call.sent)
    BY <1>7 DEF TakeOther
  <2>2. Shape(Parsed(r)) /\ Parsed(r).state = dhcp.state
    BY <1>0, ParsedShape
  <2>3. Allowed(ip, granted') /\ dhcp.state # "LEASED"
    BY <1>0, <1>7 DEF TakeOther, Waiting
  <2> QED
    BY <2>1, <2>2, <2>3, IterateAllowed
<1>8. CASE Ignore
  <2>1. Iterate(dhcp, call.xid, call.sent)
    BY <1>8 DEF Ignore
  <2>2. Allowed(ip, granted') /\ dhcp.state # "LEASED"
    BY <1>0, <1>8 DEF Ignore, Waiting
  <2> QED
    BY <1>0, <2>1, <2>2, IterateAllowed
<1>9. CASE Wait
  BY <1>0, <1>9 DEF Wait, IInv, Shape, Allowed
<1>10. CASE NoAnswer
  <2> DEFINE d == [dhcp EXCEPT !.state = "START"]
  <2>1. Iterate(d, call.xid, call.sent)
    BY <1>10 DEF NoAnswer
  <2>2. Shape(d) /\ d.state # "LEASED"
    BY <1>0, StateShape
  <2>3. Allowed(ip, granted')
    BY <1>0, <1>10 DEF NoAnswer
  <2> QED
    BY <2>1, <2>2, <2>3, IterateAllowed, Zenon
<1>11. CASE UNCHANGED vars
  BY <1>0, <1>11 DEF vars, IInv, Shape, Allowed
<1> QED
  BY <1>1, <1>2, <1>3, <1>4, <1>5, <1>6, <1>7, <1>8, <1>9, <1>10, <1>11 DEF Next

\* In every network the address in the W5100 was acknowledged to this client
\* since begin(), whatever replies came in whatever order (Ethernet.begin and
\* Ethernet.maintain, parseDHCPResponse).
THEOREM OnlyGrantedAddresses == Spec => []AddressGranted
<1>1. Init => IInv
  BY DEF Init, IInv, Shape, Allowed
<1>2. IInv /\ [Next]_vars => IInv'
  BY StepAllowed
<1>3. IInv => AddressGranted
  BY DEF IInv, Allowed, AddressGranted
<1> QED
  BY <1>1, <1>2, <1>3, PTL DEF Spec
-----------------------------------------------------------------------------
(* That the lease is held: the invariant.                                   *)

\* The times of millis(), and the addresses of a network.
Clock == 0..(Word - 1)
Addresses(n) == n.servers \cup {None}

\* Ticks from one time to a later one, and the longest time of a call.
Span(from, to) == (to - from) % Word
Longest == Timeout + ResponseTimeout + 1

\* The fields of DhcpClass, and the messages.
Record(n) ==
  [state : {"START", "DISCOVER", "REQUEST", "REREQUEST", "LEASED"},
   localIp : Addresses(n), serverIp : Addresses(n), leaseTime : Nat, T1 : Nat, T2 : Nat,
   renewIn : Int, rebindIn : Int, secTimeout : Clock, lastCheck : BOOLEAN]

Messages(n) == [kind : {"DISCOVER", "REQUEST"}, xid : Nat, ip : Addresses(n), server : Addresses(n)]

\* The times kept are those of the lease.
Lengths(n, d) ==
  Steady(n) => \A l \in n.leases : d.leaseTime \in {0, LeaseTime(l)} /\ d.T1 \in {0, RenewTime(l)}

\* Types.
TypeInv ==
  /\ now \in Clock /\ left \in Nat /\ net \in Networks
  /\ dhcp \in Record(net) /\ Lengths(net, dhcp)
  /\ pc \in {"off", "idle", "begin", "renew", "rebind"}
  /\ call \in [start : Clock, since : Clock, xid : Nat, sent : SUBSET Messages(net)]

\* A call that goes on has not timed out, and only a wait takes time.
CallInv ==
  Calling =>
    /\ dhcp.state # "LEASED"
    /\ Span(call.start, call.since) <= Timeout /\ Span(call.since, now) <= ResponseTimeout + 1
    /\ ~Waiting => now = call.since

\* Ticks by which the next second to count is overdue at t.
Late(d, t) == Signed(t - d.secTimeout)
Overdue(d, t, limit) == d.lastCheck => -Second <= Late(d, t) /\ Late(d, t) < limit

\* No more than two calls pass before the counters are looked at again.
LateInv ==
  /\ pc \in {"off", "begin"} => ~dhcp.lastCheck
  /\ pc = "renew" => Overdue(dhcp, now, Span(call.start, now))
  /\ pc = "rebind" => Overdue(dhcp, now, Span(call.start, now) + Longest)
  /\ pc = "idle" => Overdue(dhcp, now, 2 * Longest)

\* How much longer the lease lasts than the counter says.
Slack(d, t, rest) == rest + Late(d, t) - Second * d.renewIn

\* What it is when the counting starts, and the loss if it starts again.
Start(l) == Second * (LeaseTime(l) - RenewTime(l)) - Gap - Second
Loss == Gap + Second - 1

\* Counting seconds leaves the slack as it is.  It gets smaller only when the
\* counting starts: after begin(), or after a call when millis() was 0, which
\* happens once in the time of a lease.
Held(l, d, t, rest) ==
  LET age == Second * LeaseTime(l) - rest
  IN /\ rest > 0 /\ age >= 0
     /\ d.lastCheck => Slack(d, t, rest) >= Start(l) \/ (t <= age /\ Slack(d, t, rest) >= Start(l) - Loss)
     /\ ~d.lastCheck =>
          \/ d.renewIn = RenewTime(l) /\ (age = 0 \/ (t = 0 /\ age <= Gap))
          \/ t = 0 /\ d.renewIn > 0 /\ -Second <= Late(d, t) /\ Late(d, t) < 0 /\ Slack(d, t, rest) >= Start(l)

\* Between two calls the lease is held.
HeldInv ==
  Regular /\ pc = "idle" /\ dhcp.state = "LEASED" => \A l \in net.leases : Held(l, dhcp, now, left)

\* The server the client asks has what it asks for.
Known(n, d) == d.localIp = d.serverIp /\ d.localIp \in n.servers

\* The servers answer the messages sent, and a DHCP_REQUEST as it stands.
Asked(d, c, kind) ==
  /\ \A m \in c.sent :
       m.xid = c.xid /\ (m.kind = "REQUEST" => kind = "REQUEST" /\ m.ip = d.localIp /\ m.server = d.serverIp)
  /\ \E m \in c.sent : m.kind = kind

\* How far a call is that nothing keeps from succeeding.
Well(n, d, c) ==
  /\ d.state \in {"REREQUEST", "REQUEST"} => Known(n, d)
  /\ d.state \in {"START", "DISCOVER"} => d.serverIp = None
  /\ d.state # "REQUEST" => c.since = c.start
  /\ d.state \in {"START", "REREQUEST"} => c.sent = {}
  /\ d.state \in {"DISCOVER", "REQUEST"} => Asked(d, c, d.state)
  /\ c.xid > 0

\* Where nothing fails, a call that goes on succeeds.
WellInv ==
  net.faults = {} =>
    /\ pc = "idle" => rc # "fail" /\ dhcp.state = "LEASED" /\ Known(net, dhcp)
    /\ pc \in {"idle", "renew", "rebind"} => ip # None
    /\ Calling => Well(net, dhcp, call)

\* The inductive invariant behind LeaseHeld.
LInv == TypeInv /\ CallInv /\ LateInv /\ HeldInv /\ WellInv

-----------------------------------------------------------------------------
(* Arithmetic of the clock.                                                 *)

Half == Word \div 2

\* What the assumptions say of the constants.
LEMMA Words ==
  /\ Word \in Nat /\ Half \in Nat /\ Word = 2 * Half /\ Half > 0
  /\ Second \in Nat /\ Second > 0 /\ Second <= Half
  /\ Timeout \in Nat /\ ResponseTimeout \in Nat /\ ResponseTimeout < Timeout
  /\ Longest \in Nat /\ Longest = Timeout + ResponseTimeout + 1
  /\ Gap \in Nat /\ 2 * Longest + Gap <= Half
BY ONLY DhcpAssumption, TimingAssumption DEF Half, Longest

\* The remainder of a number that is less than a word away from the clock.
LEMMA Remainder ==
  ASSUME NEW x \in Int
  PROVE  /\ x % Word \in Clock
         /\ 0 <= x /\ x < Word => x % Word = x
         /\ Word <= x /\ x < 2 * Word => x % Word = x - Word
         /\ -Word <= x /\ x < 0 => x % Word = x + Word
<1>1. Word \in Nat /\ Word > 0  BY ONLY Words
<1> DEFINE q == x \div Word
           r == x % Word
<1>2. r \in 0..(Word - 1)  BY ONLY <1>1, SMT
<1>3. q \in Int  BY ONLY <1>1, SMT
<1>4. x = q * Word + r  BY ONLY <1>1, SMT
<1> HIDE DEF q, r
<1>5. /\ q >= 2 => q * Word >= 2 * Word
      /\ q <= -2 => q * Word <= -2 * Word
  BY ONLY <1>1, <1>3
<1>6. q \in {-1, 0, 1} \/ q >= 2 \/ q <= -2  BY ONLY <1>3
<1>7. /\ q = -1 => q * Word = -Word
      /\ q = 0 => q * Word = 0
      /\ q = 1 => q * Word = Word
  BY ONLY <1>1, <1>3
<1>8. q * Word \in Int  BY ONLY <1>1, <1>3
<1> DEFINE p == q * Word
<1> HIDE DEF p
<1>9. /\ r \in 0..(Word - 1)
      /\ 0 <= x /\ x < Word => r = x
      /\ Word <= x /\ x < 2 * Word => r = x - Word
      /\ -Word <= x /\ x < 0 => r = x + Word
  <2>1. /\ p \in Int /\ x = p + r
        /\ q >= 2 => p >= 2 * Word
        /\ q <= -2 => p <= -2 * Word
        /\ q = -1 => p = -Word
        /\ q = 0 => p = 0
        /\ q = 1 => p = Word
    BY ONLY <1>4, <1>5, <1>7, <1>8, Zenon DEF p
  <2> QED  BY ONLY <1>1, <1>2, <1>3, <1>6, <2>1, x \in Int
<1> QED  BY ONLY <1>9, Zenon DEF r, Clock

\* The signed difference of two times, when it is small.
LEMMA SignedIs ==
  ASSUME NEW a \in Clock, NEW b \in Clock, NEW u \in Int, -Half <= u, u < Half,
         a - b = u \/ a - b = u + Word \/ a - b = u - Word
  PROVE  Signed(a - b) = u
<1>1. Word \in Nat /\ Half \in Nat /\ Word = 2 * Half /\ Half > 0  BY ONLY Words
<1>2. a - b \in Int /\ -Word < a - b /\ a - b < Word  BY ONLY <1>1, a \in Clock, b \in Clock DEF Clock
<1> DEFINE x == a - b
           m == x % Word
<1>3. /\ 0 <= x => m = x
      /\ x < 0 => m = x + Word
  <2>1. /\ 0 <= x /\ x < Word => m = x
        /\ -Word <= x /\ x < 0 => m = x + Word
    BY ONLY <1>2, Remainder, Zenon
  <2>2. x < Word /\ -Word <= x  BY ONLY <1>1, <1>2
  <2> QED  BY ONLY <2>1, <2>2, Zenon
<1> HIDE DEF m
<1>4. m = IF u < 0 THEN u + Word ELSE u
  BY ONLY <1>1, <1>2, <1>3, u \in Int, -Half <= u, u < Half, a - b = u \/ a - b = u + Word \/ a - b = u - Word
<1>5. u = IF m < Half THEN m ELSE m - Word  BY ONLY <1>1, <1>4, u \in Int, -Half <= u, u < Half
<1> QED  BY ONLY <1>5, Zenon DEF Signed, m, Half

\* What a signed difference of two times tells.
LEMMA SignedGives ==
  ASSUME NEW a \in Clock, NEW b \in Clock
  PROVE  /\ Signed(a - b) \in Int /\ -Half <= Signed(a - b) /\ Signed(a - b) < Half
         /\ \/ a - b = Signed(a - b) \/ a - b = Signed(a - b) + Word \/ a - b = Signed(a - b) - Word
<1>1. Word \in Nat /\ Half \in Nat /\ Word = 2 * Half /\ Half > 0  BY ONLY Words
<1>2. a - b \in Int /\ -Word < a - b /\ a - b < Word  BY ONLY <1>1, a \in Clock, b \in Clock DEF Clock
<1> DEFINE x == a - b
           m == x % Word
<1>3. /\ 0 <= x => m = x
      /\ x < 0 => m = x + Word
  <2>1. /\ 0 <= x /\ x < Word => m = x
        /\ -Word <= x /\ x < 0 => m = x + Word
    BY ONLY <1>2, Remainder, Zenon
  <2>2. x < Word /\ -Word <= x  BY ONLY <1>1, <1>2
  <2> QED  BY ONLY <2>1, <2>2, Zenon
<1>4. Signed(a - b) = IF m < Half THEN m ELSE m - Word  BY ONLY Zenon DEF Signed, m, Half
<1> HIDE DEF m
<1> QED  BY ONLY <1>1, <1>2, <1>3, <1>4

\* The clock moves on by d.
LEMMA ClockMoves ==
  ASSUME NEW a \in Clock, NEW d \in Nat, d <= Half
  PROVE  /\ (a + d) % Word \in Clock
         /\ (a + d) % Word = a + d \/ (a + d >= Word /\ (a + d) % Word = a + d - Word)
<1>1. Word \in Nat /\ Half \in Nat /\ Word = 2 * Half /\ Half > 0  BY ONLY Words
<1>2. a + d \in Int /\ 0 <= a + d /\ a + d < 2 * Word  BY ONLY <1>1, a \in Clock, d \in Nat, d <= Half DEF Clock
<1> DEFINE x == a + d
<1>3. /\ x % Word \in Clock
      /\ 0 <= x /\ x < Word => x % Word = x
      /\ Word <= x /\ x < 2 * Word => x % Word = x - Word
  BY ONLY <1>2, Remainder, Zenon
<1>4. x < Word \/ (Word <= x /\ x >= Word)  BY ONLY <1>1, <1>2
<1> HIDE DEF x
<1>5. x % Word \in Clock /\ (x % Word = x \/ (x >= Word /\ x % Word = x - Word))
  BY ONLY <1>2, <1>3, <1>4, Zenon DEF x
<1>6. x - Word = a + d - Word  BY ONLY <1>1, a \in Clock, d \in Nat DEF x, Clock
<1> QED  BY ONLY <1>5, <1>6, Zenon DEF x

\* The later time moves on.
LEMMA SignedMoves ==
  ASSUME NEW a \in Clock, NEW b \in Clock, NEW d \in Nat, d <= Half, Signed(a - b) + d < Half
  PROVE  Signed(((a + d) % Word) - b) = Signed(a - b) + d
<1>1. Word \in Nat /\ Half \in Nat /\ Word = 2 * Half /\ Half > 0  BY ONLY Words
<1> DEFINE s == Signed(a - b)
           c == (a + d) % Word
<1>2. s \in Int /\ -Half <= s /\ (a - b = s \/ a - b = s + Word \/ a - b = s - Word)
  BY ONLY SignedGives, a \in Clock, b \in Clock, Zenon
<1>3. c \in Clock /\ (c = a + d \/ (a + d >= Word /\ c = a + d - Word))
  BY ONLY ClockMoves, a \in Clock, d \in Nat, d <= Half, Zenon
<1>4. s + d < Half  BY ONLY Signed(a - b) + d < Half, Zenon
<1> HIDE DEF s, c
<1>5. s + d \in Int /\ -Half <= s + d  BY ONLY <1>1, <1>2, d \in Nat
<1>6. c - b = (s + d) \/ c - b = (s + d) + Word \/ c - b = (s + d) - Word
  BY ONLY <1>1, <1>2, <1>3, <1>4, a \in Clock, b \in Clock, d \in Nat DEF Clock
<1> DEFINE v == s + d
<1> HIDE DEF v
<1>7. v \in Int /\ -Half <= v /\ v < Half /\ (c - b = v \/ c - b = v + Word \/ c - b = v - Word)
  BY ONLY <1>4, <1>5, <1>6, Zenon DEF v
<1>8. Signed(c - b) = v  BY ONLY <1>3, <1>7, b \in Clock, SignedIs, Zenon
<1> QED  BY ONLY <1>8, Zenon DEF c, s, v

\* A second to count is k ticks ahead.
LEMMA SignedAhead ==
  ASSUME NEW a \in Clock, NEW k \in Nat, 1 <= k, k <= Half
  PROVE  (a + k) % Word \in Clock /\ Signed(a - ((a + k) % Word)) = -k
<1>1. Word \in Nat /\ Half \in Nat /\ Word = 2 * Half /\ Half > 0  BY ONLY Words
<1> DEFINE c == (a + k) % Word
<1>2. c \in Clock /\ (c = a + k \/ (a + k >= Word /\ c = a + k - Word))
  BY ONLY ClockMoves, a \in Clock, k \in Nat, k <= Half, Zenon
<1> HIDE DEF c
<1>3. -k \in Int /\ -Half <= -k /\ -k < Half  BY ONLY <1>1, k \in Nat, 1 <= k, k <= Half
<1>4. a - c = -k \/ a - c = -k + Word \/ a - c = -k - Word
  BY ONLY <1>1, <1>2, a \in Clock, k \in Nat DEF Clock
<1>5. Signed(a - c) = -k  BY ONLY <1>2, <1>3, <1>4, a \in Clock, SignedIs, Zenon
<1> QED  BY ONLY <1>2, <1>5, Zenon DEF c

\* What a span tells of its ends.
LEMMA SpanGives ==
  ASSUME NEW a \in Clock, NEW b \in Clock
  PROVE  Span(a, b) \in Clock /\ (b = a + Span(a, b) \/ b = a + Span(a, b) - Word)
<1>1. Word \in Nat /\ Word > 0  BY ONLY Words
<1>2. b - a \in Int /\ -Word <= b - a /\ b - a < Word  BY ONLY <1>1, a \in Clock, b \in Clock DEF Clock
<1> DEFINE x == b - a
<1>3. /\ x % Word \in Clock
      /\ 0 <= x /\ x < Word => x % Word = x
      /\ -Word <= x /\ x < 0 => x % Word = x + Word
  BY ONLY <1>2, Remainder, Zenon
<1> DEFINE m == x % Word
<1> HIDE DEF m
<1>4. m \in Clock /\ (m = b - a \/ m = b - a + Word)  BY ONLY <1>1, <1>2, <1>3 DEF m
<1>5. b = a + m \/ b = a + m - Word  BY ONLY <1>1, <1>4, a \in Clock, b \in Clock DEF Clock
<1> QED  BY ONLY <1>4, <1>5, Zenon DEF Span, m

\* The span is what the ends are apart.
LEMMA SpanIs ==
  ASSUME NEW a \in Clock, NEW b \in Clock, NEW k \in Clock, b = a + k \/ b = a + k - Word
  PROVE  Span(a, b) = k
<1>1. Word \in Nat /\ Word > 0  BY ONLY Words
<1>2. Span(a, b) \in Clock /\ (b = a + Span(a, b) \/ b = a + Span(a, b) - Word)
  BY ONLY SpanGives, a \in Clock, b \in Clock, Zenon
<1> DEFINE s == Span(a, b)
<1> HIDE DEF s
<1>3. s \in Clock /\ (b = a + s \/ b = a + s - Word)  BY ONLY <1>2, Zenon DEF s
<1>4. s = k  BY ONLY <1>1, <1>3, a \in Clock, k \in Clock, b = a + k \/ b = a + k - Word DEF Clock
<1> QED  BY ONLY <1>4, Zenon DEF s

\* No time passes between a time and itself.
LEMMA SpanNone == ASSUME NEW a \in Clock PROVE Span(a, a) = 0
<1>1. 0 \in Clock /\ a = a + 0  BY ONLY Words, a \in Clock DEF Clock
<1> QED  BY ONLY <1>1, a \in Clock, SpanIs, Zenon

\* A tick makes a span a tick longer.
LEMMA SpanMoves ==
  ASSUME NEW a \in Clock, NEW b \in Clock, Span(a, b) + 1 < Word
  PROVE  Span(a, (b + 1) % Word) = Span(a, b) + 1
<1>1. Word \in Nat /\ Half \in Nat /\ Word = 2 * Half /\ Half > 0  BY ONLY Words
<1> DEFINE s == Span(a, b)
           c == (b + 1) % Word
<1>2. s \in Clock /\ (b = a + s \/ b = a + s - Word)  BY ONLY SpanGives, a \in Clock, b \in Clock, Zenon
<1>3. c \in Clock /\ (c = b + 1 \/ (b + 1 >= Word /\ c = b + 1 - Word))
  <2>1. 1 \in Nat /\ 1 <= Half  BY ONLY <1>1
  <2> QED  BY ONLY <2>1, ClockMoves, b \in Clock, Zenon
<1>4. s + 1 < Word  BY ONLY Span(a, b) + 1 < Word, Zenon
<1> HIDE DEF s, c
<1>5. s + 1 \in Clock  BY ONLY <1>1, <1>2, <1>4 DEF Clock
<1>6. c = a + (s + 1) \/ c = a + (s + 1) - Word
  BY ONLY <1>1, <1>2, <1>3, <1>4, a \in Clock, b \in Clock DEF Clock
<1> DEFINE v == s + 1
<1> HIDE DEF v
<1>7. v \in Clock /\ (c = a + v \/ c = a + v - Word)  BY ONLY <1>5, <1>6 DEF v
<1>8. c \in Clock  BY ONLY <1>3, Zenon
<1>9. Span(a, c) = v  BY ONLY <1>7, <1>8, a \in Clock, SpanIs, Zenon
<1> QED  BY ONLY <1>9, Zenon DEF s, c, v

\* Spans add up.
LEMMA SpanAdds ==
  ASSUME NEW a \in Clock, NEW b \in Clock, NEW c \in Clock, Span(a, b) + Span(b, c) < Word
  PROVE  Span(a, c) = Span(a, b) + Span(b, c)
<1>1. Word \in Nat /\ Word > 0  BY ONLY Words
<1> DEFINE s == Span(a, b)
           t == Span(b, c)
<1>2. s \in Clock /\ (b = a + s \/ b = a + s - Word)  BY ONLY SpanGives, a \in Clock, b \in Clock, Zenon
<1>3. t \in Clock /\ (c = b + t \/ c = b + t - Word)  BY ONLY SpanGives, b \in Clock, c \in Clock, Zenon
<1>4. s + t < Word  BY ONLY Span(a, b) + Span(b, c) < Word, Zenon
<1> HIDE DEF s, t
<1>5. s + t \in Clock  BY ONLY <1>1, <1>2, <1>3, <1>4 DEF Clock
<1>6. c = a + (s + t) \/ c = a + (s + t) - Word
  BY ONLY <1>1, <1>2, <1>3, <1>4, a \in Clock, c \in Clock DEF Clock
<1> DEFINE v == s + t
<1> HIDE DEF v
<1>7. v \in Clock /\ (c = a + v \/ c = a + v - Word)  BY ONLY <1>5, <1>6 DEF v
<1>8. Span(a, c) = v  BY ONLY <1>7, a \in Clock, c \in Clock, SpanIs, Zenon
<1> QED  BY ONLY <1>8, Zenon DEF s, t, v

-----------------------------------------------------------------------------
(* The lease and the counters.                                              *)

\* A lease lasts a second or more; it is renewed in the middle.
LEMMA LeaseFacts ==
  ASSUME NEW n \in Networks, NEW l \in n.leases
  PROVE  /\ l \in Nat /\ l < Word
         /\ LeaseTime(l) \in Nat /\ LeaseTime(l) >= 1
         /\ RenewTime(l) \in Nat /\ 2 * RenewTime(l) <= LeaseTime(l) /\ LeaseTime(l) <= 2 * RenewTime(l) + 1
         /\ LeaseTime(l) < Half => RenewTime(l) < Half
<1>1. n.leases \subseteq 0..(Word - 1)  BY ONLY DhcpAssumption, n \in Networks, Zenon
<1>2. l \in 0..(Word - 1)  BY ONLY <1>1, l \in n.leases, Zenon
<1>3. Word \in Nat /\ Half \in Nat  BY ONLY Words
<1>4. l \in Nat /\ l < Word  BY ONLY <1>2, <1>3
<1>5. LeaseTime(l) \in Nat /\ LeaseTime(l) >= 1
  BY ONLY <1>3, <1>4, TimingAssumption DEF LeaseTime, Half
<1> DEFINE L == LeaseTime(l)
<1> HIDE DEF L
<1>6. L \div 2 \in Nat /\ 2 * (L \div 2) <= L /\ L <= 2 * (L \div 2) + 1
  <2>1. L \in Nat  BY ONLY <1>5 DEF L
  <2> QED  BY ONLY <2>1
<1>7. L < Half => L \div 2 < Half  BY ONLY <1>3, <1>5, <1>6 DEF L
<1> QED  BY ONLY <1>4, <1>5, <1>6, <1>7, Zenon DEF L, RenewTime

\* The one lease time of a steady network.
LEMMA SteadyFacts ==
  ASSUME NEW n \in Networks, Steady(n), NEW l \in n.leases
  PROVE  /\ \A k \in n.leases : k = l
         /\ LeaseTime(l) < Half
         /\ Second * LeaseTime(l) <= Word
         /\ Second * (LeaseTime(l) - RenewTime(l)) >= 2 * Gap + Second - 1
<1>1. PICK j \in n.leases : n.leases = {j} /\ j < Half  BY ONLY Steady(n), Zenon DEF Steady, Half
<1>2. l = j /\ \A k \in n.leases : k = l  BY ONLY <1>1, l \in n.leases, Zenon
<1>3. DEFAULT_LEASE < Half
  <2>1. DEFAULT_LEASE \in 1..(Half - 1)  BY ONLY TimingAssumption, Zenon DEF Half
  <2> QED  BY ONLY <2>1, Words
<1>4. LeaseTime(l) < Half  BY ONLY <1>1, <1>2, <1>3, Zenon DEF LeaseTime
<1>5. /\ Second * LeaseTime(l) <= Word
      /\ Second * (LeaseTime(l) - RenewTime(l)) >= 2 * Gap + Second - 1
  BY ONLY TimingAssumption, n \in Networks, Steady(n), l \in n.leases, Zenon
<1> QED  BY ONLY <1>2, <1>4, <1>5, Zenon

\* A number that fits the signed counters.
LEMMA SignedFits ==
  ASSUME NEW x \in Nat
  PROVE  Signed(x) \in Int /\ (x < Half => Signed(x) = x)
<1>1. Word \in Nat /\ Half \in Nat /\ Word = 2 * Half /\ Half > 0  BY ONLY Words
<1> DEFINE m == x % Word
<1>2. x \in Int /\ 0 <= x  BY ONLY x \in Nat
<1>3. m \in Clock /\ (x < Word => m = x)
  <2>1. x % Word \in Clock /\ (0 <= x /\ x < Word => x % Word = x)  BY ONLY <1>2, Remainder, Zenon
  <2> QED  BY ONLY <1>2, <2>1, Zenon
<1>4. Signed(x) = IF m < Half THEN m ELSE m - Word  BY ONLY Zenon DEF Signed, m, Half
<1> HIDE DEF m
<1> QED  BY ONLY <1>1, <1>2, <1>3, <1>4 DEF Clock

\* What division by Second leaves.
LEMMA Divided ==
  ASSUME NEW x \in Nat
  PROVE  /\ x \div Second \in Nat /\ x % Second \in Nat /\ x % Second < Second
         /\ x = Second * (x \div Second) + (x % Second)
<1>1. Second \in Nat /\ Second > 0  BY ONLY Words
<1> QED  BY ONLY <1>1, x \in Nat, SMT

\* checkLease counts the seconds that have passed: the next one to count is
\* ahead, and by as much as the counter has lost.
LEMMA Counting ==
  ASSUME NEW n, NEW d \in Record(n), NEW t \in Clock, -Second <= Late(d, t)
  PROVE  /\ Counted(d, t) \in Record(n)
         /\ Counted(d, t).state = d.state /\ Counted(d, t).lastCheck = d.lastCheck
         /\ Counted(d, t).localIp = d.localIp /\ Counted(d, t).serverIp = d.serverIp
         /\ Counted(d, t).leaseTime = d.leaseTime /\ Counted(d, t).T1 = d.T1
         /\ -Second <= Late(Counted(d, t), t) /\ Late(Counted(d, t), t) < 0
         /\ Counted(d, t).renewIn > 0 =>
              Late(Counted(d, t), t) - Second * Counted(d, t).renewIn = Late(d, t) - Second * d.renewIn
<1>1. Second \in Nat /\ Second > 0 /\ Second <= Half  BY ONLY Words
<1> DEFINE late    == Late(d, t)
           factor  == (late \div Second) + 1
           m       == late % Second
           Less(k) == IF k < factor * 2 THEN 0 ELSE k - factor
           s       == (t + Second - m) % Word
           e       == [d EXCEPT !.secTimeout = s, !.renewIn = Less(@), !.rebindIn = Less(@)]
<1>2. Counted(d, t) = IF late < 0 THEN d ELSE e  BY ONLY Zenon DEF Counted, Late
<1>3. d.secTimeout \in Clock /\ d.renewIn \in Int /\ d.rebindIn \in Int  BY ONLY d \in Record(n) DEF Record
<1>4. late \in Int  BY ONLY <1>3, t \in Clock, SignedGives, Zenon DEF Late
<1>5. CASE late < 0
  <2>1. Counted(d, t) = d  BY ONLY <1>2, <1>5, Zenon
  <2> QED  BY <1>5, <2>1, Zenon
<1>6. CASE ~(late < 0)
  <2>1. Counted(d, t) = e  BY ONLY <1>2, <1>6, Zenon
  <2>2. late \in Nat  BY ONLY <1>4, <1>6
  <2> DEFINE q == late \div Second
  <2>3. q \in Nat /\ m \in Nat /\ m < Second /\ late = Second * q + m  BY ONLY <2>2, Divided, Zenon
  <2>4. factor = q + 1  BY ONLY Zenon DEF q
  <2> HIDE DEF m, q
  <2> DEFINE k == Second - m
  <2>5. k \in Nat /\ 1 <= k /\ k <= Second /\ k <= Half
    <3>1. m \in Nat /\ m < Second  BY ONLY <2>3, Zenon
    <3> QED  BY ONLY <1>1, <3>1, Words
  <2>6. t + Second - m = t + k
    <3>1. t \in Int  BY ONLY Words, t \in Clock DEF Clock
    <3> QED  BY ONLY <1>1, <2>3, <3>1
  <2>7. s \in Clock /\ Signed(t - s) = -k
    <3>1. s = (t + k) % Word  BY ONLY <2>6, Zenon
    <3>2. (t + k) % Word \in Clock /\ Signed(t - ((t + k) % Word)) = -k
      BY ONLY <2>5, t \in Clock, SignedAhead, Zenon
    <3> QED  BY ONLY <3>1, <3>2, Zenon
  <2> HIDE DEF s, k
  <2> DEFINE f == q + 1
  <2>8. Less(d.renewIn) \in Int /\ Less(d.rebindIn) \in Int
    BY ONLY <1>3, <2>3, <2>4
  <2>9. Less(d.renewIn) > 0 => Less(d.renewIn) = d.renewIn - (q + 1)
    BY ONLY <1>3, <2>3, <2>4
  <2> DEFINE a == Less(d.renewIn)
             b == Less(d.rebindIn)
  <2>10. e = [d EXCEPT !.secTimeout = s, !.renewIn = a, !.rebindIn = b]  BY ONLY d \in Record(n) DEF Record
  <2>11. a \in Int /\ b \in Int /\ (a > 0 => a = d.renewIn - (q + 1))  BY ONLY <2>8, <2>9, Zenon
  <2> HIDE DEF a, b, e
  <2>12. /\ e \in Record(n)
         /\ e.state = d.state /\ e.lastCheck = d.lastCheck
         /\ e.localIp = d.localIp /\ e.serverIp = d.serverIp
         /\ e.leaseTime = d.leaseTime /\ e.T1 = d.T1
         /\ e.secTimeout = s /\ e.renewIn = a
    BY ONLY <2>7, <2>10, <2>11, d \in Record(n), Zenon DEF Record
  <2>13. Late(e, t) = -k  BY ONLY <2>7, <2>12, Zenon DEF Late
  <2>14. -Second <= -k /\ -k < 0  BY ONLY <1>1, <2>5
  <2> DEFINE g == d.renewIn
  <2> HIDE DEF g, late
  <2>15. -(Second - m) - Second * (d.renewIn - (q + 1)) = late - Second * d.renewIn
    <3>1. g \in Int  BY ONLY <1>3, Zenon DEF g
    <3>2. m \in Nat /\ q \in Nat /\ late = Second * q + m  BY ONLY <2>3, Zenon
    <3> DEFINE u == Second * g
               v == Second * q
               w == Second * (g - (q + 1))
    <3>3. u \in Int /\ v \in Int  BY ONLY <1>1, <3>1, <3>2
    <3>4. w = u - v - Second  BY ONLY <1>1, <3>1, <3>2
    <3>5. late = v + m  BY ONLY <3>2, Zenon
    <3> HIDE DEF u, v, w
    <3>6. -(Second - m) - w = late - u  BY ONLY <1>1, <3>2, <3>3, <3>4, <3>5
    <3> QED  BY ONLY <3>6, Zenon DEF g, u, w
  <2>16. a > 0 => -k - Second * a = late - Second * d.renewIn  BY ONLY <2>11, <2>15, Zenon DEF k
  <2>17. /\ -Second <= Late(e, t) /\ Late(e, t) < 0
         /\ e.renewIn > 0 => Late(e, t) - Second * e.renewIn = late - Second * d.renewIn
    BY ONLY <2>12, <2>13, <2>14, <2>16, Zenon
  <2> QED  BY ONLY <2>1, <2>12, <2>17, Zenon DEF late
<1> QED  BY ONLY <1>5, <1>6, Zenon

-----------------------------------------------------------------------------
(* The lease outlasts the counter.                                          *)

\* The products of the argument, as numbers.
LEMMA LeaseTicks ==
  ASSUME NEW n \in Networks, Steady(n), NEW l \in n.leases
  PROVE  /\ Second * LeaseTime(l) \in Nat /\ Second * LeaseTime(l) >= 1 /\ Second * LeaseTime(l) <= Word
         /\ Second * RenewTime(l) \in Nat
         /\ Second * (LeaseTime(l) - RenewTime(l)) = Second * LeaseTime(l) - Second * RenewTime(l)
         /\ Second * LeaseTime(l) - Second * RenewTime(l) >= 2 * Gap + Second - 1
         /\ Start(l) = Second * LeaseTime(l) - Second * RenewTime(l) - Gap - Second
         /\ Gap > 0 => RenewTime(l) > 0
<1>1. Second \in Nat /\ Second > 0 /\ Gap \in Nat  BY ONLY Words
<1> DEFINE L == LeaseTime(l)
           T == RenewTime(l)
<1>2. L \in Nat /\ L >= 1 /\ T \in Nat /\ 2 * T <= L /\ L <= 2 * T + 1  BY ONLY LeaseFacts, n \in Networks, l \in n.leases, Zenon
<1>3. Second * L <= Word /\ Second * (L - T) >= 2 * Gap + Second - 1
  BY ONLY SteadyFacts, n \in Networks, Steady(n), l \in n.leases, Zenon
<1> HIDE DEF L, T
<1>4. Second * L \in Nat /\ Second * T \in Nat  BY ONLY <1>1, <1>2
<1>5. Second * L >= 1  BY ONLY <1>1, <1>2
<1>6. Second * (L - T) = Second * L - Second * T  BY ONLY <1>1, <1>2
<1>7. Second * L - Second * T >= 2 * Gap + Second - 1  BY ONLY <1>3, <1>6, Zenon
<1>8. Start(l) = Second * L - Second * T - Gap - Second  BY ONLY <1>6, Zenon DEF Start, L, T
<1>9. ASSUME Gap > 0 PROVE T > 0
  <2>1. SUFFICES ASSUME T = 0 PROVE FALSE  BY ONLY <1>2, <2>1
  <2>2. L = 1  BY ONLY <1>2, <2>1
  <2>3. Second * (1 - 0) >= 2 * Gap + Second - 1  BY ONLY <1>3, <2>1, <2>2, Zenon
  <2> QED  BY ONLY <1>1, <1>9, <2>3
<1> QED  BY ONLY <1>3, <1>4, <1>5, <1>6, <1>7, <1>8, <1>9, Zenon DEF L, T

\* While the counters are looked at in time, the second to count gets later
\* as the clock moves.
LEMMA LateMoves ==
  ASSUME NEW n, NEW d \in Record(n), NEW t \in Clock, NEW k \in Nat, k <= Gap,
         -Second <= Late(d, t), Late(d, t) < 2 * Longest
  PROVE  /\ Late(d, t) \in Int
         /\ (t + k) % Word \in Clock
         /\ (t + k) % Word = t + k \/ (t + k >= Word /\ (t + k) % Word = t + k - Word)
         /\ Late(d, (t + k) % Word) = Late(d, t) + k
<1>1. /\ Half \in Nat /\ Second \in Nat /\ Gap \in Nat
      /\ Longest \in Nat /\ 2 * Longest + Gap <= Half
  BY ONLY Words
<1>2. d.secTimeout \in Clock  BY ONLY d \in Record(n) DEF Record
<1>3. Late(d, t) \in Int  BY ONLY <1>2, t \in Clock, SignedGives, Zenon DEF Late
<1>4. k <= Half /\ Late(d, t) + k < Half  BY ONLY <1>1, <1>3, k \in Nat, k <= Gap, Late(d, t) < 2 * Longest
<1>5. Signed(((t + k) % Word) - d.secTimeout) = Signed(t - d.secTimeout) + k
  BY ONLY <1>2, <1>4, t \in Clock, k \in Nat, SignedMoves, Zenon DEF Late
<1>6. /\ (t + k) % Word \in Clock
      /\ (t + k) % Word = t + k \/ (t + k >= Word /\ (t + k) % Word = t + k - Word)
  BY ONLY <1>4, t \in Clock, k \in Nat, ClockMoves, Zenon
<1> QED  BY ONLY <1>3, <1>5, <1>6, Zenon DEF Late


\* What maintain leaves of the lease after k ticks.
Rest(rest, k) == IF rest < k THEN 0 ELSE rest - k

\* A lease that was just acknowledged is held.
LEMMA HeldGranted ==
  ASSUME NEW n \in Networks, Steady(n), NEW l \in n.leases, NEW d \in Record(n), NEW t \in Clock,
         d.renewIn = RenewTime(l), Overdue(d, t, 2 * Longest)
  PROVE  Held(l, d, t, Second * LeaseTime(l))
<1>1. Second \in Nat /\ Gap \in Nat  BY ONLY Words
<1> DEFINE H == Second * LeaseTime(l)
           P == Second * RenewTime(l)
<1>2. H \in Nat /\ H >= 1 /\ P \in Nat /\ Start(l) = H - P - Gap - Second
  BY ONLY LeaseTicks, n \in Networks, Steady(n), l \in n.leases, Zenon
<1>3. d.lastCheck \in BOOLEAN /\ d.secTimeout \in Clock  BY ONLY d \in Record(n) DEF Record
<1>4. Late(d, t) \in Int  BY ONLY <1>3, t \in Clock, SignedGives, Zenon DEF Late
<1>5. d.lastCheck => -Second <= Late(d, t)  BY ONLY Overdue(d, t, 2 * Longest), Zenon DEF Overdue
<1>6. Slack(d, t, H) = H + Late(d, t) - P  BY ONLY d.renewIn = RenewTime(l), Zenon DEF Slack
<1> DEFINE x == Late(d, t)
<1> HIDE DEF H, P, x
<1>7. -Second <= x => H + x - P >= H - P - Gap - Second
  <2>1. x \in Int  BY ONLY <1>4, Zenon DEF x
  <2> QED  BY ONLY <1>1, <1>2, <2>1
<1>8. d.lastCheck => Slack(d, t, H) >= Start(l)  BY ONLY <1>2, <1>5, <1>6, <1>7, Zenon DEF x
<1>9. H > 0 /\ H - H = 0 /\ H - H >= 0  BY ONLY <1>2
<1>10. Held(l, d, t, H) <=>
        /\ H > 0 /\ H - H >= 0
        /\ d.lastCheck => Slack(d, t, H) >= Start(l) \/ (t <= H - H /\ Slack(d, t, H) >= Start(l) - Loss)
        /\ ~d.lastCheck =>
             \/ d.renewIn = RenewTime(l) /\ (H - H = 0 \/ (t = 0 /\ H - H <= Gap))
             \/ t = 0 /\ d.renewIn > 0 /\ -Second <= Late(d, t) /\ Late(d, t) < 0 /\ Slack(d, t, H) >= Start(l)
  BY ONLY Zenon DEF Held, H
<1> QED  BY ONLY <1>8, <1>9, <1>10, d.renewIn = RenewTime(l), Zenon DEF H

\* What Held says, with the age of the lease written out.
LEMMA HeldSays ==
  ASSUME NEW l, NEW d, NEW t, NEW rest
  PROVE  Held(l, d, t, rest) <=>
           /\ rest > 0 /\ Second * LeaseTime(l) - rest >= 0
           /\ d.lastCheck =>
                \/ Slack(d, t, rest) >= Start(l)
                \/ t <= Second * LeaseTime(l) - rest /\ Slack(d, t, rest) >= Start(l) - Loss
           /\ ~d.lastCheck =>
                \/ /\ d.renewIn = RenewTime(l)
                   /\ Second * LeaseTime(l) - rest = 0 \/ (t = 0 /\ Second * LeaseTime(l) - rest <= Gap)
                \/ t = 0 /\ d.renewIn > 0 /\ -Second <= Late(d, t) /\ Late(d, t) < 0 /\ Slack(d, t, rest) >= Start(l)
BY ONLY Zenon DEF Held

\* A call of maintain that counts and finds time left on the counter.
LEMMA HeldCounts ==
  ASSUME NEW n \in Networks, Steady(n), NEW l \in n.leases, NEW d \in Record(n), NEW t \in Clock,
         NEW rest \in Nat, NEW k \in 1..Gap, d.lastCheck, Overdue(d, t, 2 * Longest), Held(l, d, t, rest),
         NEW u, u = (t + k) % Word, NEW e, e = [Counted(d, u) EXCEPT !.lastCheck = u # 0], e.renewIn > 0
  PROVE  Held(l, e, u, Rest(rest, k))
<1>1. Word \in Nat /\ Second \in Nat /\ Second > 0 /\ Gap \in Nat  BY ONLY Words
<1>2. k \in Nat /\ k >= 1 /\ k <= Gap /\ rest \in Int /\ t \in Int /\ t >= 0
  BY ONLY <1>1, k \in 1..Gap, rest \in Nat, t \in Clock DEF Clock
<1>3. -Second <= Late(d, t) /\ Late(d, t) < 2 * Longest
  BY ONLY d.lastCheck, Overdue(d, t, 2 * Longest), Zenon DEF Overdue
<1>4. /\ Late(d, t) \in Int /\ u \in Clock /\ (u = t + k \/ (t + k >= Word /\ u = t + k - Word))
      /\ Late(d, u) = Late(d, t) + k
  <2>1. /\ Late(d, t) \in Int /\ (t + k) % Word \in Clock
        /\ (t + k) % Word = t + k \/ (t + k >= Word /\ (t + k) % Word = t + k - Word)
        /\ Late(d, (t + k) % Word) = Late(d, t) + k
    BY ONLY <1>2, <1>3, d \in Record(n), t \in Clock, LateMoves
  <2> QED  BY ONLY <2>1, u = (t + k) % Word, Zenon
<1>5. -Second <= Late(d, u)
  <2> DEFINE x == Late(d, t)
  <2>1. x \in Int /\ -Second <= x /\ Late(d, u) = x + k  BY ONLY <1>3, <1>4, Zenon
  <2> HIDE DEF x
  <2> QED  BY ONLY <1>1, <1>2, <2>1
<1> DEFINE c == Counted(d, u)
<1>6. /\ c \in Record(n) /\ Late(c, u) < 0 /\ -Second <= Late(c, u)
      /\ c.renewIn > 0 => Late(c, u) - Second * c.renewIn = Late(d, u) - Second * d.renewIn
  BY ONLY <1>4, <1>5, d \in Record(n), Counting, Zenon
<1> HIDE DEF c
<1>7. e.renewIn = c.renewIn /\ e.secTimeout = c.secTimeout /\ e.lastCheck = (u # 0) /\ c.secTimeout \in Clock
      /\ e.renewIn \in Int /\ d.renewIn \in Int
  BY ONLY <1>6, e = [Counted(d, u) EXCEPT !.lastCheck = u # 0], d \in Record(n) DEF c, Record
<1>8. Late(e, u) = Late(c, u)  BY ONLY <1>7, Zenon DEF Late
<1>9. Late(c, u) \in Int  BY ONLY <1>4, <1>7, SignedGives, Zenon DEF Late
<1> DEFINE H == Second * LeaseTime(l)
           T == Second * RenewTime(l)
           P == Second * d.renewIn
           Q == Second * e.renewIn
           x == Late(d, t)
           y == Late(e, u)
           A == H - T
<1>10. H \in Nat /\ H <= Word /\ T \in Nat /\ A >= 2 * Gap + Second - 1 /\ Start(l) = A - Gap - Second
  BY ONLY LeaseTicks, n \in Networks, Steady(n), l \in n.leases, Zenon
<1>11. P \in Int /\ Q \in Int  BY ONLY <1>1, <1>7
<1>12. Q >= Second  BY ONLY <1>1, <1>7, e.renewIn > 0
<1>13. y - Q = x + k - P /\ y < 0 /\ x \in Int /\ y \in Int /\ -Second <= y
  <2> DEFINE z == Late(d, u)
  <2>1. y - Q = z - P /\ z = x + k  BY ONLY <1>4, <1>6, <1>7, <1>8, e.renewIn > 0, Zenon
  <2>2. y < 0 /\ -Second <= y /\ x \in Int /\ y \in Int  BY ONLY <1>4, <1>6, <1>8, <1>9, Zenon
  <2> HIDE DEF x, y, z, P, Q
  <2> QED  BY ONLY <1>2, <1>11, <2>1, <2>2
<1>14. Slack(d, t, rest) = rest + x - P  BY ONLY Zenon DEF Slack
<1>15. Slack(e, u, rest - k) = rest - k + y - Q  BY ONLY Zenon DEF Slack
<1>16. Loss = Gap + Second - 1  BY ONLY Zenon DEF Loss
<1>17. /\ H - rest >= 0
       /\ \/ rest + x - P >= A - Gap - Second
          \/ t <= H - rest /\ rest + x - P >= A - Gap - Second - (Gap + Second - 1)
  BY ONLY <1>10, <1>14, <1>16, d.lastCheck, Held(l, d, t, rest), HeldSays, Zenon
<1> HIDE DEF H, T, P, Q, x, y
<1>18. A \in Int /\ H \in Int /\ k \in Int /\ u \in Int
  BY ONLY <1>1, <1>2, <1>4, <1>10 DEF Clock
<1> HIDE DEF A
<1>19. /\ rest - k > 0 /\ H - (rest - k) >= 0
       /\ \/ rest - k + y - Q >= A - Gap - Second
          \/ u # 0 /\ u <= H - (rest - k) /\ rest - k + y - Q >= A - Gap - Second - (Gap + Second - 1)
  <2>1. rest - k + y - Q = rest + x - P  BY ONLY <1>2, <1>11, <1>13
  <2>2. rest + x - P >= -Second  BY ONLY <1>1, <1>2, <1>10, <1>11, <1>13, <1>17, <1>18
  <2>3. rest - k > 0  BY ONLY <1>1, <1>2, <1>11, <1>12, <1>13, <2>1, <2>2
  <2>4. H - (rest - k) >= 0  BY ONLY <1>2, <1>17, <1>18
  <2>5. t <= H - rest => u # 0 /\ u <= H - (rest - k)  BY ONLY <1>1, <1>2, <1>4, <1>10, <1>18, <2>3
  <2> QED  BY ONLY <1>17, <2>1, <2>3, <2>4, <2>5, Zenon
<1>20. Rest(rest, k) = rest - k  BY ONLY <1>2, <1>19 DEF Rest
<1>21. u = 0 => Slack(e, u, rest - k) >= Start(l)  BY ONLY <1>10, <1>15, <1>19, Zenon
<1>22. \/ Slack(e, u, rest - k) >= Start(l)
       \/ u <= H - (rest - k) /\ Slack(e, u, rest - k) >= Start(l) - Loss
  BY ONLY <1>10, <1>15, <1>16, <1>19, Zenon
<1>23. Held(l, e, u, rest - k)
  BY ONLY <1>7, <1>13, <1>19, <1>21, <1>22, e.renewIn > 0, HeldSays, Zenon DEF H, y
<1> QED  BY ONLY <1>20, <1>23, Zenon

\* A call of maintain that starts to count.
LEMMA HeldStarts ==
  ASSUME NEW n \in Networks, Steady(n), NEW l \in n.leases, NEW d \in Record(n), NEW t \in Clock,
         NEW rest \in Nat, NEW k \in 1..Gap, ~d.lastCheck, Held(l, d, t, rest),
         NEW u, u = (t + k) % Word,
         NEW e, e = [d EXCEPT !.secTimeout = (u + Second) % Word, !.lastCheck = u # 0]
  PROVE  Held(l, e, u, Rest(rest, k))
<1>1. /\ Word \in Nat /\ Half \in Nat /\ Second \in Nat /\ Second > 0 /\ Second <= Half /\ Gap \in Nat
      /\ Longest \in Nat /\ 2 * Longest + Gap <= Half
  BY ONLY Words
<1>2. k \in Nat /\ k >= 1 /\ k <= Gap /\ k <= Half /\ Gap > 0 /\ rest \in Int /\ t \in Int /\ t >= 0
  BY ONLY <1>1, k \in 1..Gap, rest \in Nat, t \in Clock DEF Clock
<1>3. u \in Clock /\ (u = t + k \/ (t + k >= Word /\ u = t + k - Word))
  BY ONLY <1>2, t \in Clock, u = (t + k) % Word, ClockMoves, Zenon
<1>4. (u + Second) % Word \in Clock /\ Signed(u - ((u + Second) % Word)) = -Second
  <2>1. 1 <= Second  BY ONLY <1>1
  <2> QED  BY ONLY <1>1, <1>3, <2>1, SignedAhead, Zenon
<1> DEFINE s == (u + Second) % Word
<1> HIDE DEF s
<1>5. e.renewIn = d.renewIn /\ e.secTimeout = s /\ e.lastCheck = (u # 0) /\ d.renewIn \in Int /\ d.secTimeout \in Clock
  BY ONLY e = [d EXCEPT !.secTimeout = (u + Second) % Word, !.lastCheck = u # 0], d \in Record(n) DEF s, Record
<1>6. Late(e, u) = -Second  BY ONLY <1>4, <1>5, Zenon DEF Late, s
<1>7. Late(d, t) \in Int  BY ONLY <1>5, t \in Clock, SignedGives, Zenon DEF Late
<1> DEFINE H == Second * LeaseTime(l)
           T == Second * RenewTime(l)
           P == Second * d.renewIn
           x == Late(d, t)
           A == H - T
<1>8. /\ H \in Nat /\ H <= Word /\ T \in Nat /\ A >= 2 * Gap + Second - 1 /\ Start(l) = A - Gap - Second
      /\ RenewTime(l) > 0
  BY ONLY <1>2, LeaseTicks, n \in Networks, Steady(n), l \in n.leases, Zenon
<1>9. Slack(d, t, rest) = rest + x - P  BY ONLY Zenon DEF Slack
<1>10. Slack(e, u, rest - k) = rest - k + -Second - P  BY ONLY <1>5, <1>6, Zenon DEF Slack
<1>11. Loss = Gap + Second - 1  BY ONLY Zenon DEF Loss
<1>12. /\ H - rest >= 0 /\ d.renewIn > 0
       /\ \/ P = T /\ d.renewIn = RenewTime(l) /\ H - rest = 0
          \/ P = T /\ t = 0 /\ H - rest <= Gap
          \/ t = 0 /\ x < 0 /\ rest + x - P >= A - Gap - Second
  BY ONLY <1>8, <1>9, ~d.lastCheck, Held(l, d, t, rest), HeldSays, Zenon
<1>13. P \in Int /\ P >= Second  BY ONLY <1>1, <1>5, <1>12
<1>14. P = T <=> P = H - A  
  <2> HIDE DEF H, T, P
  <2> QED  BY ONLY <1>8, <1>13
<1> HIDE DEF H, T, P, x
<1>15. A \in Int /\ H \in Int /\ k \in Int /\ u \in Int /\ x \in Int
  BY ONLY <1>1, <1>2, <1>3, <1>7, <1>8 DEF Clock, x
<1> HIDE DEF A
<1>16. /\ rest - k > 0 /\ H - (rest - k) >= 0
       /\ u # 0 => \/ rest - k + -Second - P >= A - Gap - Second
                   \/ u <= H - (rest - k) /\ rest - k + -Second - P >= A - Gap - Second - (Gap + Second - 1)
       /\ u = 0 => P = H - A /\ H - rest = 0 /\ H - (rest - k) <= Gap
  <2>1. Word = 2 * Half /\ Half > 0  BY ONLY Words
  <2>2. t = 0 => u = k /\ u # 0  BY ONLY <1>1, <1>2, <1>3, <2>1
  <2>3. A >= 2 * Gap + Second - 1 /\ H - rest >= 0  BY ONLY <1>8, <1>12, Zenon
  <2>4. CASE P = T /\ H - rest = 0
    BY ONLY <1>1, <1>2, <1>13, <1>14, <1>15, <2>3, <2>4
  <2>5. CASE P = T /\ t = 0 /\ H - rest <= Gap
    BY ONLY <1>1, <1>2, <1>13, <1>14, <1>15, <2>2, <2>3, <2>5
  <2>6. CASE t = 0 /\ x < 0 /\ rest + x - P >= A - Gap - Second
    BY ONLY <1>1, <1>2, <1>13, <1>15, <2>2, <2>3, <2>6
  <2> QED  BY ONLY <1>12, <2>4, <2>5, <2>6, Zenon
<1>17. Rest(rest, k) = rest - k  BY ONLY <1>2, <1>16 DEF Rest
<1>18. u # 0 => \/ Slack(e, u, rest - k) >= Start(l)
                \/ u <= H - (rest - k) /\ Slack(e, u, rest - k) >= Start(l) - Loss
  BY ONLY <1>8, <1>10, <1>11, <1>16, Zenon
<1>19. u = 0 => d.renewIn = RenewTime(l)
  <2>1. u = 0 => t # 0
    <3>1. Word = 2 * Half /\ Half > 0  BY ONLY Words
    <3> QED  BY ONLY <1>1, <1>2, <1>3, <3>1
  <2> QED  BY ONLY <1>12, <2>1, Zenon
<1>20. Held(l, e, u, rest - k)
  BY ONLY <1>5, <1>16, <1>18, <1>19, HeldSays, Zenon DEF H
<1> QED  BY ONLY <1>17, <1>20, Zenon

-----------------------------------------------------------------------------
(* The ends of a call and of an iteration.                                  *)

\* What every step leaves in place, and what is asked of the new fields d.
Frame == net' = net /\ net \in Networks /\ now' \in Clock /\ left' \in Nat
Fields(d) == d \in Record(net) /\ Lengths(net, d)
HeldAt(d) == Steady(net) /\ d.state = "LEASED" => \A l \in net.leases : Held(l, d, now', left')
NoFault == net.faults = {}

\* The locals of a call.
Calls(n) == [start : Clock, since : Clock, xid : Nat, sent : SUBSET Messages(n)]

\* begin or maintain returns.
LEMMA DoneLInv ==
  ASSUME NEW d, NEW r, Done(d, r), Frame, Fields(d), Overdue(d, now', 2 * Longest), HeldAt(d),
         NoFault => r # "fail" /\ d.state = "LEASED" /\ Known(net, d) /\ (r = "ok" \/ ip # None)
  PROVE  LInv'
<1> USE Zenon
<1>1. pc' = "idle" /\ dhcp' = d /\ rc' = r /\ call' = NoCall /\ ip' = IF r = "ok" THEN d.localIp ELSE ip
  BY DEF Done
<1>2. pc' \notin {"off", "begin", "renew", "rebind"} /\ pc' \in {"off", "idle", "begin", "renew", "rebind"}
      /\ pc' \in {"off", "idle"}
  BY ONLY <1>1
<1>3. NoCall \in Calls(net)
  <2>1. 0 \in Clock /\ 0 \in Nat  BY ONLY Words DEF Clock
  <2> QED  BY ONLY <2>1, SMT DEF NoCall, Calls
<1>4. TypeInv'  BY <1>1, <1>2, <1>3 DEF TypeInv, Frame, Fields, Calls
<1>5. CallInv'  BY <1>2 DEF CallInv, Calling
<1>6. LateInv'  BY <1>1, <1>2 DEF LateInv
<1>7. HeldInv'  BY <1>1 DEF HeldInv, HeldAt, Regular, Frame
<1>8. NoFault => ip' # None
  <2>1. None \notin net.servers  BY DhcpAssumption DEF Frame
  <2>2. NoFault => d.localIp # None  BY <2>1 DEF Known
  <2> QED  BY <1>1, <2>2
<1>9. WellInv'  BY <1>1, <1>2, <1>8 DEF WellInv, NoFault, Frame, Calling
<1> QED  BY <1>4, <1>5, <1>6, <1>7, <1>9 DEF LInv

\* The loop of request_DHCP_lease starts.
LEMMA OpenLInv ==
  ASSUME NEW caller \in {"renew", "rebind"}, NEW d, Open(caller, d), Frame, Fields(d),
         d.state \in {"START", "REREQUEST"},
         caller = "renew" => Overdue(d, now', 0),
         caller = "rebind" => Overdue(d, now', Longest),
         NoFault => /\ d.state = "REREQUEST" => Known(net, d)
                    /\ d.state = "START" => d.serverIp = None
                    /\ ip # None
  PROVE  LInv'
<1> USE Zenon
<1> DEFINE c == [start |-> now', since |-> now', xid |-> 1, sent |-> {}]
<1>1. pc' = caller /\ dhcp' = d /\ call' = c /\ ip' = ip  BY DEF Open
<1>2. pc' \in {"off", "idle", "begin", "renew", "rebind"} /\ pc' \notin {"off", "begin", "idle"}
  BY ONLY <1>1, caller \in {"renew", "rebind"}, SMT
<1>3. c \in Calls(net) /\ c.start = now' /\ c.since = now' /\ c.sent = {} /\ c.xid > 0
  <2>1. now' \in Clock  BY DEF Frame
  <2> QED  BY ONLY <2>1, SMT DEF Calls
<1> HIDE DEF c
<1>4. d.state # "LEASED" /\ d.state # "DISCOVER" /\ d.state # "REQUEST"
  BY ONLY d.state \in {"START", "REREQUEST"}, SMT
<1>5. TypeInv'  BY <1>1, <1>2, <1>3 DEF TypeInv, Frame, Fields, Calls
<1>6. Span(now', now') = 0  BY SpanNone DEF Frame
<1>7. 0 <= Timeout /\ 0 <= ResponseTimeout + 1 /\ 0 + Longest = Longest  BY ONLY Words, SMT
<1>8. CallInv'  BY <1>1, <1>3, <1>4, <1>6, <1>7 DEF CallInv
<1>9. LateInv'  BY <1>1, <1>2, <1>3, <1>6, <1>7 DEF LateInv
<1>10. HeldInv'  BY <1>2 DEF HeldInv
<1>11. NoFault => Well(net, d, c)  BY <1>3, <1>4 DEF Well
<1>12. WellInv'  BY <1>1, <1>2, <1>11 DEF WellInv, NoFault, Frame
<1> QED  BY <1>5, <1>8, <1>9, <1>10, <1>12 DEF LInv

\* Limits on how late a second is may be raised.
LEMMA OverdueRaised ==
  ASSUME NEW n, NEW d \in Record(n), NEW t \in Clock, NEW a \in Int, NEW b \in Int, a <= b, Overdue(d, t, a)
  PROVE  Overdue(d, t, b)
<1>1. d.secTimeout \in Clock  BY ONLY d \in Record(n) DEF Record
<1>2. Late(d, t) \in Int  BY ONLY <1>1, t \in Clock, SignedGives, Zenon DEF Late
<1> DEFINE x == Late(d, t)
<1>3. x < a => x < b
  <2>1. x \in Int  BY ONLY <1>2, Zenon
  <2> HIDE DEF x
  <2> QED  BY ONLY <2>1, a \in Int, b \in Int, a <= b
<1> QED  BY <1>3, Zenon DEF Overdue

\* The limits on how late a second may be, in order.
LEMMA Limits ==
  /\ 0 \in Int /\ Longest \in Int /\ 2 * Longest \in Int
  /\ 0 <= Longest /\ Longest <= 2 * Longest /\ 0 <= 2 * Longest
BY ONLY Words

\* A record with another state.
InState(d, s) == [d EXCEPT !.state = s]

\* The other fields are as they were.
LEMMA StateFields ==
  ASSUME NEW d, Fields(d), NEW s \in {"START", "DISCOVER", "REQUEST", "REREQUEST", "LEASED"}
  PROVE  /\ Fields(InState(d, s)) /\ InState(d, s).state = s
         /\ InState(d, s).localIp = d.localIp /\ InState(d, s).serverIp = d.serverIp
         /\ InState(d, s).secTimeout = d.secTimeout /\ InState(d, s).lastCheck = d.lastCheck
<1> DEFINE e == InState(d, s)
<1>1. d \in Record(net)  BY ONLY Fields(d), Zenon DEF Fields
<1>2. /\ e \in Record(net) /\ e.state = s
      /\ e.localIp = d.localIp /\ e.serverIp = d.serverIp
      /\ e.secTimeout = d.secTimeout /\ e.lastCheck = d.lastCheck
      /\ e.leaseTime = d.leaseTime /\ e.T1 = d.T1
  BY ONLY <1>1, s \in {"START", "DISCOVER", "REQUEST", "REREQUEST", "LEASED"} DEF Record, InState
<1> QED  BY ONLY <1>2, Fields(d), Zenon DEF Fields, Lengths

\* reset_DHCP_lease takes the addresses away and nothing else.
LEMMA ResetFields ==
  ASSUME NEW d, Fields(d), NEW e, e = reset_DHCP_lease(d)
  PROVE  /\ Fields(e) /\ e.state = d.state /\ e.serverIp = None
         /\ e.secTimeout = d.secTimeout /\ e.lastCheck = d.lastCheck
<1>1. d \in Record(net)  BY ONLY Fields(d), Zenon DEF Fields
<1>2. None \in Addresses(net)  BY ONLY Zenon DEF Addresses
<1>3. /\ e \in Record(net) /\ e.state = d.state /\ e.serverIp = None
      /\ e.secTimeout = d.secTimeout /\ e.lastCheck = d.lastCheck
      /\ e.leaseTime = d.leaseTime /\ e.T1 = d.T1
  BY ONLY <1>1, <1>2, e = reset_DHCP_lease(d), Zenon DEF Record, reset_DHCP_lease
<1> QED  BY ONLY <1>3, Fields(d), Zenon DEF Fields, Lengths

\* How late a second is depends on two fields.
LEMMA OverdueSame ==
  ASSUME NEW d, NEW e, e.secTimeout = d.secTimeout, e.lastCheck = d.lastCheck, NEW t, NEW a, Overdue(d, t, a)
  PROVE  Overdue(e, t, a)
BY Zenon DEF Overdue, Late

\* The second half of checkLease.
LEMMA CheckRebindLInv ==
  ASSUME NEW d, NEW r, CheckRebind(d, r), Frame, Fields(d), Overdue(d, now', Longest), HeldAt(d),
         NoFault => r # "fail" /\ d.state = "LEASED" /\ Known(net, d) /\ ip # None
  PROVE  LInv'
<1> USE Zenon
<1> DEFINE c == InState(d, "START")
           e == reset_DHCP_lease(c)
<1>1. Overdue(d, now', 2 * Longest)  BY Limits, OverdueRaised DEF Frame, Fields
<1>2. CASE Done(d, r)  BY <1>1, <1>2, DoneLInv
<1>3. "START" \in {"START", "DISCOVER", "REQUEST", "REREQUEST", "LEASED"}
  OBVIOUS
<1> HIDE DEF c
<1>4. Fields(c) /\ c.state = "START" /\ c.secTimeout = d.secTimeout /\ c.lastCheck = d.lastCheck
  BY ONLY <1>3, Fields(d), StateFields, Zenon DEF c
<1>5. Fields(e) /\ e.state = "START" /\ e.serverIp = None /\ e.secTimeout = d.secTimeout /\ e.lastCheck = d.lastCheck
  BY <1>4, ResetFields
<1> HIDE DEF e
<1>6. Overdue(e, now', Longest) /\ Overdue(e, now', 2 * Longest)  BY <1>1, <1>5, OverdueSame
<1>7. CASE Open("rebind", e)
  <2>1. "rebind" \in {"renew", "rebind"} /\ "rebind" # "renew" /\ e.state \in {"START", "REREQUEST"} /\ e.state # "REREQUEST"
    BY ONLY <1>5, SMT
  <2> QED  BY <1>5, <1>6, <1>7, <2>1, OpenLInv
<1>8. CASE "busy" \in net.faults /\ Done(e, "fail")
  <2>1. ~NoFault  BY <1>8 DEF NoFault
  <2>2. HeldAt(e)  BY <1>5 DEF HeldAt
  <2> QED  BY <1>5, <1>6, <1>8, <2>1, <2>2, DoneLInv
<1> QED  BY <1>2, <1>7, <1>8 DEF CheckRebind, e, c, InState

\* The first half.
LEMMA CheckRenewLInv ==
  ASSUME NEW d, CheckRenew(d), Frame, Fields(d), Overdue(d, now', 0), d.renewIn > 0 => HeldAt(d),
         NoFault => d.state = "LEASED" /\ Known(net, d) /\ ip # None
  PROVE  LInv'
<1> USE Zenon
<1> DEFINE e == InState(d, "REREQUEST")
<1>1. Overdue(d, now', Longest)  BY Limits, OverdueRaised DEF Frame, Fields
<1>2. "REREQUEST" \in {"START", "DISCOVER", "REQUEST", "REREQUEST", "LEASED"}
  OBVIOUS
<1> HIDE DEF e
<1>3. /\ Fields(e) /\ e.state = "REREQUEST" /\ e.localIp = d.localIp /\ e.serverIp = d.serverIp
      /\ e.secTimeout = d.secTimeout /\ e.lastCheck = d.lastCheck
  BY ONLY <1>2, Fields(d), StateFields, Zenon DEF e
<1>4. Overdue(e, now', 0) /\ Overdue(e, now', Longest)  BY <1>1, <1>3, OverdueSame
<1>5. CASE Open("renew", e)
  <2>1. "renew" \in {"renew", "rebind"} /\ "rebind" # "renew" /\ e.state \in {"START", "REREQUEST"} /\ e.state # "START"
    BY ONLY <1>3, SMT
  <2>2. NoFault => Known(net, e)  BY <1>3 DEF Known
  <2> QED  BY <1>3, <1>4, <1>5, <2>1, <2>2, OpenLInv
<1>6. CASE "busy" \in net.faults /\ CheckRebind(e, "fail")
  <2>1. ~NoFault  BY <1>6 DEF NoFault
  <2>2. HeldAt(e)  BY <1>3 DEF HeldAt
  <2> QED  BY <1>3, <1>4, <1>6, <2>1, <2>2, CheckRebindLInv
<1>7. CASE ~(d.state = "LEASED" /\ d.renewIn <= 0) /\ CheckRebind(d, "none")
  <2>1. d.renewIn \in Int  BY ONLY Fields(d), SMT DEF Fields, Record
  <2>2. ~(d.renewIn <= 0) => d.renewIn > 0  BY ONLY <2>1, SMT
  <2>3. HeldAt(d)  BY <1>7, <2>2 DEF HeldAt
  <2>4. "none" # "fail"  BY ONLY TRUE, SMT
  <2> QED  BY <1>1, <1>7, <2>3, <2>4, CheckRebindLInv
<1> QED  BY <1>5, <1>6, <1>7 DEF CheckRenew, e, InState

-----------------------------------------------------------------------------
(* The iterations.                                                          *)

\* The types, in the form the steps use them.
LEMMA Types ==
  ASSUME LInv
  PROVE  /\ now \in Clock /\ left \in Nat /\ net \in Networks
         /\ dhcp \in Record(net) /\ Fields(dhcp)
         /\ pc \in {"off", "idle", "begin", "renew", "rebind"}
         /\ call \in Calls(net)
BY Zenon DEF LInv, TypeInv, Fields, Calls

\* How long a call has lasted.
LEMMA CallTimes ==
  ASSUME LInv, Calling
  PROVE  /\ call.start \in Clock /\ call.since \in Clock
         /\ Span(call.start, call.since) \in Nat /\ Span(call.start, call.since) <= Timeout
         /\ Span(call.since, now) \in Nat /\ Span(call.since, now) <= ResponseTimeout + 1
         /\ Span(call.start, now) = Span(call.start, call.since) + Span(call.since, now)
         /\ Span(call.start, now) \in Nat /\ Span(call.start, now) <= Longest
<1>1. /\ Word \in Nat /\ Half \in Nat /\ Word = 2 * Half /\ Half > 0
      /\ Timeout \in Nat /\ ResponseTimeout \in Nat
      /\ Longest \in Nat /\ Longest = Timeout + ResponseTimeout + 1
      /\ Gap \in Nat /\ 2 * Longest + Gap <= Half
  BY ONLY Words
<1>2. now \in Clock /\ call \in Calls(net)  BY Types, Zenon
<1>3. call.start \in Clock /\ call.since \in Clock  BY ONLY <1>2 DEF Calls
<1> DEFINE a == Span(call.start, call.since)
           b == Span(call.since, now)
<1>4. a \in Clock /\ b \in Clock  BY ONLY <1>2, <1>3, SpanGives, Zenon
<1>5. a <= Timeout /\ b <= ResponseTimeout + 1  BY Zenon DEF LInv, CallInv
<1> HIDE DEF a, b
<1>6. a \in Nat /\ b \in Nat /\ a + b \in Nat /\ a + b <= Longest /\ a + b < Word  BY ONLY <1>1, <1>4, <1>5 DEF Clock
<1>7. Span(call.start, now) = a + b
  BY ONLY <1>2, <1>3, <1>6, SpanAdds, Zenon DEF a, b
<1> QED  BY ONLY <1>3, <1>5, <1>6, <1>7, Zenon DEF a, b

\* The seconds are never too late to be counted.
LEMMA CallOverdue ==
  ASSUME LInv, Calling
  PROVE  /\ pc = "renew" => Overdue(dhcp, now, Longest)
         /\ Overdue(dhcp, now, 2 * Longest)
<1> DEFINE s == Span(call.start, now)
<1>1. s \in Nat /\ s <= Longest  BY CallTimes, Zenon
<1>2. now \in Clock /\ dhcp \in Record(net) /\ pc \in {"off", "idle", "begin", "renew", "rebind"}  BY Types, Zenon
<1>3. pc \in {"begin", "renew", "rebind"}  BY <1>2, Zenon DEF Calling
<1> HIDE DEF s
<1>4. /\ s \in Int /\ s + Longest \in Int /\ s + Longest <= 2 * Longest
  BY ONLY <1>1, Words
<1>5. CASE pc = "begin"
  <2>1. ~dhcp.lastCheck /\ pc # "renew"  BY <1>5, Zenon DEF LInv, LateInv
  <2> QED  BY <2>1, Zenon DEF Overdue
<1>6. CASE pc = "renew"
  <2>1. Overdue(dhcp, now, s)  BY <1>6, Zenon DEF LInv, LateInv, s
  <2>2. Overdue(dhcp, now, Longest)  BY ONLY <1>1, <1>2, <1>4, <2>1, Limits, OverdueRaised, Zenon
  <2>3. Overdue(dhcp, now, 2 * Longest)  BY ONLY <1>2, <2>2, Limits, OverdueRaised, Zenon
  <2> QED  BY <2>2, <2>3, Zenon
<1>7. CASE pc = "rebind"
  <2>1. Overdue(dhcp, now, s + Longest) /\ pc # "renew"  BY <1>7, Zenon DEF LInv, LateInv, s
  <2>2. Overdue(dhcp, now, 2 * Longest)  BY ONLY <1>2, <1>4, <2>1, Limits, OverdueRaised, Zenon
  <2> QED  BY <2>1, <2>2, Zenon
<1> QED  BY <1>3, <1>5, <1>6, <1>7, Zenon

\* request_DHCP_lease returns.
LEMMA ReturnLInv ==
  ASSUME LInv, Calling, NEW d, NEW r, Return(d, r), Frame, now' = now, Fields(d),
         d.secTimeout = dhcp.secTimeout, d.lastCheck = dhcp.lastCheck, HeldAt(d),
         NoFault => r = "ok" /\ d.state = "LEASED" /\ Known(net, d)
  PROVE  LInv'
<1> USE Zenon
<1>1. /\ pc = "renew" => Overdue(d, now', Longest)
      /\ Overdue(d, now', 2 * Longest)
  BY CallOverdue, OverdueSame
<1>2. "ok" # "fail"  BY ONLY TRUE, SMT
<1>3. CASE pc = "renew"
  <2>1. CheckRebind(d, r)  BY <1>3 DEF Return
  <2>2. NoFault => ip # None  BY <1>3 DEF LInv, WellInv, NoFault
  <2> QED  BY <1>1, <1>2, <1>3, <2>1, <2>2, CheckRebindLInv
<1>4. CASE pc # "renew"
  <2>1. Done(d, r)  BY <1>4 DEF Return
  <2> QED  BY <1>1, <1>2, <2>1, DoneLInv
<1> QED  BY <1>3, <1>4

\* A call as an iteration leaves it.
NextCall(t, x, s) == [call EXCEPT !.since = t, !.xid = x, !.sent = s]

\* An iteration of the loop.
LEMMA IterateLInv ==
  ASSUME LInv, Calling, NEW d, NEW xid \in Nat, NEW sent \in SUBSET Messages(net), Iterate(d, xid, sent),
         net' = net, now' = now, left' \in Nat, Fields(d),
         d.secTimeout = dhcp.secTimeout, d.lastCheck = dhcp.lastCheck, HeldAt(d),
         NoFault =>
           IF d.state = "LEASED" THEN Known(net, d)
           ELSE /\ Span(call.start, now) <= Timeout
                /\ Well(net, d, NextCall(now, xid, sent))
  PROVE  LInv'
<1> USE Zenon
<1>1. Frame  BY Types DEF Frame
<1>2. CASE d.state = "LEASED"
  <2>1. Return(d, "ok")  BY <1>2 DEF Iterate
  <2> QED  BY <1>1, <1>2, <2>1, ReturnLInv
<1>3. CASE d.state # "LEASED" /\ (now' - call.start) % Word > Timeout
  <2>1. Return(d, "fail")  BY <1>3 DEF Iterate
  <2>2. ~(Span(call.start, now) <= Timeout)
    <3> DEFINE s == Span(call.start, now)
    <3>1. s > Timeout  BY <1>3 DEF Span
    <3>2. s \in Nat  BY CallTimes
    <3> HIDE DEF s
    <3>3. ~(s <= Timeout)  BY ONLY <3>1, <3>2, Words, SMT
    <3> QED  BY <3>3 DEF s
  <2>3. ~NoFault  BY <1>3, <2>2
  <2> QED  BY <1>1, <2>1, <2>3, ReturnLInv
<1>4. CASE d.state # "LEASED" /\ ~((now' - call.start) % Word > Timeout)
  <2> DEFINE c == [call EXCEPT !.since = now, !.xid = xid, !.sent = sent]
  <2>1. dhcp' = d /\ call' = c /\ pc' = pc /\ ip' = ip /\ rc' = rc  BY <1>4 DEF Iterate
  <2>2. Span(call.start, now) <= Timeout
    <3> DEFINE s == Span(call.start, now)
    <3>1. ~(s > Timeout)  BY <1>4 DEF Span
    <3>2. s \in Nat  BY CallTimes
    <3> HIDE DEF s
    <3>3. s <= Timeout  BY ONLY <3>1, <3>2, Words, SMT
    <3> QED  BY <3>3 DEF s
  <2>3. now \in Clock /\ call \in Calls(net) /\ net \in Networks /\ pc \in {"off", "idle", "begin", "renew", "rebind"}
    BY Types
  <2>4. c \in Calls(net) /\ c.start = call.start /\ c.since = now
    BY ONLY <2>3, xid \in Nat, sent \in SUBSET Messages(net), Zenon DEF Calls
  <2>5. TypeInv'  BY <2>1, <2>3, <2>4 DEF TypeInv, Calls, Fields
  <2>6. Span(now, now) = 0 /\ 0 <= ResponseTimeout + 1
    <3>1. 0 <= ResponseTimeout + 1  BY ONLY Words, SMT
    <3> QED  BY <2>3, <3>1, SpanNone
  <2> HIDE DEF c
  <2>7. CallInv'  BY <1>4, <2>1, <2>2, <2>4, <2>6 DEF CallInv
  <2>8. /\ pc \in {"off", "begin"} => ~dhcp.lastCheck
        /\ pc = "renew" => Overdue(dhcp, now, Span(call.start, now))
        /\ pc = "rebind" => Overdue(dhcp, now, Span(call.start, now) + Longest)
    BY DEF LInv, LateInv
  <2>9. /\ pc \in {"off", "begin"} => ~d.lastCheck
        /\ pc = "renew" => Overdue(d, now, Span(call.start, now))
        /\ pc = "rebind" => Overdue(d, now, Span(call.start, now) + Longest)
    BY <2>8, OverdueSame
  <2>10. pc # "idle" /\ pc # "off"  BY DEF Calling
  <2>11. LateInv'  BY <2>1, <2>4, <2>9, <2>10 DEF LateInv
  <2>12. HeldInv'  BY <2>1, <2>10 DEF HeldInv
  <2>13. NoFault => Well(net, d, c)  BY <1>4 DEF c, NextCall
  <2>14. NoFault => (pc \in {"idle", "renew", "rebind"} => ip # None)  BY DEF LInv, WellInv, NoFault
  <2>15. WellInv'  BY <2>1, <2>10, <2>13, <2>14 DEF WellInv, NoFault
  <2> QED  BY <2>5, <2>7, <2>11, <2>12, <2>15 DEF LInv
<1> QED  BY <1>2, <1>3, <1>4

\* A message names its transaction, a DHCP_REQUEST what it asks for.
LEMMA MessageIs ==
  ASSUME NEW n, NEW kind \in {"DISCOVER", "REQUEST"}, NEW xid \in Nat, NEW d \in Record(n)
  PROVE  /\ Message(kind, xid, d) \in Messages(n)
         /\ Message(kind, xid, d).kind = kind /\ Message(kind, xid, d).xid = xid
         /\ kind = "REQUEST" => Message(kind, xid, d).ip = d.localIp /\ Message(kind, xid, d).server = d.serverIp
<1>1. None \in Addresses(n)  BY ONLY Zenon DEF Addresses
<1>2. d.localIp \in Addresses(n) /\ d.serverIp \in Addresses(n)  BY ONLY d \in Record(n) DEF Record
<1> QED
  BY ONLY <1>1, <1>2, kind \in {"DISCOVER", "REQUEST"}, xid \in Nat DEF Message, Messages

\* A reply is one of a server of the network to a message sent.
LEMMA ReplyIs ==
  ASSUME LInv, NEW r \in Replies
  PROVE  /\ r.server \in net.servers /\ r.server \in Addresses(net) /\ r.lease \in net.leases
         /\ r.lease \in Nat /\ r.xid \in Nat
         /\ \E m \in call.sent :
              /\ m.xid = r.xid
              /\ m.kind = IF r.type = "OFFER" THEN "DISCOVER" ELSE "REQUEST"
              /\ r.type # "OFFER" => m.server = r.server
              /\ r.type = "NAK" => "refuse" \in net.faults
<1>1. r \in [type : {"OFFER", "ACK", "NAK"}, xid : {m.xid : m \in call.sent},
             server : net.servers, lease : net.leases]
  BY Zenon DEF Replies
<1>2. r.server \in net.servers /\ r.lease \in net.leases  BY ONLY <1>1
<1>3. \E m \in call.sent :
        /\ m.xid = r.xid
        /\ m.kind = IF r.type = "OFFER" THEN "DISCOVER" ELSE "REQUEST"
        /\ r.type # "OFFER" => m.server = r.server
        /\ r.type = "NAK" => "refuse" \in net.faults
  BY Zenon DEF Replies
<1>4. net \in Networks /\ call \in Calls(net)  BY Types, Zenon
<1>5. r.lease \in Nat  BY ONLY <1>2, <1>4, LeaseFacts, Zenon
<1>6. call.sent \in SUBSET Messages(net)  BY ONLY <1>4 DEF Calls
<1>7. PICK m \in call.sent : m.xid = r.xid  BY ONLY <1>3, Zenon
<1>8. m \in Messages(net)  BY ONLY <1>6, Zenon
<1>9. m.xid \in Nat  BY ONLY <1>8 DEF Messages
<1> QED  BY ONLY <1>2, <1>3, <1>5, <1>7, <1>9, Zenon DEF Addresses

\* The fields after a reply.
LEMMA ParsedFields ==
  ASSUME LInv, NEW r \in Replies, NEW e, e = Parsed(r)
  PROVE  /\ Fields(e) /\ e.state = dhcp.state
         /\ e.secTimeout = dhcp.secTimeout /\ e.lastCheck = dhcp.lastCheck
         /\ r.type # "NAK" => e.localIp = r.server
         /\ e.serverIp = IF dhcp.serverIp = None THEN r.server ELSE dhcp.serverIp
         /\ r.type # "NAK" /\ r.lease # 0 => e.leaseTime = r.lease
<1>1. net \in Networks /\ dhcp \in Record(net) /\ Fields(dhcp)  BY Types, Zenon
<1>2. r.server \in Addresses(net) /\ r.lease \in net.leases /\ r.lease \in Nat  BY ReplyIs, Zenon
<1> DEFINE T1 == r.lease \div 2
           T2 == (r.lease * 7) \div 8
           s  == Signed(r.lease)
<1>3. T1 \in Nat /\ T2 \in Nat  BY ONLY <1>2
<1>4. s \in Int  BY ONLY <1>2, SignedFits, Zenon
<1>5. None \in Addresses(net)  BY ONLY Zenon DEF Addresses
<1> DEFINE d == [dhcp EXCEPT !.localIp = IF r.type = "NAK" THEN None ELSE r.server,
                             !.serverIp = IF @ = None THEN r.server ELSE @]
           f == IF r.type # "NAK" /\ net.options THEN [d EXCEPT !.T1 = T1, !.T2 = T2] ELSE d
<1>6. e = IF r.type # "NAK" /\ r.lease # 0 THEN [f EXCEPT !.leaseTime = r.lease, !.renewIn = s] ELSE f
  BY ONLY e = Parsed(r), Zenon DEF Parsed
<1> HIDE DEF T1, T2, s
<1>7. /\ d \in Record(net) /\ d.state = dhcp.state
      /\ d.secTimeout = dhcp.secTimeout /\ d.lastCheck = dhcp.lastCheck
      /\ r.type # "NAK" => d.localIp = r.server
      /\ d.serverIp = IF dhcp.serverIp = None THEN r.server ELSE dhcp.serverIp
      /\ d.leaseTime = dhcp.leaseTime /\ d.T1 = dhcp.T1
  BY ONLY <1>1, <1>2, <1>5, Zenon DEF Record
<1> HIDE DEF d
<1>8. /\ f \in Record(net) /\ f.state = d.state
      /\ f.secTimeout = d.secTimeout /\ f.lastCheck = d.lastCheck
      /\ f.localIp = d.localIp /\ f.serverIp = d.serverIp
      /\ f.leaseTime = d.leaseTime /\ f.T1 \in {T1, d.T1}
  BY ONLY <1>3, <1>7, Zenon DEF Record
<1> HIDE DEF f
<1>9. /\ e \in Record(net) /\ e.state = f.state
      /\ e.secTimeout = f.secTimeout /\ e.lastCheck = f.lastCheck
      /\ e.localIp = f.localIp /\ e.serverIp = f.serverIp
      /\ e.leaseTime = f.leaseTime \/ (r.lease # 0 /\ e.leaseTime = r.lease)
      /\ e.T1 = f.T1
      /\ r.type # "NAK" /\ r.lease # 0 => e.leaseTime = r.lease
  BY ONLY <1>2, <1>4, <1>6, <1>8, Zenon DEF Record
<1>10. ASSUME Steady(net), NEW l \in net.leases
       PROVE  e.leaseTime \in {0, LeaseTime(l)} /\ e.T1 \in {0, RenewTime(l)}
  <2>1. l = r.lease  BY ONLY <1>1, <1>2, <1>10, SteadyFacts, Zenon
  <2>2. dhcp.leaseTime \in {0, LeaseTime(l)} /\ dhcp.T1 \in {0, RenewTime(l)}
    BY ONLY <1>1, <1>10, Zenon DEF Fields, Lengths
  <2>3. r.lease # 0 => r.lease = LeaseTime(l)  BY ONLY <2>1, Zenon DEF LeaseTime
  <2>4. T1 \in {0, RenewTime(l)}
    <3>1. CASE r.lease = 0  BY ONLY <3>1, SMT DEF T1
    <3>2. CASE r.lease # 0  BY ONLY <2>3, <3>2, Zenon DEF T1, RenewTime
    <3> QED  BY ONLY <3>1, <3>2, Zenon
  <2> QED  BY ONLY <1>7, <1>8, <1>9, <2>2, <2>3, <2>4, Zenon
<1>11. Lengths(net, e)  BY ONLY <1>10, Zenon DEF Lengths
<1> QED  BY ONLY <1>7, <1>8, <1>9, <1>11, Zenon DEF Fields

\* The fields after an acknowledgement of the lease l.
LEMMA LeasedFields ==
  ASSUME net \in Networks, NEW d, Fields(d), NEW l \in net.leases, l # 0 => d.leaseTime = l
  PROVE  /\ Fields(Leased(d)) /\ Leased(d).state = "LEASED"
         /\ Leased(d).secTimeout = d.secTimeout /\ Leased(d).lastCheck = d.lastCheck
         /\ Leased(d).localIp = d.localIp /\ Leased(d).serverIp = d.serverIp
         /\ Steady(net) => Leased(d).renewIn = RenewTime(l)
<1> DEFINE e == Leased(d)
<1>1. Word \in Nat /\ Word > 0 /\ DEFAULT_LEASE \in Nat
  <2>1. DEFAULT_LEASE \in 1..(Half - 1)  BY ONLY TimingAssumption, Zenon DEF Half
  <2> QED  BY ONLY <2>1, Words
<1>2. d \in Record(net) /\ Lengths(net, d)  BY Zenon DEF Fields
<1>3. d.leaseTime \in Nat /\ d.T1 \in Nat /\ d.T2 \in Nat  BY ONLY <1>2 DEF Record
<1> DEFINE length == IF d.leaseTime = 0 THEN DEFAULT_LEASE ELSE d.leaseTime
           T1 == IF d.T1 = 0 THEN length \div 2 ELSE d.T1
           T2 == IF d.T2 = 0 THEN (T1 * 2) % Word ELSE d.T2
           s1 == Signed(T1)
           s2 == Signed(T2)
<1>4. length \in Nat  BY ONLY <1>1, <1>3
<1>5. T1 \in Nat
  <2> HIDE DEF length
  <2> QED  BY ONLY <1>3, <1>4
<1>6. T2 \in Nat
  <2> HIDE DEF T1
  <2> QED  BY ONLY <1>1, <1>3, <1>5
<1>7. s1 \in Int /\ s2 \in Int /\ (T1 < Half => s1 = T1)  BY ONLY <1>5, <1>6, SignedFits, Zenon
<1>8. e = [d EXCEPT !.state = "LEASED", !.leaseTime = length, !.T1 = T1, !.T2 = T2,
                    !.renewIn = s1, !.rebindIn = s2]
  BY ONLY Zenon DEF Leased
<1> HIDE DEF length, T1, T2, s1, s2, e
<1>9. /\ e \in Record(net) /\ e.state = "LEASED" /\ e.leaseTime = length /\ e.T1 = T1 /\ e.renewIn = s1
      /\ e.secTimeout = d.secTimeout /\ e.lastCheck = d.lastCheck
      /\ e.localIp = d.localIp /\ e.serverIp = d.serverIp
  BY ONLY <1>2, <1>4, <1>5, <1>6, <1>7, <1>8, Zenon DEF Record
<1>10. ASSUME Steady(net) PROVE length = LeaseTime(l) /\ T1 = RenewTime(l)
  <2>1. d.leaseTime \in {0, LeaseTime(l)} /\ d.T1 \in {0, RenewTime(l)}  BY <1>2, <1>10, Zenon DEF Lengths
  <2>2. d.leaseTime = 0 => LeaseTime(l) = DEFAULT_LEASE  BY Zenon DEF LeaseTime
  <2>3. length = LeaseTime(l)  BY ONLY <2>1, <2>2, Zenon DEF length
  <2>4. T1 = RenewTime(l)  BY ONLY <2>1, <2>3, Zenon DEF T1, RenewTime
  <2> QED  BY <2>3, <2>4, Zenon
<1>11. Lengths(net, e)
  <2> SUFFICES ASSUME Steady(net), NEW k \in net.leases
               PROVE  e.leaseTime \in {0, LeaseTime(k)} /\ e.T1 \in {0, RenewTime(k)}
    BY Zenon DEF Lengths
  <2>1. k = l  BY SteadyFacts, Zenon
  <2> QED  BY <1>9, <1>10, <2>1, Zenon
<1>12. ASSUME Steady(net) PROVE s1 = RenewTime(l)
  <2>1. LeaseTime(l) < Half  BY <1>12, SteadyFacts, Zenon
  <2>2. RenewTime(l) < Half  BY <2>1, LeaseFacts, Zenon
  <2> QED  BY <1>7, <1>10, <1>12, <2>2, Zenon
<1> QED  BY ONLY <1>9, <1>11, <1>12, Zenon DEF Fields, e

-----------------------------------------------------------------------------
(* One lemma for each step.                                                 *)

\* What an iteration changes of a call.
LEMMA CallIs ==
  ASSUME LInv, NEW t, NEW x, NEW s
  PROVE  /\ NextCall(t, x, s).start = call.start /\ NextCall(t, x, s).since = t
         /\ NextCall(t, x, s).xid = x /\ NextCall(t, x, s).sent = s
<1>1. call \in Calls(net)  BY Types, Zenon
<1> QED  BY ONLY <1>1 DEF Calls, NextCall

\* The transaction and the messages of a call.
LEMMA CallTyped ==
  ASSUME LInv
  PROVE  call.xid \in Nat /\ call.sent \in SUBSET Messages(net)
<1>1. call \in Calls(net)  BY Types, Zenon
<1> QED  BY ONLY <1>1 DEF Calls

\* DHCP_DISCOVER or, to renew, DHCP_REQUEST is sent.
LEMMA SendLInv ==
  ASSUME LInv, Send
  PROVE  LInv'
<1> USE Zenon
<1> DEFINE xid  == call.xid + 1
           kind == IF dhcp.state = "START" THEN "DISCOVER" ELSE "REQUEST"
           d    == InState(dhcp, kind)
           m    == Message(kind, xid, dhcp)
           sent == call.sent \cup {m}
           c    == NextCall(now, xid, sent)
<1>1. /\ Calling /\ dhcp.state \in {"START", "REREQUEST"} /\ now' = now /\ left' = left /\ net' = net
      /\ Iterate(d, xid, sent)
  BY DEF Send, InState
<1>2. now \in Clock /\ left \in Nat /\ dhcp \in Record(net) /\ Fields(dhcp)  BY Types
<1>3. call.xid \in Nat /\ call.sent \in SUBSET Messages(net)  BY CallTyped
<1>4. xid \in Nat /\ xid > 0  BY ONLY <1>3, SMT
<1>5. /\ kind \in {"DISCOVER", "REQUEST"} /\ kind # "LEASED" /\ kind # "START" /\ kind # "REREQUEST"
      /\ kind \in {"START", "DISCOVER", "REQUEST", "REREQUEST", "LEASED"}
      /\ kind = "DISCOVER" => dhcp.state = "START" /\ kind # "REQUEST"
      /\ kind = "REQUEST" => dhcp.state = "REREQUEST" /\ kind # "DISCOVER"
      /\ dhcp.state # "REQUEST" /\ dhcp.state # "DISCOVER"
  BY ONLY <1>1, SMT
<1> HIDE DEF kind, xid
<1> HIDE DEF m, d
<1>6. /\ m \in Messages(net) /\ m.kind = kind /\ m.xid = xid
      /\ kind = "REQUEST" => m.ip = dhcp.localIp /\ m.server = dhcp.serverIp
  <2>1. kind \in {"DISCOVER", "REQUEST"} /\ xid \in Nat /\ dhcp \in Record(net)  BY ONLY <1>2, <1>4, <1>5, Zenon
  <2> QED  BY ONLY <2>1, MessageIs DEF m
<1>7. sent \in SUBSET Messages(net)  BY <1>3, <1>6
<1>8. /\ Fields(d) /\ d.state = kind
      /\ d.localIp = dhcp.localIp /\ d.serverIp = dhcp.serverIp
      /\ d.secTimeout = dhcp.secTimeout /\ d.lastCheck = dhcp.lastCheck
  BY ONLY <1>2, <1>5, StateFields, Zenon DEF d
<1>9. HeldAt(d)  BY <1>5, <1>8 DEF HeldAt
<1> HIDE DEF sent
<1>10. ASSUME NoFault PROVE Span(call.start, now) <= Timeout /\ Well(net, d, c)
  <2>1. Well(net, dhcp, call)  BY <1>1, <1>10 DEF LInv, WellInv, NoFault
  <2>2. call.since = call.start /\ call.sent = {}  BY <1>1, <1>5, <2>1 DEF Well
  <2>3. now = call.start  BY <1>1, <1>5, <2>2 DEF LInv, CallInv, Waiting
  <2>4. 0 <= Timeout  BY ONLY Words, SMT
  <2>5. Span(call.start, now) <= Timeout
    <3>1. Span(now, now) = 0  BY ONLY <1>2, SpanNone, Zenon
    <3> QED  BY ONLY <2>3, <2>4, <3>1, Zenon
  <2>6. sent = {m}  BY <2>2 DEF sent
  <2> HIDE DEF c
  <2>7. c.start = call.start /\ c.since = now /\ c.xid = xid /\ c.sent = sent  BY ONLY LInv, CallIs DEF c
  <2>8. Asked(d, c, kind)  BY <1>6, <1>8, <2>6, <2>7 DEF Asked
  <2>9. kind = "REQUEST" => Known(net, d)  BY <1>5, <1>8, <2>1 DEF Well, Known
  <2>10. kind = "DISCOVER" => d.serverIp = None  BY <1>5, <1>8, <2>1 DEF Well
  <2>11. Well(net, d, c)  BY <1>4, <1>5, <1>8, <2>3, <2>7, <2>8, <2>9, <2>10 DEF Well
  <2> QED  BY <2>5, <2>11
<1>11. left' \in Nat  BY <1>1, <1>2
<1>12. NoFault =>
         IF d.state = "LEASED" THEN Known(net, d)
         ELSE /\ Span(call.start, now) <= Timeout
              /\ Well(net, d, NextCall(now, xid, sent))
  BY <1>5, <1>8, <1>10
<1> QED  BY <1>1, <1>4, <1>7, <1>8, <1>9, <1>11, <1>12, IterateLInv

\* An offer is taken and requested.
LEMMA TakeOfferLInv ==
  ASSUME LInv, TakeOffer
  PROVE  LInv'
<1> USE Zenon
<1>1. /\ Calling /\ dhcp.state = "DISCOVER" /\ now' = now /\ left' = left /\ net' = net
  BY DEF TakeOffer, Waiting
<1>2. PICK r \in Replies :
        /\ r.type = "OFFER" /\ InWindow(r)
        /\ Iterate([Parsed(r) EXCEPT !.state = "REQUEST"], r.xid,
                   call.sent \cup {Message("REQUEST", r.xid, Parsed(r))})
  BY DEF TakeOffer
<1> DEFINE p    == Parsed(r)
           d    == InState(p, "REQUEST")
           m    == Message("REQUEST", r.xid, p)
           sent == call.sent \cup {m}
           c    == NextCall(now, r.xid, sent)
<1>3. now \in Clock /\ left \in Nat  BY Types
<1>4. call.xid \in Nat /\ call.sent \in SUBSET Messages(net)  BY CallTyped
<1>5. r.server \in net.servers /\ r.xid \in Nat /\ \E k \in call.sent : k.xid = r.xid  BY ReplyIs
<1>6. r.type # "NAK"  BY ONLY <1>2, SMT
<1>7. /\ Fields(p) /\ p.secTimeout = dhcp.secTimeout /\ p.lastCheck = dhcp.lastCheck
      /\ p.localIp = r.server
      /\ p.serverIp = IF dhcp.serverIp = None THEN r.server ELSE dhcp.serverIp
  BY <1>6, ParsedFields
<1> HIDE DEF p
<1>8. /\ "REQUEST" \in {"START", "DISCOVER", "REQUEST", "REREQUEST", "LEASED"}
      /\ "REQUEST" \in {"DISCOVER", "REQUEST"} /\ "REQUEST" \notin {"START", "DISCOVER"}
      /\ "REQUEST" \notin {"START", "REREQUEST"} /\ "REQUEST" # "LEASED"
  BY ONLY TRUE, SMT
<1>9. Iterate(d, r.xid, sent)  BY <1>2 DEF p, InState
<1> HIDE DEF m, d
<1>10. /\ Fields(d) /\ d.state = "REQUEST"
      /\ d.localIp = p.localIp /\ d.serverIp = p.serverIp
      /\ d.secTimeout = p.secTimeout /\ d.lastCheck = p.lastCheck
  BY ONLY <1>7, <1>8, StateFields, Zenon DEF d
<1>11. m \in Messages(net) /\ m.kind = "REQUEST" /\ m.xid = r.xid /\ m.ip = p.localIp /\ m.server = p.serverIp
  <2>1. "REQUEST" \in {"DISCOVER", "REQUEST"} /\ r.xid \in Nat /\ p \in Record(net)  BY ONLY <1>5, <1>7, <1>8, Zenon DEF Fields
  <2> QED  BY ONLY <2>1, MessageIs DEF m
<1>12. sent \in SUBSET Messages(net)  BY <1>4, <1>11
<1>13. HeldAt(d)  BY <1>8, <1>10 DEF HeldAt
<1> HIDE DEF sent
<1>14. ASSUME NoFault PROVE Span(call.start, now) <= Timeout /\ Well(net, d, c)
  <2>1. Well(net, dhcp, call)  BY <1>1, <1>14 DEF LInv, WellInv, NoFault
  <2>2. call.since = call.start /\ dhcp.serverIp = None /\ Asked(dhcp, call, "DISCOVER") /\ call.xid > 0
    <3>1. dhcp.state # "REQUEST" /\ dhcp.state \in {"START", "DISCOVER"} /\ dhcp.state \in {"DISCOVER", "REQUEST"}
      BY ONLY <1>1, SMT
    <3> QED  BY <1>1, <2>1, <3>1 DEF Well
  <2>3. Span(call.start, now) <= Timeout
    <3> DEFINE s == Span(call.start, now)
    <3>1. s \in Nat /\ s <= ResponseTimeout + 1  BY <1>1, <2>2, CallTimes
    <3> HIDE DEF s
    <3>2. s <= Timeout  BY ONLY <3>1, Words, SMT
    <3> QED  BY <3>2 DEF s
  <2>4. Known(net, d)  BY <1>5, <1>7, <1>10, <2>2 DEF Known
  <2>5. \A k \in call.sent : k.xid = call.xid /\ k.kind # "REQUEST"
    <3>1. "DISCOVER" # "REQUEST"  BY ONLY TRUE, SMT
    <3> QED  BY <2>2, <3>1 DEF Asked
  <2>6. r.xid = call.xid  BY <1>5, <2>5
  <2> HIDE DEF c
  <2>7. c.start = call.start /\ c.since = now /\ c.xid = r.xid /\ c.sent = sent
    BY ONLY LInv, CallIs DEF c
  <2>8. Asked(d, c, "REQUEST")  BY <1>10, <1>11, <2>5, <2>6, <2>7 DEF Asked, sent
  <2>9. Well(net, d, c)  BY <1>8, <1>10, <2>2, <2>4, <2>6, <2>7, <2>8 DEF Well
  <2> QED  BY <2>3, <2>9
<1>15. NoFault =>
         IF d.state = "LEASED" THEN Known(net, d)
         ELSE /\ Span(call.start, now) <= Timeout
              /\ Well(net, d, NextCall(now, r.xid, sent))
  BY <1>8, <1>10, <1>14
<1>16. left' \in Nat  BY <1>1, <1>3
<1> QED  BY <1>1, <1>5, <1>7, <1>10, <1>9, <1>12, <1>13, <1>15, <1>16, IterateLInv

\* The lease is acknowledged.
LEMMA TakeAckLInv ==
  ASSUME LInv, TakeAck
  PROVE  LInv'
<1> USE Zenon
<1>1. Calling /\ dhcp.state = "REQUEST" /\ net' = net  BY DEF TakeAck, Waiting
<1>2. PICK r \in Replies :
        /\ r.type = "ACK" /\ left' = Second * LeaseTime(r.lease) /\ now' = now
        /\ Iterate(Leased(Parsed(r)), call.xid, call.sent)
  BY DEF TakeAck
<1> DEFINE p == Parsed(r)
           d == Leased(p)
<1>3. now \in Clock /\ net \in Networks  BY Types
<1>4. call.xid \in Nat /\ call.sent \in SUBSET Messages(net)  BY CallTyped
<1>5. /\ r.server \in net.servers /\ r.lease \in net.leases
      /\ \E m \in call.sent : /\ m.kind = IF r.type = "OFFER" THEN "DISCOVER" ELSE "REQUEST"
                              /\ r.type # "OFFER" => m.server = r.server
  BY ReplyIs
<1>6. r.type # "NAK" /\ r.type # "OFFER"  BY ONLY <1>2, SMT
<1>7. /\ Fields(p) /\ p.secTimeout = dhcp.secTimeout /\ p.lastCheck = dhcp.lastCheck
      /\ p.localIp = r.server
      /\ p.serverIp = IF dhcp.serverIp = None THEN r.server ELSE dhcp.serverIp
      /\ r.lease # 0 => p.leaseTime = r.lease
  BY <1>6, ParsedFields
<1> HIDE DEF p
<1>8. r.lease # 0 => p.leaseTime = r.lease  BY <1>7
<1>9. /\ Fields(d) /\ d.state = "LEASED"
      /\ d.secTimeout = p.secTimeout /\ d.lastCheck = p.lastCheck
      /\ d.localIp = p.localIp /\ d.serverIp = p.serverIp
      /\ Steady(net) => d.renewIn = RenewTime(r.lease)
  <2>1. Fields(p) /\ net \in Networks /\ r.lease \in net.leases  BY <1>3, <1>5, <1>7
  <2> QED  BY ONLY <1>8, <2>1, LeasedFields, Zenon
<1>10. Iterate(d, call.xid, call.sent)  BY <1>2 DEF p
<1> HIDE DEF d
<1>11. left' \in Nat
  <2>1. LeaseTime(r.lease) \in Nat  BY <1>3, <1>5, LeaseFacts
  <2>2. Second * LeaseTime(r.lease) \in Nat  BY ONLY <2>1, Words, SMT
  <2> QED  BY <1>2, <2>2
<1>12. HeldAt(d)
  <2> SUFFICES ASSUME Steady(net), NEW l \in net.leases PROVE Held(l, d, now', left')
    BY DEF HeldAt
  <2>1. l = r.lease  BY <1>3, <1>5, SteadyFacts
  <2>2. Overdue(dhcp, now, 2 * Longest)  BY <1>1, CallOverdue
  <2>3. Overdue(d, now, 2 * Longest)  BY <1>7, <1>9, <2>2, OverdueSame
  <2>4. Held(l, d, now, Second * LeaseTime(l))  BY <1>3, <1>9, <2>1, <2>3, HeldGranted DEF Fields
  <2> QED  BY <1>2, <2>1, <2>4
<1>13. ASSUME NoFault PROVE Known(net, d)
  <2>1. Well(net, dhcp, call)  BY <1>1, <1>13 DEF LInv, WellInv, NoFault
  <2>2. Known(net, dhcp) /\ Asked(dhcp, call, "REQUEST")  BY <1>1, <2>1 DEF Well
  <2>3. r.server = dhcp.serverIp  BY <1>5, <1>6, <2>2 DEF Asked
  <2> QED  BY <1>5, <1>7, <1>9, <2>3 DEF Known
<1> QED  BY <1>1, <1>2, <1>4, <1>7, <1>9, <1>10, <1>11, <1>12, <1>13, IterateLInv

\* The request is refused.
LEMMA TakeNakLInv ==
  ASSUME LInv, TakeNak
  PROVE  LInv'
<1> USE Zenon
<1>1. Calling /\ now' = now /\ left' = left /\ net' = net  BY DEF TakeNak, Waiting
<1>2. PICK r \in Replies : r.type = "NAK" /\ Iterate([Parsed(r) EXCEPT !.state = "START"], call.xid, call.sent)
  BY DEF TakeNak
<1> DEFINE p == Parsed(r)
           d == InState(p, "START")
<1>3. left \in Nat /\ call.xid \in Nat /\ call.sent \in SUBSET Messages(net)  BY CallTyped, Types
<1>4. ~NoFault
  <2>1. "refuse" \in net.faults  BY <1>2, ReplyIs
  <2> QED  BY <2>1 DEF NoFault
<1>5. Fields(p) /\ p.secTimeout = dhcp.secTimeout /\ p.lastCheck = dhcp.lastCheck  BY ParsedFields
<1> HIDE DEF p
<1>6. "START" \in {"START", "DISCOVER", "REQUEST", "REREQUEST", "LEASED"} /\ "START" # "LEASED"  BY ONLY TRUE, SMT
<1>7. Iterate(d, call.xid, call.sent)  BY <1>2 DEF p, InState
<1> HIDE DEF d
<1>8. Fields(d) /\ d.state = "START" /\ d.secTimeout = p.secTimeout /\ d.lastCheck = p.lastCheck
  BY ONLY <1>5, <1>6, StateFields, Zenon DEF d
<1>9. HeldAt(d)  BY <1>6, <1>8 DEF HeldAt
<1> QED  BY <1>1, <1>3, <1>4, <1>5, <1>8, <1>7, <1>9, IterateLInv

\* A reply the state does not expect.
LEMMA TakeOtherLInv ==
  ASSUME LInv, TakeOther
  PROVE  LInv'
<1> USE Zenon
<1>1. Calling /\ now' = now /\ left' = left /\ net' = net /\ dhcp.state # "LEASED"
  <2>1. dhcp.state \in {"DISCOVER", "REQUEST"}  BY DEF TakeOther, Waiting
  <2>2. dhcp.state # "LEASED"  BY ONLY <2>1, SMT
  <2> QED  BY <2>2 DEF TakeOther, Waiting
<1>2. PICK r \in Replies : Iterate(Parsed(r), call.xid, call.sent)  BY DEF TakeOther
<1> DEFINE p == Parsed(r)
<1>3. left \in Nat /\ call.xid \in Nat /\ call.sent \in SUBSET Messages(net)  BY CallTyped, Types
<1>4. ~NoFault
  <2>1. "repeat" \in net.faults  BY DEF TakeOther
  <2> QED  BY <2>1 DEF NoFault
<1>5. Fields(p) /\ p.state = dhcp.state /\ p.secTimeout = dhcp.secTimeout /\ p.lastCheck = dhcp.lastCheck
  BY ParsedFields
<1>6. Iterate(p, call.xid, call.sent)  BY <1>2
<1> HIDE DEF p
<1>7. HeldAt(p)  BY <1>1, <1>5 DEF HeldAt
<1> QED  BY <1>1, <1>3, <1>4, <1>5, <1>6, <1>7, IterateLInv

\* A packet that is not for this call.
LEMMA IgnoreLInv ==
  ASSUME LInv, Ignore
  PROVE  LInv'
<1> USE Zenon
<1>1. /\ Calling /\ now' = now /\ left' = left /\ net' = net /\ dhcp.state \in {"DISCOVER", "REQUEST"}
      /\ Iterate(dhcp, call.xid, call.sent)
  BY DEF Ignore, Waiting
<1>2. left \in Nat /\ call.xid \in Nat /\ call.sent \in SUBSET Messages(net) /\ Fields(dhcp)  BY CallTyped, Types
<1>3. dhcp.state # "LEASED"  BY ONLY <1>1, SMT
<1>4. ~NoFault
  <2>1. SUFFICES ASSUME NoFault PROVE FALSE  OBVIOUS
  <2>2. "stray" \notin net.faults  BY <2>1 DEF NoFault
  <2>3. PICK r \in Replies : ~InWindow(r)  BY <2>2 DEF Ignore
  <2>4. Well(net, dhcp, call)  BY <1>1, <2>1 DEF LInv, WellInv, NoFault
  <2>5. call.xid > 0 /\ \A m \in call.sent : m.xid = call.xid  BY <1>1, <2>4 DEF Well, Asked
  <2>6. r.xid = call.xid
    <3>1. \E m \in call.sent : m.xid = r.xid  BY ReplyIs
    <3> QED  BY ONLY <2>5, <3>1, Zenon
  <2>7. call.xid \in 1..call.xid  BY ONLY <1>2, <2>5, SMT
  <2> QED  BY <2>3, <2>6, <2>7 DEF InWindow
<1>5. HeldAt(dhcp)  BY <1>3 DEF HeldAt
<1> QED  BY <1>1, <1>2, <1>4, <1>5, IterateLInv

\* No answer came in time; where nothing fails there is one.
LEMMA NoAnswerLInv ==
  ASSUME LInv, NoAnswer
  PROVE  LInv'
<1> USE Zenon
<1> DEFINE d == InState(dhcp, "START")
<1>1. /\ Calling /\ now' = now /\ left' = left /\ net' = net /\ dhcp.state \in {"DISCOVER", "REQUEST"}
      /\ Iterate(d, call.xid, call.sent)
  BY DEF NoAnswer, Waiting, InState
<1>2. left \in Nat /\ call.xid \in Nat /\ call.sent \in SUBSET Messages(net) /\ Fields(dhcp) /\ net \in Networks
  BY CallTyped, Types
<1>3. "START" \in {"START", "DISCOVER", "REQUEST", "REREQUEST", "LEASED"} /\ "START" # "LEASED"  BY ONLY TRUE, SMT
<1> HIDE DEF d
<1>4. Fields(d) /\ d.state = "START" /\ d.secTimeout = dhcp.secTimeout /\ d.lastCheck = dhcp.lastCheck
  BY ONLY <1>2, <1>3, StateFields, Zenon DEF d
<1>5. ~NoFault
  <2>1. SUFFICES ASSUME NoFault PROVE FALSE  OBVIOUS
  <2>2. "lose" \notin net.faults  BY <2>1 DEF NoFault
  <2>3. ~\E r \in Replies : r.xid = call.xid /\ InWindow(r)  BY <2>2 DEF NoAnswer
  <2>4. Well(net, dhcp, call)  BY <1>1, <2>1 DEF LInv, WellInv, NoFault
  <2>5. call.xid > 0 /\ Asked(dhcp, call, dhcp.state)  BY <1>1, <2>4 DEF Well
  <2>6. call.xid \in 1..call.xid  BY ONLY <1>2, <2>5, SMT
  <2>7. net.servers # {} /\ net.leases # {}  BY <1>2, <2>1, TimingAssumption DEF NoFault
  <2>8. PICK l : l \in net.leases  BY <2>7
  <2>9. PICK m \in call.sent : m.kind = dhcp.state /\ m.xid = call.xid  BY <2>5 DEF Asked
  <2>10. call.xid \in {k.xid : k \in call.sent}  BY <2>9
  <2>11. CASE dhcp.state = "DISCOVER"
    <3>1. PICK s : s \in net.servers  BY <2>7
    <3> DEFINE r == [type |-> "OFFER", xid |-> call.xid, server |-> s, lease |-> l]
    <3>2. /\ r \in [type : {"OFFER", "ACK", "NAK"}, xid : {k.xid : k \in call.sent}, server : net.servers, lease : net.leases]
          /\ r.type = "OFFER" /\ r.xid = call.xid /\ r.type # "ACK" /\ r.type # "NAK"
      BY ONLY <2>8, <2>10, <3>1, SMT
    <3> HIDE DEF r
    <3>3. r \in Replies  BY <2>9, <2>11, <3>2 DEF Replies
    <3> QED  BY <2>3, <2>6, <3>2, <3>3 DEF InWindow
  <2>12. CASE dhcp.state = "REQUEST"
    <3> DEFINE s == dhcp.serverIp
               r == [type |-> "ACK", xid |-> call.xid, server |-> s, lease |-> l]
    <3>1. s \in net.servers /\ dhcp.localIp = s  BY <2>4, <2>12 DEF Well, Known
    <3>2. m.ip = s /\ m.server = s  BY <2>5, <2>9, <2>12, <3>1 DEF Asked
    <3> HIDE DEF s
    <3>3. /\ r \in [type : {"OFFER", "ACK", "NAK"}, xid : {k.xid : k \in call.sent}, server : net.servers, lease : net.leases]
          /\ r.type = "ACK" /\ r.xid = call.xid /\ r.server = s /\ r.type # "OFFER" /\ r.type # "NAK"
      BY ONLY <2>8, <2>10, <3>1, SMT
    <3> HIDE DEF r
    <3>4. r \in Replies  BY <2>9, <2>12, <3>2, <3>3 DEF Replies
    <3> QED  BY <2>3, <2>6, <3>3, <3>4 DEF InWindow
  <2> QED  BY <1>1, <2>11, <2>12
<1>6. HeldAt(d)  BY <1>3, <1>4 DEF HeldAt
<1> QED  BY <1>1, <1>2, <1>4, <1>5, <1>6, IterateLInv

\* A tick makes a second to count a tick later.
LEMMA OverdueTicks ==
  ASSUME NEW n, NEW d \in Record(n), NEW t \in Clock, NEW limit \in Int, limit + 1 <= Half, Overdue(d, t, limit)
  PROVE  Overdue(d, (t + 1) % Word, limit + 1)
<1> SUFFICES ASSUME d.lastCheck
             PROVE  -Second <= Late(d, (t + 1) % Word) /\ Late(d, (t + 1) % Word) < limit + 1
  BY Zenon DEF Overdue
<1>1. -Second <= Late(d, t) /\ Late(d, t) < limit  BY Zenon DEF Overdue
<1>2. d.secTimeout \in Clock  BY ONLY d \in Record(n) DEF Record
<1> DEFINE x == Late(d, t)
<1>3. x \in Int  BY ONLY <1>2, t \in Clock, SignedGives, Zenon DEF Late
<1> HIDE DEF x
<1>4. -Second <= x /\ x < limit  BY ONLY <1>1, Zenon DEF x
<1>5. x + 1 < Half /\ 1 <= Half /\ 1 \in Nat  BY ONLY <1>3, <1>4, Words, limit \in Int, limit + 1 <= Half
<1>6. Signed(((t + 1) % Word) - d.secTimeout) = x + 1
  BY ONLY <1>2, <1>5, t \in Clock, SignedMoves, Zenon DEF x, Late
<1>7. Late(d, (t + 1) % Word) = x + 1  BY ONLY <1>6, Zenon DEF Late
<1>8. -Second <= x + 1 /\ x + 1 < limit + 1  BY ONLY <1>3, <1>4, Words, limit \in Int
<1> QED  BY ONLY <1>7, <1>8, Zenon

\* A tick of waiting.
LEMMA WaitLInv ==
  ASSUME LInv, Wait
  PROVE  LInv'
<1> USE Zenon
<1> DEFINE t == (now + 1) % Word
<1>1. /\ Waiting /\ Elapsed <= ResponseTimeout /\ now' = t
      /\ dhcp' = dhcp /\ pc' = pc /\ call' = call /\ ip' = ip /\ net' = net /\ rc' = rc
      /\ left' = IF left < 1 THEN 0 ELSE left - 1
  BY DEF Wait, Pass
<1>2. Calling  BY <1>1 DEF Waiting
<1>3. /\ now \in Clock /\ left \in Nat /\ net \in Networks
      /\ dhcp \in Record(net) /\ Fields(dhcp)
      /\ pc \in {"off", "idle", "begin", "renew", "rebind"}
      /\ call \in Calls(net)
  BY Types
<1>4. left' \in Nat  BY ONLY <1>1, <1>3, SMT
<1>5. /\ Word \in Nat /\ Half \in Nat /\ Word = 2 * Half /\ Half > 0
      /\ Timeout \in Nat /\ ResponseTimeout \in Nat
      /\ Longest \in Nat /\ Longest = Timeout + ResponseTimeout + 1
      /\ Gap \in Nat /\ 2 * Longest + Gap <= Half
  BY ONLY Words
<1>6. t \in Clock
  <2>1. 1 \in Nat /\ 1 <= Half  BY ONLY <1>5, SMT
  <2> QED  BY <1>3, <2>1, ClockMoves
<1> DEFINE a == Span(call.start, call.since)
           b == Span(call.since, now)
           s == Span(call.start, now)
<1>7. /\ call.start \in Clock /\ call.since \in Clock
      /\ a \in Nat /\ a <= Timeout /\ b \in Nat /\ s = a + b
  BY <1>2, CallTimes
<1>8. b <= ResponseTimeout  BY <1>1 DEF Span, Elapsed
<1> HIDE DEF a, b, s
<1>9. /\ b + 1 < Word /\ s + 1 < Word /\ b + 1 <= ResponseTimeout + 1
      /\ s \in Int /\ s + Longest \in Int /\ s + 1 <= Half /\ (s + Longest) + 1 <= Half
      /\ (s + Longest) + 1 = (s + 1) + Longest
  BY ONLY <1>5, <1>7, <1>8, SMT
<1>10. Span(call.since, t) = b + 1  BY <1>3, <1>7, <1>9, SpanMoves DEF b
<1>11. Span(call.start, t) = s + 1  BY <1>3, <1>7, <1>9, SpanMoves DEF s
<1> HIDE DEF t
<1>12. TypeInv'  BY <1>1, <1>3, <1>4, <1>6 DEF TypeInv, Calls, Fields
<1>13. CallInv'  BY <1>1, <1>2, <1>7, <1>9, <1>10 DEF LInv, CallInv, Waiting, Calling, a
<1>14. /\ pc = "renew" => Overdue(dhcp, t, s + 1)
       /\ pc = "rebind" => Overdue(dhcp, t, (s + 1) + Longest)
  <2>1. /\ pc = "renew" => Overdue(dhcp, now, s)
        /\ pc = "rebind" => Overdue(dhcp, now, s + Longest)
    BY DEF LInv, LateInv, s
  <2>2. pc = "renew" => Overdue(dhcp, t, s + 1)  BY <1>3, <1>9, <2>1, OverdueTicks DEF t
  <2>3. pc = "rebind" => Overdue(dhcp, t, (s + Longest) + 1)  BY <1>3, <1>9, <2>1, OverdueTicks DEF t
  <2> QED  BY <1>9, <2>2, <2>3
<1>15. pc # "idle" /\ pc # "off"  BY <1>2 DEF Calling
<1>16. LateInv'  BY <1>1, <1>11, <1>14, <1>15 DEF LInv, LateInv
<1>17. HeldInv'  BY <1>1, <1>15 DEF HeldInv
<1>18. WellInv'  BY <1>1 DEF LInv, WellInv, Calling
<1> QED  BY <1>12, <1>13, <1>16, <1>17, <1>18 DEF LInv

\* Ethernet.begin(mac) starts afresh.
LEMMA BeginLInv ==
  ASSUME LInv, begin
  PROVE  LInv'
<1> USE Zenon
<1> DEFINE b == [dhcp EXCEPT !.leaseTime = 0, !.T1 = 0, !.T2 = 0, !.lastCheck = FALSE, !.state = "START"]
           d == reset_DHCP_lease(b)
           c == [start |-> now, since |-> now, xid |-> 1, sent |-> {}]
<1>1. now' = now /\ left' = left /\ net' = net /\ dhcp' = d  BY DEF begin
<1>2. now \in Clock /\ left \in Nat /\ net \in Networks /\ dhcp \in Record(net)  BY Types
<1>3. b \in Record(net) /\ b.state = "START" /\ b.leaseTime = 0 /\ b.T1 = 0 /\ b.lastCheck = FALSE
  BY ONLY <1>2, Zenon DEF Record
<1> HIDE DEF b
<1>4. Fields(b)  BY <1>3 DEF Fields, Lengths
<1>5. Fields(d) /\ d.state = "START" /\ d.serverIp = None /\ ~d.lastCheck  BY <1>3, <1>4, ResetFields
<1> HIDE DEF d
<1>6. d.state # "LEASED" /\ d.state # "REQUEST" /\ d.state # "REREQUEST" /\ d.state # "DISCOVER"  BY ONLY <1>5, SMT
<1>7. HeldAt(d)  BY <1>6 DEF HeldAt
<1>8. CASE pc' = "begin" /\ call' = c
  <2>1. c \in Calls(net) /\ c.start = now /\ c.since = now /\ c.sent = {} /\ c.xid > 0
    BY ONLY <1>2, SMT DEF Calls
  <2> HIDE DEF c
  <2>2. /\ pc' \in {"off", "idle", "begin", "renew", "rebind"}
        /\ pc' # "renew" /\ pc' # "rebind" /\ pc' # "idle" /\ pc' # "off"
    BY ONLY <1>8, SMT
  <2>3. TypeInv'  BY <1>1, <1>2, <1>5, <1>8, <2>1, <2>2 DEF TypeInv, Fields, Calls
  <2>4. Span(now, now) = 0 /\ 0 <= Timeout /\ 0 <= ResponseTimeout + 1
    <3>1. 0 <= Timeout /\ 0 <= ResponseTimeout + 1  BY ONLY Words, SMT
    <3> QED  BY <1>2, <3>1, SpanNone
  <2>5. CallInv'  BY <1>1, <1>6, <1>8, <2>1, <2>4 DEF CallInv
  <2>6. LateInv'  BY <1>1, <1>5, <2>2 DEF LateInv
  <2>7. HeldInv'  BY <2>2 DEF HeldInv
  <2>8. Well(net, d, c)  BY <1>5, <1>6, <2>1 DEF Well
  <2>9. WellInv'  BY <1>1, <1>8, <2>2, <2>8 DEF WellInv
  <2> QED  BY <2>3, <2>5, <2>6, <2>7, <2>9 DEF LInv
<1>9. CASE "busy" \in net.faults /\ pc' = "idle" /\ call' = NoCall
  <2>1. /\ pc' \in {"off", "idle", "begin", "renew", "rebind"}
        /\ pc' # "renew" /\ pc' # "rebind" /\ pc' # "begin" /\ pc' # "off" /\ pc' \in {"off", "idle"}
    BY ONLY <1>9, SMT
  <2>2. NoCall \in Calls(net)
    <3>1. 0 \in Clock /\ 0 \in Nat  BY ONLY Words, SMT DEF Clock
    <3> QED  BY ONLY <3>1, SMT DEF NoCall, Calls
  <2>3. TypeInv'  BY <1>1, <1>2, <1>5, <1>9, <2>1, <2>2 DEF TypeInv, Fields, Calls
  <2>4. CallInv'  BY <2>1 DEF CallInv, Calling
  <2>5. LateInv'  BY <1>1, <1>5, <2>1 DEF LateInv, Overdue
  <2>6. HeldInv'  BY <1>1, <1>6 DEF HeldInv
  <2>7. WellInv'  BY <1>1, <1>9 DEF WellInv
  <2> QED  BY <2>3, <2>4, <2>5, <2>6, <2>7 DEF LInv
<1> QED  BY <1>8, <1>9 DEF begin

\* Ethernet.maintain() counts, or starts to, and asks again in time.
LEMMA MaintainLInv ==
  ASSUME LInv, maintain
  PROVE  LInv'
<1> USE Zenon
<1>1. pc = "idle" /\ net' = net  BY DEF maintain
<1>2. PICK k \in 1..Gap :
        /\ Pass(k)
        /\ IF dhcp.lastCheck
             THEN CheckRenew([Counted(dhcp, now') EXCEPT !.lastCheck = now' # 0])
             ELSE Done([dhcp EXCEPT !.secTimeout = (now' + Second) % Word,
                                    !.lastCheck = now' # 0], "none")
  BY DEF maintain
<1>3. now' = (now + k) % Word /\ left' = Rest(left, k)  BY <1>2 DEF Pass, Rest
<1>4. now \in Clock /\ left \in Nat /\ net \in Networks /\ dhcp \in Record(net) /\ Fields(dhcp)  BY Types
<1>5. k \in Nat /\ k <= Gap /\ k <= Half  BY ONLY <1>2, Words, SMT
<1>6. now' \in Clock  BY <1>3, <1>4, <1>5, ClockMoves
<1>7. left' \in Nat  BY ONLY <1>3, <1>4, <1>5, SMT DEF Rest
<1>8. Frame  BY <1>1, <1>4, <1>6, <1>7 DEF Frame
<1>9. Overdue(dhcp, now, 2 * Longest)  BY <1>1 DEF LInv, LateInv
<1>10. Steady(net) /\ dhcp.state = "LEASED" => \A l \in net.leases : Held(l, dhcp, now, left)
  BY <1>1 DEF LInv, HeldInv, Regular
<1>11. NoFault => dhcp.state = "LEASED" /\ Known(net, dhcp) /\ ip # None
  BY <1>1 DEF LInv, WellInv, NoFault
<1>12. CASE dhcp.lastCheck
  <2> DEFINE c == Counted(dhcp, now')
             d == [c EXCEPT !.lastCheck = now' # 0]
  <2>1. CheckRenew(d)  BY <1>2, <1>12
  <2>2. -Second <= Late(dhcp, now) /\ Late(dhcp, now) < 2 * Longest  BY <1>9, <1>12 DEF Overdue
  <2>3. Late(dhcp, now) \in Int /\ Late(dhcp, now') = Late(dhcp, now) + k
    <3>1. Late(dhcp, now) \in Int /\ Late(dhcp, (now + k) % Word) = Late(dhcp, now) + k
      BY ONLY <1>4, <1>5, <2>2, LateMoves
    <3> QED  BY ONLY <1>3, <3>1, Zenon
  <2>4. -Second <= Late(dhcp, now')
    <3> DEFINE x == Late(dhcp, now)
    <3>1. x \in Int /\ -Second <= x  BY <2>2, <2>3
    <3> HIDE DEF x
    <3>2. -Second <= x + k  BY ONLY <1>5, <3>1, Words, SMT
    <3> QED  BY <2>3, <3>2 DEF x
  <2>5. /\ c \in Record(net) /\ c.state = dhcp.state
        /\ c.localIp = dhcp.localIp /\ c.serverIp = dhcp.serverIp
        /\ c.leaseTime = dhcp.leaseTime /\ c.T1 = dhcp.T1
        /\ -Second <= Late(c, now') /\ Late(c, now') < 0
    BY <1>4, <1>6, <2>4, Counting
  <2> HIDE DEF c
  <2>6. /\ d \in Record(net) /\ d.state = dhcp.state /\ d.secTimeout = c.secTimeout
        /\ d.localIp = dhcp.localIp /\ d.serverIp = dhcp.serverIp
        /\ d.leaseTime = dhcp.leaseTime /\ d.T1 = dhcp.T1
    BY ONLY <2>5, Zenon DEF Record
  <2>7. Fields(d)  BY <1>4, <2>6 DEF Fields, Lengths
  <2>8. Overdue(d, now', 0)  BY <2>5, <2>6 DEF Overdue, Late
  <2>9. ASSUME d.renewIn > 0 PROVE HeldAt(d)
    <3> SUFFICES ASSUME Steady(net), d.state = "LEASED", NEW l \in net.leases PROVE Held(l, d, now', left')
      BY DEF HeldAt
    <3>1. Held(l, dhcp, now, left)  BY <1>10, <2>6
    <3>2. d = [Counted(dhcp, now') EXCEPT !.lastCheck = now' # 0]  BY DEF c
    <3> HIDE DEF d
    <3>3. Held(l, d, now', Rest(left, k))
      BY <1>2, <1>3, <1>4, <1>9, <1>12, <2>9, <3>1, <3>2, HeldCounts
    <3> QED  BY <1>3, <3>3
  <2>10. NoFault => d.state = "LEASED" /\ Known(net, d) /\ ip # None  BY <1>11, <2>6 DEF Known
  <2> HIDE DEF d
  <2> QED  BY <1>8, <2>1, <2>7, <2>8, <2>9, <2>10, CheckRenewLInv
<1>13. CASE ~dhcp.lastCheck
  <2> DEFINE s == (now' + Second) % Word
             d == [dhcp EXCEPT !.secTimeout = s, !.lastCheck = now' # 0]
  <2>1. Done(d, "none")  BY <1>2, <1>13
  <2>2. s \in Clock /\ Signed(now' - s) = -Second
    <3>1. Second \in Nat /\ 1 <= Second /\ Second <= Half  BY ONLY Words, SMT
    <3> QED  BY <1>6, <3>1, SignedAhead
  <2>3. d = [dhcp EXCEPT !.secTimeout = (now' + Second) % Word, !.lastCheck = now' # 0]  OBVIOUS
  <2> HIDE DEF s
  <2>4. /\ d \in Record(net) /\ d.state = dhcp.state /\ d.secTimeout = s
        /\ d.localIp = dhcp.localIp /\ d.serverIp = dhcp.serverIp
        /\ d.leaseTime = dhcp.leaseTime /\ d.T1 = dhcp.T1
    BY ONLY <1>4, <2>2, Zenon DEF Record
  <2> HIDE DEF d
  <2>5. Fields(d)  BY <1>4, <2>4 DEF Fields, Lengths
  <2>6. Overdue(d, now', 2 * Longest)
    <3>1. Late(d, now') = -Second  BY <2>2, <2>4 DEF Late
    <3>2. -Second <= -Second /\ -Second < 2 * Longest  BY ONLY Words, SMT
    <3> QED  BY <3>1, <3>2 DEF Overdue
  <2>7. HeldAt(d)
    <3> SUFFICES ASSUME Steady(net), d.state = "LEASED", NEW l \in net.leases PROVE Held(l, d, now', left')
      BY DEF HeldAt
    <3>1. Held(l, dhcp, now, left)  BY <1>10, <2>4
    <3>2. Held(l, d, now', Rest(left, k))  BY <1>2, <1>3, <1>4, <1>13, <2>3, <3>1, HeldStarts
    <3> QED  BY <1>3, <3>2
  <2>8. "none" # "fail"  BY ONLY TRUE, SMT
  <2>9. NoFault => "none" # "fail" /\ d.state = "LEASED" /\ Known(net, d) /\ ("none" = "ok" \/ ip # None)
    BY <1>11, <2>4, <2>8 DEF Known
  <2> QED  BY <1>8, <2>1, <2>5, <2>6, <2>7, <2>9, DoneLInv
<1> QED  BY <1>12, <1>13

\* Nothing happens.
LEMMA SameLInv ==
  ASSUME LInv, UNCHANGED vars
  PROVE  LInv'
<1> USE Zenon
<1>1. now' = now /\ dhcp' = dhcp /\ pc' = pc /\ call' = call /\ ip' = ip /\ net' = net /\ rc' = rc /\ left' = left
  BY DEF vars
<1>2. TypeInv'  BY <1>1 DEF LInv, TypeInv
<1>3. CallInv'  BY <1>1 DEF LInv, CallInv, Calling, Waiting
<1>4. LateInv'  BY <1>1 DEF LInv, LateInv
<1>5. HeldInv'  BY <1>1 DEF LInv, HeldInv, Regular
<1>6. WellInv'  BY <1>1 DEF LInv, WellInv, Calling
<1> QED  BY <1>2, <1>3, <1>4, <1>5, <1>6 DEF LInv

\* The invariant holds at first.
LEMMA InitLInv ==
  ASSUME Init
  PROVE  LInv
<1> USE Zenon
<1>1. /\ now \in Clock /\ pc = "off" /\ call = NoCall /\ net \in Networks /\ left = 0
  BY DEF Init, Clock
<1>2. 0 \in Clock /\ 0 \in Nat  BY ONLY Words, SMT DEF Clock
<1>3. NoCall \in Calls(net)  BY ONLY <1>2, SMT DEF NoCall, Calls
<1>4. None \in Addresses(net)  BY DEF Addresses
<1>5. dhcp = [state |-> "START", localIp |-> None, serverIp |-> None,
              leaseTime |-> 0, T1 |-> 0, T2 |-> 0, renewIn |-> 0, rebindIn |-> 0,
              secTimeout |-> 0, lastCheck |-> FALSE]
  BY DEF Init
<1>6. dhcp \in Record(net) /\ dhcp.leaseTime = 0 /\ dhcp.T1 = 0 /\ dhcp.lastCheck = FALSE
  BY ONLY <1>2, <1>4, <1>5, SMT DEF Record
<1>7. /\ pc \in {"off", "idle", "begin", "renew", "rebind"} /\ pc \in {"off", "idle"}
      /\ pc # "renew" /\ pc # "rebind" /\ pc # "idle"
  BY ONLY <1>1, SMT
<1>8. TypeInv  BY <1>1, <1>2, <1>3, <1>6, <1>7 DEF TypeInv, Lengths, Calls
<1>9. CallInv  BY <1>7 DEF CallInv, Calling
<1>10. LateInv  BY <1>6, <1>7 DEF LateInv
<1>11. HeldInv  BY <1>7 DEF HeldInv
<1>12. WellInv  BY <1>7 DEF WellInv, Calling
<1> QED  BY <1>8, <1>9, <1>10, <1>11, <1>12 DEF LInv

\* Every step keeps the invariant.
LEMMA StepLInv ==
  ASSUME LInv, [Next]_vars
  PROVE  LInv'
BY Zenon, BeginLInv, MaintainLInv, SendLInv, TakeOfferLInv, TakeAckLInv, TakeNakLInv, TakeOtherLInv,
   IgnoreLInv, WaitLInv, NoAnswerLInv, SameLInv DEF Next

\* In every network with one lease time, a client in state LEASED holds a
\* lease whenever maintain() is called, every Gap ticks or sooner; and where
\* nothing fails it always is in that state (checkLease, request_DHCP_lease).
THEOREM LeaseAlwaysHeld == Spec => []LeaseHeld
<1>1. Init => LInv
  BY InitLInv
<1>2. LInv /\ [Next]_vars => LInv'
  BY StepLInv
<1>3. LInv => LeaseHeld
  <2> SUFFICES ASSUME LInv, pc = "idle"
               PROVE  /\ Regular /\ dhcp.state = "LEASED" => left > 0
                      /\ net.faults = {} => ip # None /\ dhcp.state = "LEASED"
    BY Zenon DEF LeaseHeld
  <2>1. Regular /\ dhcp.state = "LEASED" => \A l \in net.leases : Held(l, dhcp, now, left)
    BY Zenon DEF LInv, HeldInv
  <2>2. ASSUME Regular, dhcp.state = "LEASED" PROVE left > 0
    <3>1. PICK l : l \in net.leases  BY <2>2, Zenon DEF Regular, Steady
    <3> QED  BY <2>1, <2>2, <3>1, Zenon DEF Held
  <2>3. net.faults = {} => ip # None /\ dhcp.state = "LEASED"  BY Zenon DEF LInv, WellInv
  <2> QED  BY <2>2, <2>3, Zenon
<1> QED
  BY <1>1, <1>2, <1>3, PTL DEF Spec
=============================================================================
