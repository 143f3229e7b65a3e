-------------------------------- MODULE Dhcp --------------------------------
(***************************************************************************)
(* The DHCP client of the Ethernet library: Ethernet.begin(mac) and         *)
(* Ethernet.maintain(), the lease they ask for (request_DHCP_lease), the    *)
(* replies of the servers (parseDHCPResponse) and the counters that say     *)
(* when to ask again (checkLease).  Time passes in ticks of a fraction of a *)
(* second: while the client waits and between two calls.                    *)
(* millis(), the counters and the options are words that wrap at Word.      *)
(* Replies are lost, delayed, duplicated and reordered; packets that are    *)
(* not for this client come too.  Every server has one address to give,     *)
(* written as the server itself.                                            *)
(***************************************************************************)
EXTENDS Integers

CONSTANTS Word,             \* 2^32
          Second,           \* ticks in a second
          Timeout,          \* _timeout, in ticks
          ResponseTimeout,  \* _responseTimeout, in ticks
          Gap,              \* longest pause between two calls of maintain()
          DEFAULT_LEASE,
          Networks,         \* the networks the sketch may find itself in
          None              \* 0.0.0.0

\* A network: its servers, the lease times they give (0: the option is left
\* out), whether they give T1 and T2 (options), and what may go wrong in it:
\* replies may be lost or late, several to one message, or refusals; packets
\* may stray in; all sockets of the chip may be taken.
ASSUME DhcpAssumption ==
  /\ Word \in Nat /\ Word % 2 = 0 /\ Second \in 1..(Word - 1)
  /\ \A n \in Networks : None \notin n.servers /\ n.leases \subseteq 0..(Word - 1)

\* The time a lease is good for, and half of it, when the client renews it.
LeaseTime(n) == IF n = 0 THEN DEFAULT_LEASE ELSE n
RenewTime(n) == LeaseTime(n) \div 2

\* A network with one lease time, which fits the signed counters.
Steady(n) == \E l \in n.leases : n.leases = {l} /\ l < Word \div 2

\* A message is answered before the call times out; two calls and a pause are
\* shorter than the signed difference of two times can tell.  The lease ends
\* before millis() comes round, and there is room between its middle and its
\* end for a pause before the counting starts, one when millis() was 0, and a
\* second.  Where nothing fails there is a server.
ASSUME TimingAssumption ==
  /\ Timeout \in Nat /\ ResponseTimeout \in Nat /\ ResponseTimeout < Timeout
  /\ Gap \in Nat /\ Second <= Word \div 2
  /\ 2 * (Timeout + ResponseTimeout + 1) + Gap <= Word \div 2
  /\ DEFAULT_LEASE \in 1..(Word \div 2 - 1)
  /\ \A n \in Networks :
       /\ n.faults = {} => n.servers # {} /\ n.leases # {}
       /\ Steady(n) => \A l \in n.leases :
            /\ Second * LeaseTime(l) <= Word
            /\ Second * (LeaseTime(l) - RenewTime(l)) >= 2 * Gap + Second - 1

VARIABLES now,      \* millis()
          dhcp,     \* the fields of DhcpClass
          pc,       \* "off", "idle" or who called request_DHCP_lease
          call,     \* its locals and what it sent so far
          ip,       \* the address in the W5100
          net,      \* the network (never changes)
          rc,       \* what the last call returned
          granted,  \* addresses acknowledged to us since begin
          left      \* ticks left of the lease last acknowledged

vars == <<now, dhcp, pc, call, ip, net, rc, granted, left>>

NoCall == [start |-> 0, since |-> 0, xid |-> 0, sent |-> {}]

Signed(n) ==
  LET m == n % Word IN IF m < Word \div 2 THEN m ELSE m - Word

Init ==
  /\ now \in 0..(Word - 1)
  /\ dhcp = [state |-> "START", localIp |-> None, serverIp |-> None,
             leaseTime |-> 0, T1 |-> 0, T2 |-> 0, renewIn |-> 0, rebindIn |-> 0,
             secTimeout |-> 0, lastCheck |-> FALSE]
  /\ pc = "off" /\ call = NoCall /\ ip = None /\ rc = "none"
  /\ net \in Networks
  /\ granted = {} /\ left = 0

\* d ticks pass.
Pass(d) ==
  /\ now' = (now + d) % Word
  /\ left' = IF left < d THEN 0 ELSE left - d

(***************************************************************************)
(* The end of a call, and the start of the loop of request_DHCP_lease.  The *)
(* argument d holds the fields of DhcpClass, the argument r the result of   *)
(* the call so far.                                                         *)
(***************************************************************************)
\* The end as it would be if a failed call gave the chip the address too.
Done_anyway(d, r) ==
  /\ pc' = "idle" /\ dhcp' = d /\ rc' = r /\ call' = NoCall
  /\ ip' = IF r # "none" THEN d.localIp ELSE ip

\* begin and maintain give the chip the address only on success.
Done(d, r) ==
  /\ pc' = "idle" /\ dhcp' = d /\ rc' = r /\ call' = NoCall
  /\ ip' = IF r = "ok" THEN d.localIp ELSE ip

\* The socket is open: the loop starts.  Replies to an earlier call are gone.
Open(caller, d) ==
  /\ pc' = caller /\ dhcp' = d
  /\ call' = [start |-> now', since |-> now', xid |-> 1, sent |-> {}]
  /\ rc' = "none" /\ UNCHANGED ip

reset_DHCP_lease(d) == [d EXCEPT !.localIp = None, !.serverIp = None]

\* The second half of checkLease, after a renewal that ended with r.
CheckRebind(d, r) ==
  IF d.state \in {"LEASED", "START"} /\ d.rebindIn <= 0
    THEN LET e == reset_DHCP_lease([d EXCEPT !.state = "START"])
         IN Open("rebind", e) \/ ("busy" \in net.faults /\ Done(e, "fail"))
    ELSE Done(d, r)

\* The first half.
CheckRenew(d) ==
  IF d.state = "LEASED" /\ d.renewIn <= 0
    THEN LET e == [d EXCEPT !.state = "REREQUEST"]
         IN Open("renew", e) \/ ("busy" \in net.faults /\ CheckRebind(e, "fail"))
    ELSE CheckRebind(d, "none")

\* request_DHCP_lease returns to its caller.
Return(d, r) ==
  IF pc = "renew" THEN CheckRebind(d, r) ELSE Done(d, r)

(***************************************************************************)
(* The calls of the sketch.                                                 *)
(***************************************************************************)
begin ==
  /\ pc = "off" \/ (pc = "idle" /\ rc = "fail")
  /\ LET d == reset_DHCP_lease([dhcp EXCEPT !.leaseTime = 0, !.T1 = 0, !.T2 = 0,
                                            !.lastCheck = FALSE, !.state = "START"])
     IN \/ /\ pc' = "begin" /\ dhcp' = d /\ rc' = "none"
           /\ call' = [start |-> now, since |-> now, xid |-> 1, sent |-> {}]
        \/ /\ "busy" \in net.faults
           /\ pc' = "idle" /\ dhcp' = d /\ rc' = "fail" /\ call' = NoCall
  /\ ip' = None /\ granted' = {}
  /\ UNCHANGED <<now, net, left>>

\* The counters as they would be if the times were compared as they are.
Counted_plain(d, t) ==
  LET late    == t - d.secTimeout
      factor  == late \div Second + 1
      Less(n) == IF n < factor * 2 THEN 0 ELSE n - factor
  IN IF late < 0 THEN d
     ELSE [d EXCEPT !.secTimeout = (t + Second - (late % Second)) % Word,
                    !.renewIn = Less(@), !.rebindIn = Less(@)]

\* The counters as they would be if the second one were forgotten.
Counted_one(d, t) ==
  LET late    == Signed(t - d.secTimeout)
      factor  == late \div Second + 1
      Less(n) == IF n < factor * 2 THEN 0 ELSE n - factor
  IN IF late < 0 THEN d
     ELSE [d EXCEPT !.secTimeout = (t + Second - (late % Second)) % Word,
                    !.renewIn = Less(@)]

\* checkLease takes the seconds since the last call off the counters.
Counted(d, t) ==
  LET late    == Signed(t - d.secTimeout)
      factor  == late \div Second + 1
      Less(n) == IF n < factor * 2 THEN 0 ELSE n - factor
  IN IF late < 0 THEN d
     ELSE [d EXCEPT !.secTimeout = (t + Second - (late % Second)) % Word,
                    !.renewIn = Less(@), !.rebindIn = Less(@)]

\* maintain, some time after the last call.  _lastCheck is kept only as far
\* as it is looked at: whether it is 0.
maintain ==
  /\ pc = "idle"
  /\ \E d \in 1..Gap :
       /\ Pass(d)
       /\ IF dhcp.lastCheck
            THEN CheckRenew([Counted(dhcp, now') EXCEPT !.lastCheck = now' # 0])
            ELSE Done([dhcp EXCEPT !.secTimeout = (now' + Second) % Word,
                                   !.lastCheck = now' # 0], "none")
  /\ UNCHANGED <<net, granted>>

(***************************************************************************)
(* The loop of request_DHCP_lease, one action for an iteration.             *)
(***************************************************************************)
\* The end of an iteration that leaves the fields d, having sent or not.
Iterate(d, xid, sent) ==
  IF d.state = "LEASED" THEN Return(d, "ok")
  ELSE IF (now' - call.start) % Word > Timeout THEN Return(d, "fail")
  ELSE /\ dhcp' = d
       /\ call' = [call EXCEPT !.since = now', !.xid = xid, !.sent = sent]
       /\ UNCHANGED <<pc, ip, rc>>

\* Both messages name the transaction, a DHCP_REQUEST also the address and
\* the server.
Message(kind, xid, d) ==
  IF kind = "DISCOVER" THEN [kind |-> kind, xid |-> xid, ip |-> None, server |-> None]
  ELSE [kind |-> kind, xid |-> xid, ip |-> d.localIp, server |-> d.serverIp]

Calling == pc \notin {"off", "idle"}

Send ==
  /\ Calling /\ dhcp.state \in {"START", "REREQUEST"}
  /\ UNCHANGED <<now, left>>
  /\ LET xid  == call.xid + 1
         kind == IF dhcp.state = "START" THEN "DISCOVER" ELSE "REQUEST"
     IN Iterate([dhcp EXCEPT !.state = kind], xid,
                call.sent \cup {Message(kind, xid, dhcp)})
  /\ UNCHANGED <<net, granted>>

\* The replies the servers may have sent by now.  A server refuses or
\* acknowledges only what names it; it acknowledges its own address.
Replies ==
  {r \in [type : {"OFFER", "ACK", "NAK"}, xid : {m.xid : m \in call.sent},
          server : net.servers, lease : net.leases] :
     \E m \in call.sent :
       /\ m.xid = r.xid
       /\ m.kind = IF r.type = "OFFER" THEN "DISCOVER" ELSE "REQUEST"
       /\ r.type # "OFFER" => m.server = r.server
       /\ r.type = "ACK" => m.ip = r.server
       /\ r.type = "NAK" => "refuse" \in net.faults}

\* parseDHCPResponse takes the address and the options of a reply that is in
\* the window of transactions of this call, whatever its type.
Parsed(r) ==
  LET d == [dhcp EXCEPT !.localIp = IF r.type = "NAK" THEN None ELSE r.server,
                        !.serverIp = IF @ = None THEN r.server ELSE @]
      e == IF r.type # "NAK" /\ net.options
             THEN [d EXCEPT !.T1 = r.lease \div 2, !.T2 = (r.lease * 7) \div 8] ELSE d
  IN IF r.type # "NAK" /\ r.lease # 0
       THEN [e EXCEPT !.leaseTime = r.lease, !.renewIn = Signed(r.lease)] ELSE e

InWindow(r) == r.xid \in 1..call.xid

\* DHCP_ACK in state REQUEST.
Leased(d) ==
  LET length == IF d.leaseTime = 0 THEN DEFAULT_LEASE ELSE d.leaseTime
      T1 == IF d.T1 = 0 THEN length \div 2 ELSE d.T1
      T2 == IF d.T2 = 0 THEN (T1 * 2) % Word ELSE d.T2
  IN [d EXCEPT !.state = "LEASED", !.leaseTime = length, !.T1 = T1, !.T2 = T2,
               !.renewIn = Signed(T1), !.rebindIn = Signed(T2)]

Waiting == Calling /\ dhcp.state \in {"DISCOVER", "REQUEST"}

TakeOffer ==
  /\ Waiting /\ dhcp.state = "DISCOVER"
  /\ UNCHANGED <<now, left>>
  /\ \E r \in Replies :
       /\ r.type = "OFFER" /\ InWindow(r)
       /\ Iterate([Parsed(r) EXCEPT !.state = "REQUEST"], r.xid,
                  call.sent \cup {Message("REQUEST", r.xid, Parsed(r))})
  /\ UNCHANGED <<net, granted>>

TakeAck ==
  /\ Waiting /\ dhcp.state = "REQUEST"
  /\ \E r \in Replies :
       /\ r.type = "ACK" /\ InWindow(r)
       /\ granted' = granted \cup {r.server}
       /\ left' = Second * LeaseTime(r.lease)
       /\ UNCHANGED now
       /\ Iterate(Leased(Parsed(r)), call.xid, call.sent)
  /\ UNCHANGED net

\* A refusal takes a tick to come.
TakeNak ==
  /\ Waiting /\ dhcp.state = "REQUEST" /\ now # call.since /\ UNCHANGED <<now, left>>
  /\ \E r \in Replies :
       /\ r.type = "NAK" /\ InWindow(r)
       /\ Iterate([Parsed(r) EXCEPT !.state = "START"], call.xid, call.sent)
  /\ UNCHANGED <<net, granted>>

\* A reply of a type the state does not expect: only its fields are taken.
TakeOther ==
  /\ Waiting /\ "repeat" \in net.faults /\ UNCHANGED <<now, left>>
  /\ \E r \in Replies :
       /\ InWindow(r)
       /\ r.type = "OFFER" <=> dhcp.state = "REQUEST"
       /\ Iterate(Parsed(r), call.xid, call.sent)
  /\ UNCHANGED <<net, granted>>

\* A packet for another client, or a reply outside the window.
Ignore ==
  /\ Waiting /\ ("stray" \in net.faults \/ \E r \in Replies : ~InWindow(r)) /\ UNCHANGED <<now, left>>
  /\ Iterate(dhcp, call.xid, call.sent)
  /\ UNCHANGED <<net, granted>>

Elapsed == (now - call.since) % Word

\* delay(50) while nothing has come.
Wait ==
  /\ Waiting /\ Elapsed <= ResponseTimeout
  /\ Pass(1)
  /\ UNCHANGED <<dhcp, pc, call, ip, net, rc, granted>>

\* parseDHCPResponse gives up: 255.
NoAnswer ==
  /\ Waiting /\ Elapsed > ResponseTimeout /\ UNCHANGED <<now, left>>
  /\ "lose" \in net.faults \/ ~\E r \in Replies : r.xid = call.xid /\ InWindow(r)
  /\ Iterate([dhcp EXCEPT !.state = "START"], call.xid, call.sent)
  /\ UNCHANGED <<net, granted>>

Next ==
  \/ begin \/ maintain \/ Send \/ TakeOffer \/ TakeAck \/ TakeNak \/ TakeOther
  \/ Ignore \/ Wait \/ NoAnswer

Spec == Init /\ [][Next]_vars

\* A call goes on, packets that are not expected do not keep it from waiting,
\* and the sketch calls maintain() again and again.
Progress == Send \/ TakeOffer \/ TakeAck \/ Wait \/ NoAnswer
FairSpec == Spec /\ WF_vars(maintain) /\ WF_vars(Progress)

-----------------------------------------------------------------------------
(***************************************************************************)
(* Properties.                                                             *)
(***************************************************************************)

\* Every lease is as long as the one before and fits the signed counters.
\* Otherwise T1 and T2 of the first lease may serve a shorter one, and an
\* endless lease (all ones) makes the rebind counter negative.
Regular == Steady(net)

\* The chip uses only an address that a server acknowledged to this client
\* since begin(), whatever offers, refusals and late replies came after it
\* (Ethernet.cpp 24-32 and 76-91; parseDHCPResponse takes the address of any).
AddressGranted == ip # None => ip \in granted

\* A client that believes it has a lease has one: when maintain() is called
\* every Gap ticks or sooner, it asks again before the time is over, although
\* millis() wraps, the first call only starts counting and so does the one
\* after a call at millis() = 0 (checkLease).  With servers that answer in
\* time every call succeeds, and it always has one (request_DHCP_lease).
LeaseHeld ==
  pc = "idle" =>
    /\ Regular /\ dhcp.state = "LEASED" => left > 0
    /\ net.faults = {} => ip # None /\ dhcp.state = "LEASED"

\* Every call returns, whatever packets come.  A call that failed is followed
\* by another attempt if it left the state at START, as one that ends with
\* the time-out of parseDHCPResponse does, and there is a socket for it.
KeepsAsking ==
  /\ Calling ~> pc = "idle"
  /\ "busy" \notin net.faults =>
       (pc = "idle" /\ rc = "fail" /\ dhcp.state = "START" ~> Calling)
=============================================================================
