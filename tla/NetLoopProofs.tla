--------------------------- MODULE NetLoopProofs ---------------------------
(***************************************************************************)
(* Proofs about the network commands: the packet loop never waits without  *)
(* a time handler, a command that succeeds was ended by its own protocol,  *)
(* dhcp configures the address it was leased, and an ARP answer sends the  *)
(* packet that waits for it, for every number of commands and of hosts.    *)
(***************************************************************************)
EXTENDS NetLoop, TLAPS

\* What NetStartAgain leaves: the loop ends or starts again, with its
\* handlers, or it pauses with a timer of its own and no UDP handler.
LEMMA StartAgainEnds ==
    ASSUME NEW st, NEW th, NEW changed, NetStartAgain(st, th, changed)
    PROVE  \/ net_state' \in {"FAIL", "RESTART"} /\ timeHandler' = th /\ udp_handler' = udp_handler
                /\ timeLeft' = timeLeft
           \/ net_state' = st /\ timeHandler' = "startAgain" /\ udp_handler' = "dummy"
                /\ timeLeft' = START_AGAIN
<1>1. CASE env.netretry # Forever /\ NetTryCount >= env.netretry
  BY <1>1, Zenon DEF NetStartAgain
<1>2. CASE ~(env.netretry # Forever /\ NetTryCount >= env.netretry)
  <2>1. PICK d : StartWith(d, st, th)
    BY <1>2, Zenon DEF NetStartAgain
  <2> QED
    BY <2>1 DEF StartWith, NetSetTimeout
<1> QED
  BY <1>1, <1>2, Zenon

-----------------------------------------------------------------------------
\* WaitIsTimed needs to hold until net_state is looked at.
Armed == pc \in {"rx", "time"} /\ net_state = "CONTINUE" => timeHandler # "none"

\* Every step keeps a time handler while the loop goes on.
LEMMA ArmedStep == Armed /\ [Next]_vars => Armed'
<1> SUFFICES ASSUME Armed, [Next]_vars PROVE Armed'
  OBVIOUS
<1>1. CASE UNCHANGED vars
  BY <1>1, Zenon DEF vars, timer, Armed
<1>2. ASSUME NEW p \in Commands, NetLoop(p) PROVE Armed'
  BY <1>2, Zenon DEF NetLoop, Armed
<1>3. CASE SetEnv
  BY <1>3, Zenon DEF SetEnv, Armed
<1>4. CASE Restart
  <2>1. CASE NetStartAgain("CONTINUE", timeHandler, 0)
    BY <2>1, StartAgainEnds DEF Armed
  <2>2. CASE pc' = "idle"
    BY <2>2 DEF Armed
  <2>3. CASE \E ip : TftpStart(ip)
    BY <2>3, Zenon DEF Armed, TftpStart, NetSetTimeout
  <2>4. CASE \E ip : ping_start(ip)
    BY <2>4 DEF Armed, ping_start, NetSetTimeout
  <2>5. CASE BootpRequest(0)
    BY <2>5, Zenon DEF Armed, BootpRequest, NetSetTimeout
  <2> QED
    BY <1>4, <2>1, <2>2, <2>3, <2>4, <2>5, Zenon DEF Restart
<1>5. CASE ArpTimeoutCheck
  <2>1. CASE NetStartAgain(net_state, timeHandler, envChanged)
    BY <2>1, StartAgainEnds, Zenon DEF Armed
  <2> QED
    BY <1>5, <2>1, Zenon DEF ArpTimeoutCheck, Armed, timer
<1>6. CASE Timeout
  BY <1>6, Zenon DEF Timeout, TftpTimeout, BootpTimeout, StateTimeout, TimeReturn, Armed
<1>7. CASE SwitchContinue
  BY <1>7, Zenon DEF SwitchContinue, Armed, timer
<1>8. CASE SwitchRestart
  BY <1>8, Zenon DEF SwitchRestart, Armed
<1>9. CASE SwitchDone \/ CtrlC
  BY <1>9, Zenon DEF SwitchDone, CtrlC, Done, Armed
<1>10. CASE Tick
  BY <1>10, Zenon DEF Tick, Armed
<1>11. ASSUME NEW p \in msgs, ReceiveArp(p) \/ ReceiveEcho(p) PROVE Armed'
  BY <1>11, Zenon DEF ReceiveArp, ReceiveEcho, Armed, timer
<1>12. ASSUME NEW p \in msgs, NEW final \in BOOLEAN, ReceiveUnreachable(p) \/ ReceiveTftpError(p, final)
       PROVE  Armed'
  <2>1. CASE NetStartAgain(net_state, timeHandler, envChanged)
    BY <2>1, StartAgainEnds, Zenon DEF Armed
  <2> QED
    BY <1>12, <2>1, Zenon DEF ReceiveUnreachable, ReceiveTftpError, Armed
<1>13. ASSUME NEW p \in msgs, ReceiveBlock(p) PROVE Armed'
  BY <1>13, Zenon DEF ReceiveBlock, Armed, NetSetTimeout
<1>14. ASSUME NEW p \in msgs, NEW s \in DhcpServers, ReceiveOffer(p, s) PROVE Armed'
  BY <1>14, Zenon DEF ReceiveOffer, Armed, NetSetTimeout
<1>15. ASSUME NEW p \in msgs, ReceiveDhcpAck(p) PROVE Armed'
  BY <1>15, Zenon DEF ReceiveDhcpAck, TftpStart, Armed, NetSetTimeout
<1> QED
  BY <1>1, <1>2, <1>3, <1>4, <1>5, <1>6, <1>7, <1>8, <1>9, <1>10, <1>11, <1>12, <1>13, <1>14, <1>15,
     ZenonT(30) DEF Next, Loop, Receive

\* The packet loop never waits without a time handler.
THEOREM LoopNeverHangs == Spec => []WaitIsTimed
<1>1. Init => Armed
  BY Zenon DEF Init, Armed
<1>2. Armed => WaitIsTimed
  BY DEF Armed, WaitIsTimed
<1> QED
  BY <1>1, <1>2, ArmedStep, PTL DEF Spec


-----------------------------------------------------------------------------
\* Until a command times out, a handler belongs to the command that runs.
HandlerIsOurs ==
    /\ udp_handler \in {"dummy", "Tftp", "Dhcp"}
    /\ expired = 0 =>
        /\ pc = "idle" => udp_handler = "dummy"
        /\ pc # "idle" => /\ udp_handler = "Tftp" => proto \in {"TFTPGET", "DHCP"}
                          /\ udp_handler = "Dhcp" => proto = "DHCP"

\* Our address is the one of the environment, unless that has changed; it is
\* while a tftp command runs.
AddressKnown ==
    /\ NetOurIP # 0 /\ envChanged # 1 => NetOurIP = ipaddr
    /\ expired = 0 /\ pc # "idle" /\ udp_handler = "Tftp" /\ proto = "TFTPGET" =>
           ipaddr # 0 /\ NetOurIP = ipaddr

\* An ARP or echo request was sent to a host.
EchoTo(p) == p.kind \in {"arp", "echo"} => p.to # NoHost

EchoIsPing ==
    /\ proto = "PING" => NetPingIP # NoHost
    /\ EchoTo(NetTxPacket)
    /\ \A p \in msgs : EchoTo(p)

\* SuccessIsOurs, before the loop returns and after.
Unpinged == proto = "PING" \/ NetPingIP = NoHost
EndIsOurs ==
    /\ pc \in {"rx", "time"} /\ net_state = "SUCCESS" /\ expired = 0 /\ Unpinged => doneBy \in Owner(proto)
    /\ SuccessIsOurs

OursInv == HandlerIsOurs /\ AddressKnown /\ EchoIsPing /\ EndIsOurs

\* The frames that are sent: ARP and echo requests name the host they are for.
LEMMA FrameKinds ==
    /\ \A h, ip : h # NoHost => EchoTo(ArpFor(h, ip)) /\ EchoTo(Echo(h, ip))
    /\ \A id, ip : EchoTo(Rrq(id, ip)) /\ EchoTo(Ack(id, ip))
    /\ \A x, s : EchoTo(Discover(x)) /\ EchoTo(Request(x, s))
    /\ Server # NoHost
BY DEF EchoTo, Frame, ArpFor, Rrq, Ack, Discover, Request, Echo, Server, NoHost

\* Sending packets keeps it.
LEMMA EchoKept ==
    ASSUME EchoIsPing, proto' = proto, NetPingIP' = NetPingIP, EchoTo(NetTxPacket'),
           NEW p, EchoTo(p), msgs' \subseteq msgs \cup {p}
    PROVE  EchoIsPing'
BY Zenon DEF EchoIsPing

\* The steps that only stop a loop or go on with it.
LEMMA OursSimple ==
    ASSUME OursInv, UNCHANGED vars \/ SetEnv \/ SwitchContinue \/ SwitchRestart \/ SwitchDone \/ CtrlC \/ Tick
    PROVE  OursInv'
<1> USE DEF OursInv
<1>1. CASE UNCHANGED vars
  BY <1>1, ZenonT(30) DEF vars, HandlerIsOurs, AddressKnown, EchoIsPing, EndIsOurs, Unpinged, SuccessIsOurs,
     handlers, cmdVars, addrVars, txVars
<1>2. CASE SetEnv
  BY <1>2, Zenon DEF SetEnv, HandlerIsOurs, AddressKnown, EchoIsPing, EndIsOurs, SuccessIsOurs, handlers,
     cmdVars, txVars
<1>3. CASE SwitchContinue
  BY <1>3, Zenon DEF SwitchContinue, HandlerIsOurs, AddressKnown, EchoIsPing, EndIsOurs, SuccessIsOurs,
     handlers, cmdVars, addrVars, txVars
<1>4. CASE SwitchRestart
  BY <1>4, Zenon DEF SwitchRestart, HandlerIsOurs, AddressKnown, EchoIsPing, EndIsOurs, SuccessIsOurs,
     handlers, cmdVars, addrVars, txVars
<1>5. CASE SwitchDone
  BY <1>5, Zenon DEF SwitchDone, Done, HandlerIsOurs, AddressKnown, EchoIsPing, EndIsOurs, Unpinged,
     SuccessIsOurs, cmdVars, txVars
<1>6. CASE CtrlC
  BY <1>6, Zenon DEF CtrlC, Done, HandlerIsOurs, AddressKnown, EchoIsPing, EndIsOurs, SuccessIsOurs, cmdVars,
     addrVars, txVars
<1>7. CASE Tick
  BY <1>7 DEF Tick, HandlerIsOurs, AddressKnown, EchoIsPing, EndIsOurs, Unpinged, SuccessIsOurs, handlers,
     cmdVars, addrVars, txVars
<1> QED
  BY <1>1, <1>2, <1>3, <1>4, <1>5, <1>6, <1>7, ZenonT(30)


\* NetStartAgain, called by a packet or by a timer of the loop.
LEMMA OursStartAgain ==
    ASSUME OursInv, NEW st, NEW th, NEW changed, NetStartAgain(st, th, changed),
           changed = 0 => NetOurIP' = 0 \/ NetOurIP' = ipaddr,
           changed # 0 => changed = envChanged /\ NetOurIP' = NetOurIP,
           st # "SUCCESS" \/ (pc \in {"rx", "time"} /\ doneBy' = doneBy /\ net_state = "SUCCESS"),
           pc # "idle", pc' # "idle" \/ expired' = 1,
           expired' # 0 \/ expired' = expired,
           expired = 0 /\ udp_handler = "Tftp" /\ proto = "TFTPGET" => NetOurIP' = NetOurIP,
           proto' = proto, NetPingIP' = NetPingIP, ipaddr' = ipaddr, EchoIsPing'
    PROVE  OursInv'
<1>1. /\ udp_handler' \in {udp_handler, "dummy"}
      /\ net_state' \in {st, "FAIL", "RESTART"}
  BY StartAgainEnds, Zenon
<1>2. envChanged' \in {changed, 1}
  <2>1. CASE env.netretry # Forever /\ NetTryCount >= env.netretry
    BY <2>1, Zenon DEF NetStartAgain
  <2>2. CASE ~(env.netretry # Forever /\ NetTryCount >= env.netretry)
    <3>1. PICK d : SetDev(d, changed)
      BY <2>2, Zenon DEF NetStartAgain
    <3> QED
      BY <3>1, Zenon DEF SetDev
  <2> QED
    BY <2>1, <2>2, Zenon
<1>3. HandlerIsOurs'
  BY <1>1 DEF OursInv, HandlerIsOurs
<1>4. AddressKnown'
  BY <1>1, <1>2, Zenon DEF OursInv, AddressKnown
<1>5. EndIsOurs'
  BY <1>1 DEF OursInv, EndIsOurs, SuccessIsOurs, Unpinged
<1> QED
  BY <1>3, <1>4, <1>5, Zenon DEF OursInv

\* The start of a command.
LEMMA OursNetLoop ==
    ASSUME OursInv, NEW q \in Commands, NetLoop(q)
    PROVE  OursInv'
<1>1. \/ pc' = "start"
      \/ pc' = "idle" /\ ret' = "FAIL"
  BY Zenon DEF NetLoop
<1>2. envChanged' = 1 \/ envChanged' = envChanged
  BY Zenon DEF NetLoop, SetDev
<1>3. HandlerIsOurs' /\ EndIsOurs' /\ AddressKnown'
  BY <1>2, Zenon DEF NetLoop, OursInv, HandlerIsOurs, EndIsOurs, AddressKnown, SuccessIsOurs, handlers
<1>4. EchoIsPing'
  <2>1. proto' = "PING" => NetPingIP' # NoHost
    BY NetAssumption, Zenon DEF NetLoop
  <2> QED
    BY <2>1, Zenon DEF NetLoop, OursInv, EchoIsPing, txVars
<1> QED
  BY <1>3, <1>4 DEF OursInv

\* The start of a protocol.
LEMMA OursRestart ==
    ASSUME OursInv, Restart
    PROVE  OursInv'
<1> DEFINE ip == IF envChanged = 1 THEN ipaddr ELSE NetOurIP
<1>1. ip = 0 \/ ip = ipaddr
  BY DEF OursInv, AddressKnown
<1>2. expired = 0 /\ udp_handler = "Tftp" /\ proto = "TFTPGET" => ip = NetOurIP
  BY Zenon DEF OursInv, AddressKnown, Restart
<1>3. /\ pc = "start" /\ expired' = expired /\ proto' = proto
      /\ NetPingIP' = NetPingIP /\ ipaddr' = ipaddr
  BY Zenon DEF Restart
<1>4. CASE pc' = "idle"
  <2>1. /\ ret' = "FAIL" /\ proto # "DHCP" /\ ip = 0 /\ NetOurIP' = ip
        /\ udp_handler' = udp_handler /\ NetTxPacket' = NetTxPacket /\ msgs' = msgs
    BY <1>4, Zenon DEF Restart, handlers, txVars
  <2>2. expired = 0 => udp_handler = "dummy"
    BY <2>1, Zenon DEF OursInv, HandlerIsOurs, AddressKnown
  <2>3. HandlerIsOurs' /\ AddressKnown' /\ EndIsOurs'
    BY <1>3, <1>4, <2>1, Zenon DEF OursInv, HandlerIsOurs, AddressKnown, EndIsOurs, SuccessIsOurs
  <2> QED
    BY <1>3, <2>1, <2>3, Zenon DEF OursInv, EchoIsPing
<1>5. CASE NetStartAgain("CONTINUE", timeHandler, 0) /\ pc' = "rx" /\ NetOurIP' = ip /\ UNCHANGED txVars
  <2>1. EchoIsPing'
    BY <1>3, <1>5, Zenon DEF OursInv, EchoIsPing, txVars
  <2> HIDE DEF ip
  <2> QED
    BY <1>1, <1>2, <1>3, <1>5, <2>1, OursStartAgain, ZenonT(30)
<1>6. CASE /\ pc' = "rx" /\ net_state' = "CONTINUE" /\ envChanged' = 0
           /\ \/ proto = "TFTPGET" /\ ip # 0 /\ TftpStart(ip) /\ NetOurIP' = ip
              \/ proto = "PING" /\ ping_start(ip) /\ NetOurIP' = ip
              \/ proto = "DHCP" /\ BootpRequest(0) /\ NetOurIP' = 0
  <2>1. CASE proto = "TFTPGET" /\ ip # 0 /\ TftpStart(ip) /\ NetOurIP' = ip
    <3> HIDE DEF ip
    <3>1. HandlerIsOurs' /\ AddressKnown' /\ EndIsOurs'
      BY <1>1, <1>3, <1>6, <2>1, ZenonT(30) DEF HandlerIsOurs, AddressKnown, EndIsOurs, SuccessIsOurs,
         TftpStart
    <3>2. EchoTo(NetTxPacket') /\ EchoTo(ArpFor(Server, ip)) /\ msgs' \subseteq msgs \cup {ArpFor(Server, ip)}
      BY <2>1, FrameKinds, ZenonT(30) DEF TftpStart, ArpWait, EchoTo
    <3> QED
      BY <1>3, <3>1, <3>2, EchoKept, ZenonT(30) DEF OursInv
  <2>2. CASE proto = "PING" /\ ping_start(ip) /\ NetOurIP' = ip
    <3> HIDE DEF ip
    <3>1. HandlerIsOurs' /\ AddressKnown' /\ EndIsOurs'
      BY <1>1, <1>3, <1>6, <2>2, Zenon DEF OursInv, HandlerIsOurs, AddressKnown, EndIsOurs, SuccessIsOurs,
         ping_start, handlers
    <3>2. EchoTo(NetTxPacket')
      BY <2>2, FrameKinds, Zenon DEF OursInv, EchoIsPing, ping_start, EchoTo
    <3>3. EchoTo(ArpFor(NetPingIP, ip)) /\ msgs' \subseteq msgs \cup {ArpFor(NetPingIP, ip)}
      BY <2>2, FrameKinds, Zenon DEF OursInv, EchoIsPing, ping_start, ArpWait
    <3> QED
      BY <1>3, <3>1, <3>2, <3>3, EchoKept, ZenonT(30) DEF OursInv
  <2>3. CASE proto = "DHCP" /\ BootpRequest(0) /\ NetOurIP' = 0
    <3>1. HandlerIsOurs' /\ AddressKnown' /\ EndIsOurs'
      BY <1>3, <1>6, <2>3, Zenon DEF HandlerIsOurs, AddressKnown, EndIsOurs, SuccessIsOurs, BootpRequest
    <3>2. /\ EchoTo(NetTxPacket') /\ EchoTo(Discover(ids + 1))
          /\ msgs' \subseteq msgs \cup {Discover(ids + 1)}
      BY <2>3, FrameKinds, Zenon DEF BootpRequest, EchoTo
    <3> QED
      BY <1>3, <3>1, <3>2, EchoKept, Zenon DEF OursInv
  <2> QED
    BY <1>6, <2>1, <2>2, <2>3, ZenonT(30)
<1> QED
  BY <1>4, <1>5, <1>6, Zenon DEF Restart

\* The packets that do not send one.
LEMMA OursEnd ==
    ASSUME OursInv, NEW p \in msgs, NEW final \in BOOLEAN,
           ReceiveEcho(p) \/ ReceiveUnreachable(p) \/ ReceiveTftpError(p, final)
    PROVE  OursInv'
<1>1. CASE ReceiveEcho(p)
  <2>1. NetPingIP # NoHost
    BY <1>1, Zenon DEF ReceiveEcho, OursInv, EchoIsPing, EchoTo
  <2> QED
    BY <1>1, ZenonT(30) DEF ReceiveEcho, OursInv, HandlerIsOurs, AddressKnown, EchoIsPing, EndIsOurs,
       Unpinged, SuccessIsOurs, Owner, handlers, cmdVars, addrVars, txVars, EchoTo
<1>2. CASE (ReceiveUnreachable(p) \/ ReceiveTftpError(p, final)) /\ NetStartAgain(net_state, timeHandler, envChanged)
  <2>1. /\ pc = "rx" /\ pc' = pc /\ doneBy' = doneBy /\ expired' = expired /\ proto' = proto
        /\ NetOurIP' = NetOurIP /\ ipaddr' = ipaddr /\ NetPingIP' = NetPingIP /\ UNCHANGED txVars
    BY <1>2, Zenon DEF ReceiveUnreachable, ReceiveTftpError, TftpAccepts, cmdVars
  <2>2. EchoIsPing'
    BY <2>1, Zenon DEF OursInv, EchoIsPing, txVars
  <2>3. envChanged = 0 => NetOurIP' = 0 \/ NetOurIP' = ipaddr
    BY <2>1 DEF OursInv, AddressKnown
  <2> QED
    BY <1>2, <2>1, <2>2, <2>3, OursStartAgain, ZenonT(30)
<1>3. CASE ReceiveTftpError(p, final) /\ final
  BY <1>3, Zenon DEF ReceiveTftpError, TftpAccepts, OursInv, HandlerIsOurs, AddressKnown, EchoIsPing,
     EndIsOurs, SuccessIsOurs, cmdVars, txVars
<1> QED
  BY <1>1, <1>2, <1>3, ZenonT(30) DEF ReceiveUnreachable, ReceiveTftpError


\* The packets that send one.
LEMMA OursSend ==
    ASSUME OursInv, NEW p \in msgs, ReceiveArp(p) \/ ReceiveBlock(p)
    PROVE  OursInv'
<1>1. CASE ReceiveArp(p)
  <2>1. EchoIsPing'
    BY <1>1, Zenon DEF ReceiveArp, OursInv, EchoIsPing, Sent, cmdVars, addrVars
  <2> QED
    BY <1>1, <2>1, ZenonT(30) DEF ReceiveArp, OursInv, HandlerIsOurs, AddressKnown, EndIsOurs, Unpinged,
       SuccessIsOurs, handlers, cmdVars, addrVars
<1>2. CASE ReceiveBlock(p)
  <2>1. /\ pc = "rx" /\ pc' = pc /\ udp_handler = "Tftp" /\ udp_handler' = udp_handler
        /\ \/ net_state' = net_state /\ doneBy' = doneBy
           \/ net_state' = "SUCCESS" /\ doneBy' = "TFTPGET"
        /\ UNCHANGED <<addrVars, proto, expired>>
        /\ NetSendUDPPacket(Ack(TftpOurPort, NetOurIP))
    BY <1>2, Zenon DEF ReceiveBlock, TftpAccepts, cmdVars, handlers
  <2>2. HandlerIsOurs' /\ AddressKnown'
    BY <2>1, Zenon DEF OursInv, HandlerIsOurs, AddressKnown, addrVars
  <2>3. EndIsOurs'
    BY <2>1, Zenon DEF OursInv, HandlerIsOurs, EndIsOurs, Unpinged, SuccessIsOurs, Owner, addrVars
  <2>4. EchoIsPing'
    <3> DEFINE a == Ack(TftpOurPort, NetOurIP)
    <3>1. EchoTo(a) /\ EchoTo(ArpFor(Server, NetOurIP))
      BY FrameKinds, Zenon DEF EchoTo
    <3>2. NetTxPacket' = a /\ (msgs' \subseteq msgs \cup {a} \/ msgs' \subseteq msgs \cup {ArpFor(Server, NetOurIP)})
      BY <2>1, Zenon DEF NetSendUDPPacket, ArpWait, Sent
    <3> HIDE DEF a
    <3> QED
      BY <2>1, <3>1, <3>2, EchoKept, Zenon DEF OursInv, addrVars
  <2> QED
    BY <2>2, <2>3, <2>4 DEF OursInv
<1> QED
  BY <1>1, <1>2

\* An offer is answered by a request.
LEMMA OursOffer ==
    ASSUME OursInv, NEW p \in msgs, NEW s \in DhcpServers, ReceiveOffer(p, s)
    PROVE  OursInv'
<1>1. EchoTo(Request(p.id, s))
  BY FrameKinds, Zenon DEF EchoTo
<1>2. EchoIsPing'
  BY <1>1, EchoKept, Zenon DEF ReceiveOffer, OursInv, cmdVars, addrVars
<1> QED
  BY <1>2, ZenonT(30) DEF ReceiveOffer, OursInv, HandlerIsOurs, AddressKnown, EndIsOurs, Unpinged,
     SuccessIsOurs, handlers, cmdVars, addrVars

\* The address is leased: dhcp is over, or it loads the boot file.
LEMMA OursDhcpAck ==
    ASSUME OursInv, NEW p \in msgs, ReceiveDhcpAck(p)
    PROVE  OursInv'
<1>1. /\ pc = "rx" /\ pc' = pc /\ udp_handler = "Dhcp" /\ envChanged' = 1
      /\ UNCHANGED <<proto, expired, ipaddr, NetPingIP>>
  BY Zenon DEF ReceiveDhcpAck, DhcpAccepts, cmdVars
<1>2. CASE TftpStart(Lease(p.to)) /\ UNCHANGED <<net_state, doneBy>>
  <2> DEFINE a == ArpFor(Server, Lease(p.to))
  <2>1. EchoTo(NetTxPacket') /\ EchoTo(a) /\ msgs' \subseteq msgs \cup {a} /\ udp_handler' = "Tftp"
    BY <1>2, FrameKinds, Zenon DEF TftpStart, ArpWait, EchoTo
  <2> HIDE DEF a
  <2>2. EchoIsPing'
    BY <1>1, <2>1, EchoKept, ZenonT(30) DEF OursInv
  <2>3. HandlerIsOurs' /\ AddressKnown' /\ EndIsOurs'
    BY <1>1, <1>2, <2>1, ZenonT(30) DEF OursInv, HandlerIsOurs, AddressKnown, EndIsOurs, Unpinged,
       SuccessIsOurs
  <2> QED
    BY <2>2, <2>3 DEF OursInv
<1>3. CASE doneBy' = "DHCP" /\ net_state' = "SUCCESS" /\ UNCHANGED <<handlers, NetTxPacket, msgs>>
  <2>1. HandlerIsOurs' /\ AddressKnown' /\ EndIsOurs'
    BY <1>1, <1>3, Zenon DEF OursInv, HandlerIsOurs, AddressKnown, EndIsOurs, SuccessIsOurs, Owner, handlers
  <2> QED
    BY <1>1, <1>3, <2>1, Zenon DEF OursInv, EchoIsPing, EchoTo
<1> QED
  BY <1>2, <1>3, Zenon DEF ReceiveDhcpAck

\* The timers.
LEMMA OursTimers ==
    ASSUME OursInv, ArpTimeoutCheck \/ Timeout
    PROVE  OursInv'
<1>1. CASE ArpTimeoutCheck
  <2>1. /\ pc = "rx" /\ pc' = "time" /\ doneBy' = doneBy /\ expired' = expired /\ proto' = proto
        /\ NetOurIP' = NetOurIP /\ ipaddr' = ipaddr /\ NetPingIP' = NetPingIP /\ NetTxPacket' = NetTxPacket
        /\ msgs' \subseteq msgs \cup {ArpFor(NetArpWaitPacketIP, NetOurIP)}
    BY <1>1, Zenon DEF ArpTimeoutCheck, cmdVars
  <2>2. msgs' = msgs \/ EchoTo(ArpFor(NetArpWaitPacketIP, NetOurIP))
    BY <1>1, FrameKinds, Zenon DEF ArpTimeoutCheck
  <2>3. EchoIsPing'
    BY <2>1, <2>2, Zenon DEF OursInv, EchoIsPing
  <2>4. CASE NetStartAgain(net_state, timeHandler, envChanged)
    <3>1. envChanged = 0 => NetOurIP' = 0 \/ NetOurIP' = ipaddr
      BY <2>1 DEF OursInv, AddressKnown
    <3> QED
      BY <2>1, <2>3, <2>4, <3>1, OursStartAgain, ZenonT(30)
  <2>5. CASE UNCHANGED <<net_state, envChanged, udp_handler>>
    BY <2>1, <2>3, <2>5, ZenonT(30) DEF OursInv, HandlerIsOurs, AddressKnown, EndIsOurs, Unpinged,
       SuccessIsOurs
  <2> QED
    BY <1>1, <2>4, <2>5, Zenon DEF ArpTimeoutCheck
<1>2. CASE Timeout
  <2>1. /\ pc = "time" /\ pc' = "idle" /\ ret' = "TIMEOUT" /\ expired' = 1
        /\ proto' = proto /\ NetOurIP' = NetOurIP /\ ipaddr' = ipaddr /\ NetPingIP' = NetPingIP
        /\ doneBy' = doneBy
    BY <1>2, Zenon DEF Timeout, TftpTimeout, BootpTimeout, StateTimeout, TimeReturn, addrVars
  <2>2. CASE TftpTimeout
    <3> DEFINE a == IF TftpBlock = 0 THEN Rrq(TftpOurPort, NetOurIP) ELSE Ack(TftpOurPort, NetOurIP)
    <3>1. EchoTo(a) /\ EchoTo(ArpFor(Server, NetOurIP))
      BY FrameKinds, Zenon DEF EchoTo
    <3>2. NetTxPacket' = a /\ (msgs' \subseteq msgs \cup {a} \/ msgs' \subseteq msgs \cup {ArpFor(Server, NetOurIP)})
      BY <2>2, Zenon DEF TftpTimeout, NetSendUDPPacket, ArpWait, Sent
    <3> HIDE DEF a
    <3>3. EchoIsPing'
      BY <2>1, <3>1, <3>2, EchoKept, ZenonT(30) DEF OursInv
    <3> QED
      BY <2>1, <2>2, <3>3 DEF TftpTimeout, OursInv, HandlerIsOurs, AddressKnown, EndIsOurs, SuccessIsOurs,
         handlers, addrVars
  <2>3. CASE BootpTimeout /\ BootpRequest(BootpTry) /\ UNCHANGED envChanged
    <3>1. /\ EchoTo(NetTxPacket') /\ EchoTo(Discover(ids + 1))
          /\ msgs' \subseteq msgs \cup {Discover(ids + 1)}
      BY <2>3, FrameKinds, Zenon DEF BootpRequest, EchoTo
    <3>2. EchoIsPing'
      BY <2>1, <3>1, EchoKept, Zenon DEF OursInv
    <3> QED
      BY <2>1, <2>3, <3>2 DEF BootpRequest, OursInv, HandlerIsOurs, AddressKnown, EndIsOurs, SuccessIsOurs
  <2>4. CASE BootpTimeout /\ NetStartAgain(net_state, "none", envChanged) /\ UNCHANGED txVars
    <3>1. envChanged = 0 => NetOurIP' = 0 \/ NetOurIP' = ipaddr
      BY <2>1 DEF OursInv, AddressKnown
    <3>2. EchoIsPing'
      BY <2>1, <2>4, ZenonT(30) DEF OursInv, EchoIsPing, txVars
    <3> QED
      BY <2>1, <2>4, <3>1, <3>2, OursStartAgain
  <2>5. CASE StateTimeout
    BY <2>1, <2>5 DEF StateTimeout, OursInv, HandlerIsOurs, AddressKnown, EchoIsPing, EndIsOurs,
       SuccessIsOurs, handlers, addrVars, txVars
  <2> QED
    BY <1>2, <2>2, <2>3, <2>4, <2>5, ZenonT(30) DEF Timeout, BootpTimeout
<1> QED
  BY <1>1, <1>2

\* No step of the loop loses what is known of the handlers.
LEMMA OursStep == OursInv /\ [Next]_vars => OursInv'
<1> SUFFICES ASSUME OursInv, [Next]_vars PROVE OursInv'
  OBVIOUS
<1>1. ASSUME NEW p \in msgs, ReceiveArp(p) \/ ReceiveBlock(p) \/ ReceiveDhcpAck(p)
      PROVE  OursInv'
  BY <1>1, OursSend, OursDhcpAck
<1>2. ASSUME NEW p \in msgs,
             \/ ReceiveEcho(p) \/ ReceiveUnreachable(p)
             \/ \E final \in BOOLEAN : ReceiveTftpError(p, final)
      PROVE  OursInv'
  BY <1>2, OursEnd, Zenon
<1>3. ASSUME NEW p \in msgs, \E s \in DhcpServers : ReceiveOffer(p, s)
      PROVE  OursInv'
  BY <1>3, OursOffer
<1>4. CASE Receive
  BY <1>1, <1>2, <1>3, <1>4, ZenonT(30) DEF Receive
<1>5. CASE \E p \in Commands : NetLoop(p)
  BY <1>5, OursNetLoop
<1> QED
  BY <1>4, <1>5, OursSimple, OursRestart, OursTimers, Zenon DEF Next, Loop

\* The loop starts with no handler.
LEMMA OursInit == Init => OursInv
BY DEF Init, OursInv, HandlerIsOurs, AddressKnown, EchoIsPing, EchoTo, Frame, EndIsOurs, SuccessIsOurs

\* A command that succeeds was ended by the handler of its own protocol, as
\* long as no command has timed out and no ping came before.
THEOREM SuccessCorrect == Spec => []SuccessIsOurs
<1>1. OursInv => SuccessIsOurs
  BY DEF OursInv, EndIsOurs
<1> QED
  BY <1>1, OursInit, OursStep, PTL DEF Spec


-----------------------------------------------------------------------------
\* The current device is one of the environment's.
DeviceOk == env \in Envs /\ eth_current \in 0..env.ndev-1

\* The devices are a ring.
LEMMA RotatedOk ==
    ASSUME env \in Envs, NEW d, d.cur \in 0..env.ndev-1, NEW k \in Nat
    PROVE  Rotated(d, k).cur \in 0..env.ndev-1
<1>1. env.ndev \in Nat \ {0}
  BY NetAssumption, Zenon DEF EnvType
<1>2. d.cur + k \in Nat
  OBVIOUS
<1>3. \A x \in Nat, n \in Nat \ {0} : x % n \in 0..n-1
  OBVIOUS
<1>4. (d.cur + k) % env.ndev \in 0..env.ndev-1
  BY <1>1, <1>2, <1>3, Zenon
<1> QED
  BY <1>4, Zenon DEF Rotated, Dev

\* What eth_init makes of a device of the ring.
LEMMA EthInitOk ==
    ASSUME env \in Envs, NEW d, d.cur \in 0..env.ndev-1, NEW e \in EthInit(d) \cup {EthInitFailed(d)}
    PROVE  e.cur \in 0..env.ndev-1
<1>1. env.ndev \in Nat \ {0}
  BY NetAssumption, Zenon DEF EnvType
<1>2. PICK k \in Nat : e = Rotated(d, k)
  BY <1>1 DEF EthInit, EthInitFailed
<1> QED
  BY <1>2, RotatedOk, Zenon

\* NetStartAgain keeps to the devices there are.
LEMMA StartAgainDevice ==
    ASSUME DeviceOk, env' = env, NEW st, NEW th, NEW changed, NetStartAgain(st, th, changed)
    PROVE  DeviceOk'
<1>1. CASE env.netretry # Forever /\ NetTryCount >= env.netretry
  BY <1>1, Zenon DEF NetStartAgain, DeviceOk, ethVars
<1>2. CASE ~(env.netretry # Forever /\ NetTryCount >= env.netretry)
  <2> DEFINE c == Dev(eth_current, first_failed, NetRestartWrap)
             b == IF NetRestarted = 0 THEN Dev(c.cur, c.cur, c.wrap) ELSE c
             a == TryAnother(c, NetRestarted = 0)
  <2>1. b.cur = eth_current
    BY Zenon DEF Dev
  <2>2. a = Rotated(b, 1)
    BY Zenon DEF TryAnother
  <2>3. PICK d \in EthInit(a) \cup {EthInitFailed(a)} : SetDev(d, changed)
    BY <1>2, Zenon DEF NetStartAgain
  <2> HIDE DEF a, b
  <2>4. a.cur \in 0..env.ndev-1
    BY <2>1, <2>2, RotatedOk, ZenonT(30) DEF DeviceOk
  <2>5. d.cur \in 0..env.ndev-1
    BY <2>4, EthInitOk, Zenon DEF DeviceOk
  <2> QED
    BY <2>3, <2>5, Zenon DEF SetDev, DeviceOk
<1> QED
  BY <1>1, <1>2

\* The start of a command does so as well.
LEMMA NetLoopDevice ==
    ASSUME DeviceOk, NEW q, NetLoop(q)
    PROVE  DeviceOk'
<1> DEFINE d == Dev(eth_current, first_failed, NetRestartWrap)
<1>1. d.cur = eth_current
  BY Zenon DEF Dev
<1>2. PICK e \in EthInit(d) \cup {EthInitFailed(d)} : eth_current' = e.cur
  BY Zenon DEF NetLoop, SetDev
<1> HIDE DEF d
<1>3. e.cur \in 0..env.ndev-1
  BY <1>1, EthInitOk, Zenon DEF DeviceOk
<1> QED
  BY <1>2, <1>3, Zenon DEF NetLoop, DeviceOk

\* Every step keeps to the devices there are.
LEMMA DeviceStep == DeviceOk /\ [Next]_vars => DeviceOk'
<1> SUFFICES ASSUME DeviceOk, [Next]_vars PROVE DeviceOk'
  OBVIOUS
<1>1. CASE UNCHANGED <<env, eth_current>>
  BY <1>1, Zenon DEF DeviceOk
<1>2. CASE env' = env /\ \E st, th, changed : NetStartAgain(st, th, changed)
  BY <1>2, StartAgainDevice, Zenon
<1>3. CASE \E q \in Commands : NetLoop(q)
  BY <1>3, NetLoopDevice, Zenon
<1>4. CASE UNCHANGED vars \/ SetEnv \/ SwitchContinue \/ SwitchRestart \/ SwitchDone \/ CtrlC \/ Tick
  BY <1>1, <1>4, Zenon DEF vars, SetEnv, SwitchContinue, SwitchRestart, SwitchDone, CtrlC, Tick, cmdVars, ethVars
<1>5. CASE Restart
  BY <1>1, <1>2, <1>5, Zenon DEF Restart, ethVars
<1>6. CASE ArpTimeoutCheck
  BY <1>1, <1>2, <1>6, Zenon DEF ArpTimeoutCheck, cmdVars, ethVars
<1>7. CASE Timeout
  BY <1>1, <1>2, <1>7, Zenon DEF Timeout, TftpTimeout, BootpTimeout, StateTimeout, ethVars
<1>8. CASE Receive
  <2>1. ASSUME NEW p \in msgs, ReceiveArp(p) \/ ReceiveEcho(p) \/ ReceiveBlock(p) \/ ReceiveDhcpAck(p)
        PROVE  DeviceOk'
    BY <1>1, <2>1, Zenon DEF ReceiveArp, ReceiveEcho, ReceiveBlock, ReceiveDhcpAck, cmdVars, ethVars
  <2>2. ASSUME NEW p \in msgs, NEW s, ReceiveOffer(p, s) PROVE DeviceOk'
    BY <1>1, <2>2, Zenon DEF ReceiveOffer, cmdVars, ethVars
  <2>3. ASSUME NEW p \in msgs, NEW final, ReceiveUnreachable(p) \/ ReceiveTftpError(p, final)
        PROVE  DeviceOk'
    BY <1>1, <1>2, <2>3, Zenon DEF ReceiveUnreachable, ReceiveTftpError, cmdVars, ethVars
  <2> QED
    BY <1>8, <2>1, <2>2, <2>3, Zenon DEF Receive
<1> QED
  BY <1>3, <1>4, <1>5, <1>6, <1>7, <1>8, Zenon DEF Next, Loop

\* The first device is current at first.
LEMMA DeviceInit == Init => DeviceOk
<1> SUFFICES ASSUME Init PROVE DeviceOk
  OBVIOUS
<1>1. env \in Envs /\ eth_current = 0 /\ env.ndev \in Nat \ {0}
  BY NetAssumption, Zenon DEF Init, EnvType
<1>2. 0 \in 0..env.ndev-1
  BY <1>1
<1> QED
  BY <1>1, <1>2, Zenon DEF DeviceOk


-----------------------------------------------------------------------------
\* A DHCP request names the server whose offer it takes.
IsRequest(p) == p.kind = "request" => p.to \in DhcpServers /\ p = Request(p.id, p.to)
RequestsOk == IsRequest(NetTxPacket) /\ \A p \in msgs : IsRequest(p)

\* Frames of other kinds are no requests.
LEMMA LeaseKinds ==
    /\ \A h, ip : IsRequest(ArpFor(h, ip)) /\ IsRequest(Echo(h, ip))
    /\ \A id, ip : IsRequest(Rrq(id, ip)) /\ IsRequest(Ack(id, ip))
    /\ \A x : IsRequest(Discover(x))
    /\ \A x : \A s \in DhcpServers : IsRequest(Request(x, s))
BY DEF IsRequest, Frame, ArpFor, Rrq, Ack, Discover, Request, Echo

\* Sending keeps what is known of the requests.
LEMMA RequestsKept ==
    ASSUME RequestsOk, IsRequest(NetTxPacket'), NEW p, IsRequest(p), msgs' \subseteq msgs \cup {p}
    PROVE  RequestsOk'
BY Zenon DEF RequestsOk

\* Every step sends requests of this form only.
LEMMA RequestsStep == RequestsOk /\ [Next]_vars => RequestsOk'
<1> SUFFICES ASSUME RequestsOk, [Next]_vars PROVE RequestsOk'
  OBVIOUS
<1>1. CASE UNCHANGED <<NetTxPacket, msgs>>
  BY <1>1, Zenon DEF RequestsOk
<1>2. CASE \E ip : TftpStart(ip) \/ ping_start(ip)
  BY <1>2, LeaseKinds, RequestsKept, Zenon DEF TftpStart, ping_start, ArpWait
<1>3. CASE \E try : BootpRequest(try)
  BY <1>3, LeaseKinds, RequestsKept, Zenon DEF BootpRequest
<1>4. ASSUME NEW a, NetSendUDPPacket(a), IsRequest(a) PROVE RequestsOk'
  <2>1. /\ NetTxPacket' = a
        /\ msgs' \subseteq msgs \cup {a} \/ msgs' \subseteq msgs \cup {ArpFor(Server, NetOurIP)}
    BY <1>4, Zenon DEF NetSendUDPPacket, ArpWait, Sent
  <2> QED
    BY <1>4, <2>1, LeaseKinds, RequestsKept, Zenon
<1>5. CASE UNCHANGED vars \/ SetEnv \/ SwitchContinue \/ SwitchRestart \/ SwitchDone \/ CtrlC \/ Tick
  BY <1>1, <1>5, Zenon DEF vars, SetEnv, SwitchContinue, SwitchRestart, SwitchDone, CtrlC, Tick, txVars
<1>6. CASE \E q \in Commands : NetLoop(q)
  BY <1>1, <1>6, Zenon DEF NetLoop, txVars
<1>7. CASE Restart
  BY <1>1, <1>2, <1>3, <1>7, Zenon DEF Restart, txVars
<1>8. CASE ArpTimeoutCheck
  <2>1. NetTxPacket' = NetTxPacket /\ msgs' \subseteq msgs \cup {ArpFor(NetArpWaitPacketIP, NetOurIP)}
    BY <1>8, Zenon DEF ArpTimeoutCheck
  <2> QED
    BY <2>1, LeaseKinds, RequestsKept, Zenon DEF RequestsOk
<1>9. CASE Timeout
  <2> DEFINE a == IF TftpBlock = 0 THEN Rrq(TftpOurPort, NetOurIP) ELSE Ack(TftpOurPort, NetOurIP)
  <2>1. IsRequest(a)
    BY LeaseKinds, Zenon
  <2>2. CASE TftpTimeout
    BY <1>4, <2>1, <2>2, Zenon DEF TftpTimeout
  <2>3. CASE BootpTimeout \/ StateTimeout
    BY <1>1, <1>3, <2>3, Zenon DEF BootpTimeout, StateTimeout, txVars
  <2> QED
    BY <1>9, <2>2, <2>3, Zenon DEF Timeout
<1>10. ASSUME NEW p \in msgs, ReceiveArp(p) PROVE RequestsOk'
  BY <1>10, Zenon DEF ReceiveArp, Sent, RequestsOk
<1>11. ASSUME NEW p \in msgs, ReceiveBlock(p) PROVE RequestsOk'
  BY <1>4, <1>11, LeaseKinds, Zenon DEF ReceiveBlock
<1>12. ASSUME NEW p \in msgs, NEW s \in DhcpServers, ReceiveOffer(p, s) PROVE RequestsOk'
  BY <1>12, LeaseKinds, RequestsKept, Zenon DEF ReceiveOffer
<1>13. ASSUME NEW p \in msgs, ReceiveDhcpAck(p) PROVE RequestsOk'
  BY <1>1, <1>2, <1>13, Zenon DEF ReceiveDhcpAck
<1>14. ASSUME NEW p \in msgs, NEW final, ReceiveEcho(p) \/ ReceiveUnreachable(p) \/ ReceiveTftpError(p, final)
       PROVE  RequestsOk'
  BY <1>1, <1>14, Zenon DEF ReceiveEcho, ReceiveUnreachable, ReceiveTftpError, txVars
<1>15. CASE Receive
  BY <1>10, <1>11, <1>12, <1>13, <1>14, <1>15, ZenonT(30) DEF Receive
<1> QED
  BY <1>5, <1>6, <1>7, <1>8, <1>9, <1>15, Zenon DEF Next, Loop

\* Nothing has been sent at first.
LEMMA RequestsInit == Init => RequestsOk
BY DEF Init, RequestsOk, IsRequest, Frame


-----------------------------------------------------------------------------
\* TypeOK: what is a name, and what is a number.
Names ==
    /\ pc \in {"idle", "start", "rx", "time"}
    /\ proto \in {"none", "TFTPGET", "PING", "DHCP"}
    /\ net_state \in {"CONTINUE", "RESTART", "SUCCESS", "FAIL"}
    /\ ret \in {"none", "SUCCESS", "FAIL", "ABORT", "TIMEOUT"}
    /\ doneBy \in {"none", "TFTPGET", "PING", "DHCP"}
    /\ udp_handler \in {"dummy", "Tftp", "Dhcp"} /\ icmp_handler \in {"none", "Tftp"}
    /\ timeHandler \in {"none", "Tftp", "Bootp", "ping", "startAgain"}
    /\ dhcp_state \in {"INIT", "SELECTING", "REQUESTING", "BOUND"}

Numbers ==
    /\ timeLeft \in Nat /\ arpLeft \in Nat /\ NetTryCount \in Nat /\ NetArpWaitTry \in Nat
    /\ TftpBlock \in 0..2 /\ BootpTry \in Nat /\ ids \in Nat
    /\ NetOurIP \in Nat /\ ipaddr \in Nat

\* NetStartAgain counts the tries.
LEMMA StartAgainNumbers ==
    ASSUME NetTryCount \in Nat, timeLeft \in Nat, NEW st, NEW th, NEW changed, NetStartAgain(st, th, changed)
    PROVE  NetTryCount' \in Nat /\ timeLeft' \in Nat
<1>1. NetTryCount' = NetTryCount \/ NetTryCount' = NetTryCount + 1
  BY Zenon DEF NetStartAgain
<1>2. timeLeft' = timeLeft \/ timeLeft' = START_AGAIN
  BY StartAgainEnds, Zenon
<1>3. START_AGAIN \in Nat
  BY NetAssumption
<1> QED
  BY <1>1, <1>2, <1>3

\* Every step keeps to the names.
LEMMA NamesStep == Names /\ [Next]_vars => Names'
<1> SUFFICES ASSUME Names, [Next]_vars PROVE Names'
  OBVIOUS
<1>1. CASE UNCHANGED vars \/ SetEnv \/ SwitchContinue \/ SwitchRestart \/ Tick
  BY <1>1, Zenon DEF Names, vars, SetEnv, SwitchContinue, SwitchRestart, Tick, handlers, timer, cmdVars, dhcpVars
<1>2. CASE SwitchDone \/ CtrlC
  BY <1>2, Zenon DEF Names, SwitchDone, CtrlC, Done, cmdVars, dhcpVars
<1>3. CASE \E q \in Commands : NetLoop(q)
  <2>1. PICK q \in Commands : NetLoop(q)
    BY <1>3
  <2>2. q \in {"none", "TFTPGET", "PING", "DHCP"}
    BY NetAssumption
  <2>3. /\ proto' = q /\ pc' \in {"start", "idle"} /\ ret' \in {ret, "FAIL"}
        /\ UNCHANGED <<net_state, doneBy, udp_handler, icmp_handler, timeHandler, dhcp_state>>
    BY <2>1, Zenon DEF NetLoop, handlers, timer, dhcpVars
  <2> QED
    BY <2>2, <2>3 DEF Names
<1>4. CASE Restart
  <2>1. CASE NetStartAgain("CONTINUE", timeHandler, 0)
             /\ pc' = "rx" /\ UNCHANGED <<ret, icmp_handler, dhcp_state>>
    BY <1>4, <2>1, StartAgainEnds, ZenonT(30) DEF Names, Restart
  <2>2. CASE pc' = "idle" /\ ret' = "FAIL" /\ net_state' = "CONTINUE" /\ UNCHANGED <<handlers, timer, dhcpVars>>
    BY <1>4, <2>2, Zenon DEF Names, Restart, handlers, timer, dhcpVars
  <2>3. CASE /\ pc' = "rx" /\ net_state' = "CONTINUE" /\ ret' = ret
             /\ \/ (\E ip : TftpStart(ip) \/ ping_start(ip)) /\ UNCHANGED dhcpVars
                \/ BootpRequest(0)
    BY <1>4, <2>3, ZenonT(30) DEF Names, Restart, TftpStart, ping_start, BootpRequest, NetSetTimeout, handlers,
       dhcpVars
  <2> QED
    BY <1>4, <2>1, <2>2, <2>3, ZenonT(30) DEF Restart, dhcpVars
<1>5. CASE ArpTimeoutCheck
  <2>1. /\ pc' = "time" /\ UNCHANGED <<proto, ret, doneBy, icmp_handler, dhcp_state>>
        /\ \/ NetStartAgain(net_state, timeHandler, envChanged)
           \/ UNCHANGED <<net_state, udp_handler, timeHandler>>
    BY <1>5, Zenon DEF ArpTimeoutCheck, cmdVars, dhcpVars, timer
  <2> QED
    BY <2>1, StartAgainEnds, ZenonT(30) DEF Names
<1>6. CASE TftpTimeout \/ StateTimeout
  BY <1>6, ZenonT(30) DEF Names, TftpTimeout, StateTimeout, TimeReturn, NetSetTimeout, handlers, dhcpVars
<1>7. CASE BootpTimeout
  <2>1. pc' = "idle" /\ ret' = "TIMEOUT" /\ UNCHANGED <<proto, doneBy>>
    BY <1>7, Zenon DEF BootpTimeout, TimeReturn
  <2>2. CASE NetStartAgain(net_state, "none", envChanged) /\ UNCHANGED <<icmp_handler, dhcp_state>>
    BY <2>1, <2>2, StartAgainEnds, ZenonT(30) DEF Names
  <2>3. CASE BootpRequest(BootpTry) /\ UNCHANGED net_state
    BY <2>1, <2>3, Zenon DEF Names, BootpRequest, NetSetTimeout
  <2> QED
    BY <1>7, <2>2, <2>3, Zenon DEF BootpTimeout, dhcpVars
<1>8. ASSUME NEW p \in msgs, ReceiveArp(p) \/ ReceiveEcho(p) PROVE Names'
  BY <1>8, ZenonT(30) DEF Names, ReceiveArp, ReceiveEcho, handlers, timer, cmdVars, dhcpVars
<1>9. ASSUME NEW p \in msgs, NEW final, ReceiveUnreachable(p) \/ ReceiveTftpError(p, final) PROVE Names'
  <2>1. /\ UNCHANGED <<pc, proto, ret, doneBy, icmp_handler, dhcp_state>>
        /\ \/ NetStartAgain(net_state, timeHandler, envChanged)
           \/ net_state' = "FAIL" /\ UNCHANGED <<udp_handler, timeHandler>>
    BY <1>9, Zenon DEF ReceiveUnreachable, ReceiveTftpError, cmdVars, dhcpVars, timer
  <2> QED
    BY <2>1, StartAgainEnds, ZenonT(30) DEF Names
<1>10. ASSUME NEW p \in msgs, ReceiveBlock(p) PROVE Names'
  BY <1>10, ZenonT(30) DEF Names, ReceiveBlock, NetSetTimeout, handlers, cmdVars, dhcpVars
<1>11. ASSUME NEW p \in msgs, NEW s, ReceiveOffer(p, s) PROVE Names'
  BY <1>11, ZenonT(30) DEF Names, ReceiveOffer, NetSetTimeout, handlers, cmdVars
<1>12. ASSUME NEW p \in msgs, ReceiveDhcpAck(p) PROVE Names'
  BY <1>12, ZenonT(30) DEF Names, ReceiveDhcpAck, TftpStart, NetSetTimeout, handlers, timer, cmdVars
<1> QED
  BY <1>1, <1>2, <1>3, <1>4, <1>5, <1>6, <1>7, <1>8, <1>9, <1>10, <1>11, <1>12, ZenonT(30)
     DEF Next, Loop, Timeout, Receive

\* What the starts of the protocols and the timers set.
LEMMA StartNumbers ==
    ASSUME Numbers, \/ \E ip : TftpStart(ip)
                    \/ \E ip : ping_start(ip)
                    \/ (\E try \in Nat : BootpRequest(try)) /\ UNCHANGED <<arpVars, tftpVars>>
    PROVE  /\ timeLeft' \in Nat /\ arpLeft' \in Nat /\ NetArpWaitTry' \in Nat
           /\ TftpBlock' \in 0..2 /\ ids' \in Nat
<1>1. {ARP_TIMEOUT, TftpTimeoutMSecs, PING_TIMEOUT, SELECT_TIMEOUT} \subseteq Nat
  BY NetAssumption
<1>2. CASE \E ip : TftpStart(ip)
  BY <1>1, <1>2 DEF Numbers, TftpStart, NetSetTimeout, ArpWait
<1>3. CASE \E ip : ping_start(ip)
  BY <1>1, <1>3 DEF Numbers, ping_start, NetSetTimeout, ArpWait, tftpVars
<1>4. CASE (\E try \in Nat : BootpRequest(try)) /\ UNCHANGED <<arpVars, tftpVars>>
  BY <1>1, <1>4 DEF Numbers, BootpRequest, NetSetTimeout, arpVars, tftpVars
<1> QED
  BY <1>2, <1>3, <1>4

\* Every step keeps to the numbers.
LEMMA NumbersStep == RequestsOk /\ Numbers /\ [Next]_vars => Numbers'
<1> SUFFICES ASSUME RequestsOk, Numbers, [Next]_vars PROVE Numbers'
  OBVIOUS
<1> DEFINE Addresses == NetOurIP \in Nat /\ ipaddr \in Nat
           Counters == NetTryCount \in Nat /\ BootpTry \in Nat
           Timers == timeLeft \in Nat /\ arpLeft \in Nat /\ NetArpWaitTry \in Nat
           Tftp == TftpBlock \in 0..2 /\ ids \in Nat
<1>0. (Numbers <=> Addresses /\ Counters /\ Timers /\ Tftp)
      /\ (Addresses' /\ Counters' /\ Timers' /\ Tftp' => Numbers')
  BY DEF Numbers
<1>1. CASE UNCHANGED vars \/ SetEnv \/ SwitchContinue \/ SwitchRestart \/ SwitchDone \/ CtrlC
  BY <1>0, <1>1, ZenonT(30) DEF vars, SetEnv, SwitchContinue, SwitchRestart, SwitchDone, CtrlC, Done, timer, arpVars, tftpVars,
     dhcpVars, addrVars, retryVars
<1>2. CASE Tick
  BY <1>2 DEF Numbers, Tick, tftpVars, dhcpVars, addrVars, retryVars
<1>3. CASE \E q \in Commands : NetLoop(q)
  <2>1. NetTryCount' = 1 /\ UNCHANGED <<timer, arpVars, tftpVars, dhcpVars, NetOurIP, ipaddr, ids>>
    BY <1>3, Zenon DEF NetLoop
  <2> QED
    BY <2>1 DEF Numbers, timer, arpVars, tftpVars, dhcpVars
<1>4. CASE Restart
  <2>1. ipaddr' = ipaddr /\ NetOurIP' \in {0, ipaddr, NetOurIP}
    BY <1>4, ZenonT(30) DEF Restart
  <2>2. Addresses'
    BY <2>1 DEF Numbers
  <2>3. CASE /\ NetStartAgain("CONTINUE", timeHandler, 0)
             /\ UNCHANGED <<arpVars, tftpVars, dhcpVars, ids>>
    BY <1>0, <2>2, <2>3, StartAgainNumbers, Zenon DEF arpVars, tftpVars, dhcpVars
  <2>4. CASE UNCHANGED <<timer, arpVars, tftpVars, dhcpVars, retryVars, ids>>
    BY <1>0, <2>2, <2>4, Zenon DEF timer, arpVars, tftpVars, dhcpVars, retryVars
  <2>5. CASE (\E ip : TftpStart(ip) \/ ping_start(ip)) /\ UNCHANGED <<dhcpVars, NetTryCount>>
    BY <1>0, <2>2, <2>5, StartNumbers, Zenon DEF dhcpVars
  <2>6. CASE BootpRequest(0) /\ UNCHANGED <<arpVars, tftpVars, NetTryCount>>
    <3>1. BootpTry' \in Nat
      BY <2>6 DEF BootpRequest
    <3>2. 0 \in Nat
      OBVIOUS
    <3> QED
      BY <1>0, <2>2, <2>6, <3>1, <3>2, StartNumbers, Zenon
  <2> QED
    BY <1>4, <2>3, <2>4, <2>5, <2>6, ZenonT(30) DEF Restart
<1>5. ARP_TIMEOUT \in Nat /\ TftpTimeoutMSecs \in Nat /\ TIMEOUT \in Nat
  BY NetAssumption
<1>6. CASE ArpTimeoutCheck
  <2>1. UNCHANGED <<tftpVars, dhcpVars, NetOurIP, ipaddr, ids>>
    BY <1>6, Zenon DEF ArpTimeoutCheck
  <2>2. CASE NetStartAgain(net_state, timeHandler, envChanged) /\ NetArpWaitTry' = 0 /\ UNCHANGED arpLeft
    BY <1>0, <2>1, <2>2, StartAgainNumbers DEF tftpVars, dhcpVars
  <2>3. CASE /\ UNCHANGED <<NetTryCount, timeLeft>>
             /\ NetArpWaitTry' \in {NetArpWaitTry, NetArpWaitTry + 1} /\ arpLeft' \in {arpLeft, ARP_TIMEOUT}
    BY <1>5, <2>1, <2>3 DEF Numbers, tftpVars, dhcpVars
  <2> QED
    BY <1>6, <2>2, <2>3, ZenonT(30) DEF ArpTimeoutCheck, timer
<1>7. ASSUME NEW a, NetSendUDPPacket(a) PROVE arpLeft' \in Nat /\ NetArpWaitTry' \in Nat
  BY <1>5, <1>7 DEF NetSendUDPPacket, ArpWait, arpVars, Numbers
<1>8. CASE TftpTimeout
  <2>1. /\ timeLeft' = TftpTimeoutMSecs /\ UNCHANGED <<tftpVars, dhcpVars, addrVars, retryVars, ids>>
        /\ \E a : NetSendUDPPacket(a)
    BY <1>8, Zenon DEF TftpTimeout, NetSetTimeout
  <2> QED
    BY <1>0, <1>5, <1>7, <2>1, Zenon DEF tftpVars, dhcpVars, addrVars, retryVars
<1>9. CASE StateTimeout
  BY <1>0, <1>9, Zenon DEF StateTimeout, arpVars, tftpVars, dhcpVars, addrVars, retryVars
<1>10. CASE BootpTimeout
  <2>1. UNCHANGED <<arpVars, tftpVars, NetOurIP, ipaddr>>
    BY <1>10, Zenon DEF BootpTimeout
  <2>2. CASE NetStartAgain(net_state, "none", envChanged) /\ UNCHANGED <<dhcpVars, ids>>
    BY <1>0, <2>1, <2>2, StartAgainNumbers, Zenon DEF arpVars, tftpVars, dhcpVars
  <2>3. CASE BootpRequest(BootpTry) /\ UNCHANGED NetTryCount
    <3>1. BootpTry' \in Nat
      BY <2>3 DEF BootpRequest, Numbers
    <3> QED
      BY <1>0, <2>1, <2>3, <3>1, StartNumbers, Zenon
  <2> QED
    BY <1>10, <2>2, <2>3, Zenon DEF BootpTimeout
<1>11. ASSUME NEW p \in msgs, ReceiveArp(p) \/ ReceiveEcho(p) PROVE Numbers'
  BY <1>0, <1>11, ZenonT(30) DEF ReceiveArp, ReceiveEcho, timer, arpVars, tftpVars, dhcpVars, addrVars, retryVars
<1>12. ASSUME NEW p \in msgs, NEW final, ReceiveUnreachable(p) \/ ReceiveTftpError(p, final) PROVE Numbers'
  <2>1. UNCHANGED <<arpVars, tftpVars, dhcpVars, NetOurIP, ipaddr, ids>>
    BY <1>12, Zenon DEF ReceiveUnreachable, ReceiveTftpError
  <2>2. CASE NetStartAgain(net_state, timeHandler, envChanged)
    BY <1>0, <2>1, <2>2, StartAgainNumbers, Zenon DEF arpVars, tftpVars, dhcpVars
  <2>3. CASE UNCHANGED <<NetTryCount, timer>>
    BY <1>0, <2>1, <2>3, Zenon DEF arpVars, tftpVars, dhcpVars, timer
  <2> QED
    BY <1>12, <2>2, <2>3, Zenon DEF ReceiveUnreachable, ReceiveTftpError
<1>13. ASSUME NEW p \in msgs, ReceiveBlock(p) PROVE Numbers'
  <2>1. /\ timeLeft' = TftpTimeoutMSecs /\ TftpBlock' \in {1, 2}
        /\ UNCHANGED <<dhcpVars, addrVars, retryVars, ids>> /\ \E a : NetSendUDPPacket(a)
    BY <1>13, Zenon DEF ReceiveBlock, NetSetTimeout
  <2>2. TftpBlock' \in 0..2
    BY <2>1
  <2> QED
    BY <1>0, <1>5, <1>7, <2>1, <2>2, Zenon DEF dhcpVars, addrVars, retryVars
<1>14. ASSUME NEW p \in msgs, NEW s, ReceiveOffer(p, s) PROVE Numbers'
  BY <1>0, <1>5, <1>14, ZenonT(30) DEF ReceiveOffer, NetSetTimeout, arpVars, tftpVars, addrVars, retryVars
<1>15. ASSUME NEW p \in msgs, ReceiveDhcpAck(p) PROVE Numbers'
  <2>1. p.to \in DhcpServers
    BY <1>15, Zenon DEF ReceiveDhcpAck, RequestsOk, IsRequest
  <2>2. Lease(p.to) \in Nat
    BY <2>1, NetAssumption
  <2>3. NetOurIP' = Lease(p.to) /\ UNCHANGED <<BootpTry, ipaddr, retryVars>>
    BY <1>15, Zenon DEF ReceiveDhcpAck
  <2>4. Addresses' /\ Counters'
    BY <1>0, <2>2, <2>3, Zenon DEF retryVars
  <2>5. CASE TftpStart(Lease(p.to))
    BY <1>0, <2>4, <2>5, StartNumbers, Zenon
  <2>6. CASE UNCHANGED <<timer, tftpVars, arpVars, ids>>
    BY <1>0, <2>4, <2>6, Zenon DEF timer, tftpVars, arpVars
  <2> QED
    BY <1>15, <2>5, <2>6, Zenon DEF ReceiveDhcpAck
<1> QED
  BY <1>1, <1>2, <1>3, <1>4, <1>6, <1>8, <1>9, <1>10, <1>11, <1>12, <1>13, <1>14, <1>15, ZenonT(30)
     DEF Next, Loop, Timeout, Receive

\* Every variable of the network commands has its type: the address is a
\* number because the acknowledgement that sets it answers a request to a
\* DHCP server, and the current device is one of the ring.
THEOREM TypeCorrect == Spec => []TypeOK
<1>1. Init => Names /\ Numbers
  <2> SUFFICES ASSUME Init PROVE Names /\ Numbers
    OBVIOUS
  <2>1. Names
    BY Zenon DEF Init, Names
  <2>2. Numbers
    BY NetAssumption DEF Init, Numbers
  <2> QED
    BY <2>1, <2>2
<1>2. DeviceOk /\ Names /\ Numbers => TypeOK
  BY Zenon DEF DeviceOk, Names, Numbers, TypeOK
<1> QED
  BY <1>1, <1>2, DeviceInit, DeviceStep, RequestsInit, RequestsStep, NamesStep, NumbersStep, PTL DEF Spec


-----------------------------------------------------------------------------
\* All devices have an address, or none has.
Uniform == \A e \in Envs : e.addrs = 0..e.ndev-1 \/ e.addrs \cap (0..e.ndev-1) = {}

\* Without any, no protocol is ever started.
Bare == env.addrs \cap (0..env.ndev-1) = {}
Silent ==
    Bare => /\ msgs = {} /\ NetArpWaitPacketIP = NoHost /\ udp_handler = "dummy"
            /\ timeHandler \in {"none", "startAgain"}

\* A device without an address sends nothing.
LEMMA SilentStep == DeviceOk /\ Silent /\ [Next]_vars => Silent'
<1> SUFFICES ASSUME DeviceOk, Silent, [Next]_vars, Bare' PROVE Silent'
  BY DEF Silent
<1>1. env' = env
  BY Zenon DEF Next, Loop, Timeout, Receive, vars, SetEnv, NetLoop, Restart, ArpTimeoutCheck, TftpTimeout,
     BootpTimeout, StateTimeout, SwitchContinue, SwitchRestart, SwitchDone, ReceiveArp, ReceiveEcho,
     ReceiveUnreachable, ReceiveBlock, ReceiveTftpError, ReceiveOffer, ReceiveDhcpAck, CtrlC, Tick, cmdVars
<1>2. /\ msgs = {} /\ NetArpWaitPacketIP = NoHost /\ udp_handler = "dummy"
      /\ timeHandler \in {"none", "startAgain"}
  BY <1>1, Zenon DEF Silent, Bare
<1>3. eth_current \notin env.addrs
  BY <1>1, Zenon DEF Bare, DeviceOk
<1>4. ~Receive
  BY <1>2, Zenon DEF Receive
<1>5. ASSUME NEW st, NetStartAgain(st, timeHandler, 0) \/ NetStartAgain(st, timeHandler, envChanged),
             UNCHANGED <<msgs, NetArpWaitPacketIP>>
      PROVE  Silent'
  BY <1>2, <1>5, StartAgainEnds, Zenon DEF Silent
<1>6. CASE UNCHANGED vars \/ SetEnv \/ SwitchContinue \/ SwitchRestart \/ SwitchDone \/ CtrlC \/ Tick
  BY <1>2, <1>6, ZenonT(30) DEF Silent, vars, SetEnv, SwitchContinue, SwitchRestart, SwitchDone, CtrlC, Done,
     Tick, txVars, arpVars, handlers, timer
<1>7. CASE \E q \in Commands : NetLoop(q)
  BY <1>2, <1>7, Zenon DEF Silent, NetLoop, txVars, arpVars, handlers, timer
<1>8. CASE Restart
  <2>1. CASE UNCHANGED <<handlers, timer, arpVars, txVars>>
    BY <1>2, <2>1, Zenon DEF Silent, txVars, arpVars, handlers, timer
  <2> QED
    BY <1>3, <1>5, <1>8, <2>1, Zenon DEF Restart, arpVars, txVars
<1>9. CASE ArpTimeoutCheck
  BY <1>2, <1>9, Zenon DEF Silent, ArpTimeoutCheck, timer
<1>10. CASE Timeout
  <2>1. StateTimeout
    BY <1>2, <1>10 DEF Timeout, TftpTimeout, BootpTimeout
  <2> QED
    BY <1>2, <2>1, Zenon DEF Silent, StateTimeout, handlers, arpVars, txVars
<1> QED
  BY <1>4, <1>6, <1>7, <1>8, <1>9, <1>10, Zenon DEF Next, Loop

\* Nothing is sent, and no handler is set, at first.
LEMMA SilentInit == Init => Silent
BY Zenon DEF Init, Silent


-----------------------------------------------------------------------------
\* The address we use was leased in this transaction.
Leased ==
    /\ NetDHCPServerIP \in DhcpServers /\ dhcp_state = "BOUND"
    /\ NetOurIP = Lease(NetDHCPServerIP)
    /\ Request(BootpID, NetDHCPServerIP) \in msgs

\* From the acknowledgement on, while the boot file is loaded, until dhcp
\* returns.
DhcpLoop == proto = "DHCP" /\ pc \in {"rx", "time"}
Bound == doneBy = "DHCP" \/ (doneBy = "TFTPGET" /\ expired = 0)
LeaseHeld ==
    /\ DhcpLoop /\ Bound => Leased
    /\ DhcpLoop /\ expired = 0 /\ udp_handler = "Tftp" => Leased
    /\ BoundIsLeased

\* A step of the loop that does not end it keeps the lease.
LEMMA LeaseKept ==
    ASSUME LeaseHeld, proto' = proto, pc \in {"rx", "time"}, pc' # "idle", expired' = expired,
           udp_handler' \in {udp_handler, "dummy"},
           \/ doneBy' \in {doneBy, "PING"}
           \/ doneBy' = "TFTPGET" /\ udp_handler = "Tftp",
           UNCHANGED <<NetDHCPServerIP, dhcp_state, NetOurIP, BootpID>>, msgs \subseteq msgs'
    PROVE  LeaseHeld'
BY Zenon DEF LeaseHeld, DhcpLoop, Bound, Leased, BoundIsLeased

\* A step that ends the loop without success.
LEMMA LeaseDropped ==
    ASSUME pc' = "idle", ret' # "SUCCESS"
    PROVE  LeaseHeld'
BY DEF LeaseHeld, DhcpLoop, BoundIsLeased


\* The steps that send nothing.
LEMMA LeaseQuiet ==
    ASSUME LeaseHeld, \/ UNCHANGED vars \/ SetEnv \/ SwitchContinue \/ SwitchRestart \/ SwitchDone
                      \/ CtrlC \/ Tick \/ \E q \in Commands : NetLoop(q)
    PROVE  LeaseHeld'
<1>1. CASE UNCHANGED vars \/ SetEnv \/ Tick
  BY <1>1, ZenonT(30) DEF LeaseHeld, DhcpLoop, Bound, Leased, BoundIsLeased, vars, SetEnv,
     Tick, cmdVars, addrVars, dhcpVars, txVars, handlers
<1>2. CASE SwitchContinue
  <2>1. /\ pc = "time" /\ pc' = "rx"
        /\ UNCHANGED <<proto, expired, udp_handler, doneBy, NetDHCPServerIP, dhcp_state, NetOurIP, BootpID, msgs>>
    BY <1>2, Zenon DEF SwitchContinue, cmdVars, addrVars, dhcpVars, txVars, handlers
  <2> QED
    BY <2>1, LeaseKept, ZenonT(30)
<1>3. CASE SwitchRestart
  BY <1>3, Zenon DEF SwitchRestart, LeaseHeld, DhcpLoop, BoundIsLeased
<1>4. CASE SwitchDone
  <2>1. /\ pc = "time" /\ pc' = "idle" /\ ret' = net_state
        /\ net_state = "SUCCESS" /\ proto = "DHCP" => ipaddr' = IF NetOurIP # 0 THEN NetOurIP ELSE ipaddr
        /\ UNCHANGED <<proto, expired, doneBy, NetDHCPServerIP, NetOurIP, BootpID, msgs>>
    BY <1>4, Zenon DEF SwitchDone, Done, cmdVars, dhcpVars, txVars
  <2>2. \A s \in DhcpServers : Lease(s) # 0
    BY NetAssumption, Zenon
  <2> QED
    BY <2>1, <2>2, ZenonT(30) DEF LeaseHeld, DhcpLoop, Bound, Leased, BoundIsLeased
<1>5. CASE CtrlC
  BY <1>5, LeaseDropped, Zenon DEF CtrlC, Done
<1>6. CASE \E q \in Commands : NetLoop(q)
  <2>1. pc' = "start" \/ (pc' = "idle" /\ ret' = "FAIL")
    BY <1>6, Zenon DEF NetLoop
  <2> QED
    BY <2>1, Zenon DEF LeaseHeld, DhcpLoop, BoundIsLeased
<1> QED
  BY <1>1, <1>2, <1>3, <1>4, <1>5, <1>6, Zenon

\* The start of a protocol: dhcp gives up what it had.
LEMMA LeaseRestart ==
    ASSUME Uniform, DeviceOk, Silent, Silent', LeaseHeld, Restart
    PROVE  LeaseHeld'
<1> DEFINE ip == IF envChanged = 1 THEN ipaddr ELSE NetOurIP
<1>1. Bare \/ eth_current \in env.addrs
  BY Zenon DEF Uniform, Bare, DeviceOk
<1>2. env' = env /\ proto' = proto /\ doneBy' = "none"
  BY Zenon DEF Restart
<1>3. CASE Bare
  <2>1. udp_handler' = "dummy"
    BY <1>2, <1>3, Zenon DEF Silent, Bare
  <2>2. pc' # "idle" \/ ret' = "FAIL"
    BY Zenon DEF Restart
  <2> QED
    BY <1>2, <2>1, <2>2 DEF LeaseHeld, DhcpLoop, Bound, BoundIsLeased
<1>4. CASE pc' = "idle"
  <2>1. ret' = "FAIL"
    BY <1>4, Zenon DEF Restart
  <2> QED
    BY <1>4, <2>1, LeaseDropped, SMTT(30)
<1>5. CASE /\ pc' = "rx"
           /\ \/ proto = "TFTPGET" /\ TftpStart(ip)
              \/ proto = "PING" /\ ping_start(ip)
              \/ proto = "DHCP" /\ BootpRequest(0)
  BY <1>2, <1>5, Zenon DEF LeaseHeld, DhcpLoop, Bound, BoundIsLeased, BootpRequest
<1> QED
  BY <1>1, <1>3, <1>4, <1>5, Zenon DEF Restart

\* NetStartAgain, called in the loop.
LEMMA LeaseStartAgain ==
    ASSUME LeaseHeld, NetStartAgain(net_state, timeHandler, envChanged),
           proto' = proto, pc \in {"rx", "time"}, pc' # "idle", expired' = expired, doneBy' = doneBy,
           UNCHANGED <<NetDHCPServerIP, dhcp_state, NetOurIP, BootpID>>, msgs' = msgs
    PROVE  LeaseHeld'
<1>1. udp_handler' \in {udp_handler, "dummy"}
  BY StartAgainEnds, Zenon
<1> QED
  BY <1>1, LeaseKept, Zenon

\* The packets, without those of DHCP.
LEMMA LeaseReceive ==
    ASSUME LeaseHeld, NEW p \in msgs, NEW final,
           \/ ReceiveArp(p) \/ ReceiveEcho(p) \/ ReceiveUnreachable(p)
           \/ ReceiveBlock(p) \/ ReceiveTftpError(p, final)
    PROVE  LeaseHeld'
<1>1. CASE ReceiveArp(p)
  <2>1. /\ pc = "rx" /\ pc' = pc /\ msgs \subseteq msgs'
        /\ UNCHANGED <<proto, expired, udp_handler, doneBy, NetDHCPServerIP, dhcp_state, NetOurIP, BootpID>>
    BY <1>1, Zenon DEF ReceiveArp, cmdVars, handlers, dhcpVars, addrVars
  <2> QED
    BY <2>1, LeaseKept, Zenon
<1>2. CASE ReceiveEcho(p)
  <2>1. /\ pc = "rx" /\ pc' = pc /\ doneBy' = "PING"
        /\ UNCHANGED <<proto, expired, udp_handler, NetDHCPServerIP, dhcp_state, NetOurIP, BootpID, msgs>>
    BY <1>2, ZenonT(30) DEF ReceiveEcho, cmdVars, handlers, dhcpVars, addrVars, txVars
  <2> QED
    BY <2>1, LeaseKept, Zenon
<1>3. CASE ReceiveBlock(p)
  <2>1. /\ pc = "rx" /\ pc' = pc /\ udp_handler = "Tftp" /\ udp_handler' = udp_handler
        /\ doneBy' \in {doneBy, "TFTPGET"}
        /\ UNCHANGED <<proto, expired, NetDHCPServerIP, dhcp_state, NetOurIP, BootpID>>
        /\ \E a : NetSendUDPPacket(a)
    BY <1>3, Zenon DEF ReceiveBlock, TftpAccepts, cmdVars, handlers, dhcpVars, addrVars
  <2>2. msgs \subseteq msgs'
    BY <2>1, Zenon DEF NetSendUDPPacket, ArpWait
  <2> QED
    BY <2>1, <2>2, LeaseKept, ZenonT(30)
<1>4. CASE (ReceiveUnreachable(p) \/ ReceiveTftpError(p, final)) /\ NetStartAgain(net_state, timeHandler, envChanged)
  <2>1. /\ pc = "rx" /\ pc' = pc
        /\ UNCHANGED <<proto, expired, doneBy, NetDHCPServerIP, dhcp_state, NetOurIP, BootpID, msgs>>
    BY <1>4, Zenon DEF ReceiveUnreachable, ReceiveTftpError, TftpAccepts, cmdVars, dhcpVars, txVars
  <2> QED
    BY <1>4, <2>1, LeaseStartAgain, Zenon
<1>5. CASE ReceiveTftpError(p, final) /\ final
  <2>1. /\ pc = "rx" /\ pc' = pc
        /\ UNCHANGED <<proto, expired, udp_handler, doneBy, NetDHCPServerIP, dhcp_state, NetOurIP, BootpID, msgs>>
    BY <1>5, Zenon DEF ReceiveTftpError, TftpAccepts, cmdVars, dhcpVars, txVars
  <2> QED
    BY <2>1, LeaseKept, Zenon
<1> QED
  BY <1>1, <1>2, <1>3, <1>4, <1>5, ZenonT(30) DEF ReceiveUnreachable, ReceiveTftpError

\* DHCP: the acknowledgement is of the request for this offer.
LEMMA LeaseDhcp ==
    ASSUME RequestsOk, LeaseHeld, NEW p \in msgs, NEW s, ReceiveOffer(p, s) \/ ReceiveDhcpAck(p)
    PROVE  LeaseHeld'
<1>1. pc = "rx" /\ pc' = "rx" /\ UNCHANGED <<proto, expired, BootpID>>
  BY Zenon DEF ReceiveOffer, ReceiveDhcpAck, DhcpAccepts, cmdVars
<1>2. CASE ReceiveOffer(p, s)
  <2>1. ~(DhcpLoop /\ Bound) /\ ~(DhcpLoop /\ expired = 0 /\ udp_handler = "Tftp")
    BY <1>2, Zenon DEF ReceiveOffer, LeaseHeld, Leased
  <2> QED
    BY <1>1, <1>2, <2>1, ZenonT(30) DEF ReceiveOffer, LeaseHeld, DhcpLoop, Bound, BoundIsLeased, handlers
<1>3. CASE ReceiveDhcpAck(p)
  <2>1. p.to \in DhcpServers /\ p = Request(BootpID, p.to)
    BY <1>3, Zenon DEF ReceiveDhcpAck, DhcpAccepts, RequestsOk, IsRequest
  <2>2. msgs \subseteq msgs'
    BY <1>3, Zenon DEF ReceiveDhcpAck, TftpStart, ArpWait
  <2>3. NetDHCPServerIP' = p.to /\ dhcp_state' = "BOUND" /\ NetOurIP' = Lease(p.to)
    BY <1>3, Zenon DEF ReceiveDhcpAck
  <2>4. Leased'
    BY <1>1, <2>1, <2>2, <2>3, ZenonT(30) DEF Leased
  <2> QED
    BY <1>1, <2>4, ZenonT(30) DEF LeaseHeld, BoundIsLeased
<1> QED
  BY <1>2, <1>3

\* The timers.
LEMMA LeaseTimers ==
    ASSUME LeaseHeld, ArpTimeoutCheck \/ Timeout
    PROVE  LeaseHeld'
<1>1. CASE ArpTimeoutCheck
  <2>1. /\ pc = "rx" /\ pc' = "time" /\ msgs \subseteq msgs'
        /\ UNCHANGED <<proto, expired, doneBy, NetDHCPServerIP, dhcp_state, NetOurIP, BootpID>>
    BY <1>1, Zenon DEF ArpTimeoutCheck, cmdVars, dhcpVars
  <2>2. CASE NetStartAgain(net_state, timeHandler, envChanged) /\ UNCHANGED msgs
    BY <2>1, <2>2, LeaseStartAgain, Zenon
  <2>3. CASE UNCHANGED udp_handler
    BY <2>1, <2>3, LeaseKept, ZenonT(30)
  <2> QED
    BY <1>1, <2>2, <2>3, ZenonT(30) DEF ArpTimeoutCheck
<1>2. CASE Timeout
  BY <1>2, LeaseDropped, Zenon DEF Timeout, TftpTimeout, BootpTimeout, StateTimeout, TimeReturn
<1> QED
  BY <1>1, <1>2

\* A dhcp command that succeeds has configured the address that the server
\* of this transaction leased, if all devices have an address or none has.
THEOREM LeaseCorrect == ASSUME Uniform PROVE Spec => []BoundIsLeased
<1>1. Init => LeaseHeld
  BY DEF Init, LeaseHeld, DhcpLoop, BoundIsLeased
<1>2. DeviceOk /\ RequestsOk /\ Silent /\ Silent' /\ LeaseHeld /\ [Next]_vars => LeaseHeld'
  <2> SUFFICES ASSUME DeviceOk, RequestsOk, Silent, Silent', LeaseHeld, [Next]_vars PROVE LeaseHeld'
    OBVIOUS
  <2>1. CASE Receive
    BY <2>1, LeaseDhcp, LeaseReceive, ZenonT(30) DEF Receive
  <2> QED
    BY <2>1, LeaseQuiet, LeaseRestart, LeaseTimers, ZenonT(30) DEF Next, Loop
<1>3. LeaseHeld => BoundIsLeased
  BY DEF LeaseHeld
<1> QED
  BY <1>1, <1>2, <1>3, DeviceInit, DeviceStep, RequestsInit, RequestsStep, SilentInit, SilentStep, PTL DEF Spec


-----------------------------------------------------------------------------
\* The packet that waits for a host's answer is for that host.
Waits == NetArpWaitPacketIP # NoHost => NetTxPacket.to = NetArpWaitPacketIP

\* So it is in the loop, but a DHCP packet may take the buffer while an
\* older one waits: then we have no address yet, or the command is over, or
\* the loop is about to be left.
InLoop == pc \in {"rx", "time"}
Negotiating ==
    InLoop /\ proto = "DHCP" /\ udp_handler = "Dhcp" =>
        NetOurIP = 0 \/ (env.autoload # 1 /\ net_state # "CONTINUE")
Paused ==
    InLoop /\ proto = "DHCP" /\ udp_handler = "dummy" =>
        Waits \/ NetOurIP = 0 \/ (pc = "time" /\ net_state # "CONTINUE")

\* While TFTP has the buffer, what waits does so for the server.
Loading ==
    pc # "idle" /\ udp_handler = "Tftp" =>
        NetTxPacket.to = Server /\ NetArpWaitPacketIP \in {NoHost, Server}

\* The ICMP handler of TFTP is there after TftpStart only, until the loop is left.
IcmpIsOurs ==
    icmp_handler = "Tftp" =>
        /\ pc # "idle"
        /\ \/ proto = "DHCP" /\ env.autoload = 1
           \/ proto = "TFTPGET" /\ ipaddr # 0 /\ NetOurIP = ipaddr

WaitInv ==
    expired = 0 =>
        /\ InLoop /\ (proto # "DHCP" \/ udp_handler = "Tftp") => Waits
        /\ Negotiating /\ Paused /\ Loading /\ IcmpIsOurs

\* The steps that send nothing.
LEMMA WaitQuiet ==
    ASSUME HandlerIsOurs, WaitInv,
           \/ UNCHANGED vars \/ SetEnv \/ SwitchContinue \/ SwitchRestart \/ SwitchDone
           \/ CtrlC \/ Tick \/ \E q \in Commands : NetLoop(q)
    PROVE  WaitInv'
<1> USE DEF WaitInv, InLoop, Waits, Negotiating, Paused, Loading, IcmpIsOurs
<1>1. CASE UNCHANGED vars \/ SetEnv \/ Tick
  <2>1. UNCHANGED <<env, pc, proto, expired, net_state, udp_handler, icmp_handler, NetArpWaitPacketIP,
                    NetTxPacket, NetOurIP, ipaddr>>
    BY <1>1, ZenonT(30) DEF vars, SetEnv, Tick, cmdVars, addrVars, txVars, arpVars, handlers
  <2> QED
    BY <2>1
<1>2. CASE SwitchContinue \/ SwitchRestart
  <2>1. /\ pc = "time"
        /\ pc' = "start" \/ (pc' = "rx" /\ net_state = "CONTINUE")
        /\ UNCHANGED <<env, proto, expired, net_state, udp_handler, icmp_handler, NetArpWaitPacketIP,
                       NetTxPacket, NetOurIP, ipaddr>>
    BY <1>2, ZenonT(30) DEF SwitchContinue, SwitchRestart, cmdVars, addrVars, txVars, arpVars, handlers
  <2> QED
    BY <2>1
<1>3. CASE SwitchDone \/ CtrlC
  <2>1. pc' = "idle" /\ icmp_handler' = "none"
    BY <1>3, Zenon DEF SwitchDone, CtrlC, Done
  <2> QED
    BY <2>1
<1>4. CASE \E q \in Commands : NetLoop(q)
  <2>1. /\ pc = "idle" /\ pc' \in {"start", "idle"}
        /\ UNCHANGED <<expired, udp_handler, icmp_handler>>
    BY <1>4, Zenon DEF NetLoop, handlers
  <2> QED
    BY <2>1 DEF HandlerIsOurs
<1> QED
  BY <1>1, <1>2, <1>3, <1>4, Zenon

\* The start of a protocol.
LEMMA WaitRestart ==
    ASSUME Uniform, DeviceOk, Silent', HandlerIsOurs, AddressKnown, WaitInv, Restart
    PROVE  WaitInv'
<1> DEFINE ip == IF envChanged = 1 THEN ipaddr ELSE NetOurIP
<1>1. /\ pc = "start" /\ UNCHANGED <<env, proto, expired, ipaddr>>
  BY Zenon DEF Restart
<1>2. Bare \/ eth_current \in env.addrs
  BY Zenon DEF Uniform, Bare, DeviceOk
<1>3. ip = 0 \/ ip = ipaddr
  BY DEF AddressKnown
<1>4. icmp_handler = "Tftp" /\ proto = "TFTPGET" /\ expired = 0 => ip = ipaddr /\ ipaddr # 0
  BY DEF WaitInv, IcmpIsOurs
<1>5. CASE pc' = "idle"
  <2>1. proto # "DHCP" /\ ip = 0 /\ icmp_handler' = icmp_handler
    BY <1>5, Zenon DEF Restart, handlers
  <2> HIDE DEF ip
  <2> QED
    BY <1>1, <1>4, <1>5, <2>1 DEF WaitInv, IcmpIsOurs, InLoop, Negotiating, Paused, Loading
<1>6. CASE Bare /\ pc' # "idle" /\ NetOurIP' = ip /\ icmp_handler' = icmp_handler
  <2>1. udp_handler' = "dummy" /\ NetArpWaitPacketIP' = NoHost
    BY <1>1, <1>6, Zenon DEF Silent, Bare
  <2> HIDE DEF ip
  <2> QED
    BY <1>1, <1>4, <1>6, <2>1 DEF WaitInv, IcmpIsOurs, Negotiating, Paused, Loading, Waits
<1>7. CASE /\ pc' = "rx"
           /\ \/ proto = "TFTPGET" /\ ip # 0 /\ TftpStart(ip) /\ NetOurIP' = ip
              \/ proto = "PING" /\ ping_start(ip)
              \/ proto = "DHCP" /\ BootpRequest(0) /\ NetOurIP' = 0
  <2> HIDE DEF ip
  <2>1. CASE proto = "TFTPGET" /\ ip # 0 /\ TftpStart(ip) /\ NetOurIP' = ip
    <3>1. NetTxPacket'.to = Server /\ NetArpWaitPacketIP' = Server /\ udp_handler' = "Tftp"
      BY <2>1 DEF TftpStart, ArpWait, Rrq, Frame
    <3> QED
      BY <1>1, <1>3, <1>7, <2>1, <3>1 DEF WaitInv, IcmpIsOurs, Negotiating, Paused, Loading, Waits
  <2>2. CASE proto = "PING" /\ ping_start(ip)
    <3>1. /\ NetTxPacket'.to = NetPingIP /\ NetArpWaitPacketIP' = NetPingIP
          /\ UNCHANGED <<udp_handler, icmp_handler>>
      BY <2>2 DEF ping_start, ArpWait, Echo, Frame, handlers
    <3> QED
      BY <1>1, <1>7, <2>2, <3>1 DEF WaitInv, IcmpIsOurs, Negotiating, Paused, Loading, Waits, HandlerIsOurs
  <2>3. CASE proto = "DHCP" /\ BootpRequest(0) /\ NetOurIP' = 0
    <3>1. udp_handler' = "Dhcp" /\ icmp_handler' = icmp_handler
      BY <2>3, Zenon DEF BootpRequest
    <3> QED
      BY <1>1, <1>7, <2>3, <3>1 DEF WaitInv, IcmpIsOurs, Negotiating, Paused, Loading
  <2> QED
    BY <1>7, <2>1, <2>2, <2>3, Zenon
<1> QED
  BY <1>2, <1>5, <1>6, <1>7, ZenonT(30) DEF Restart

\* NetStartAgain, called by a handler of TFTP or at the end of eth_rx.
LEMMA WaitStartAgain ==
    ASSUME HandlerIsOurs, WaitInv, NetStartAgain(net_state, timeHandler, envChanged), pc = "rx",
           \/ pc' = "time"
           \/ pc' = "rx" /\ (udp_handler = "Tftp" \/ icmp_handler = "Tftp"),
           UNCHANGED <<env, proto, expired, icmp_handler, NetArpWaitPacketIP, NetTxPacket, NetOurIP, ipaddr>>
    PROVE  WaitInv'
<1>1. \/ net_state' \in {"FAIL", "RESTART"} /\ udp_handler' = udp_handler
      \/ net_state' = net_state /\ udp_handler' = "dummy"
  BY StartAgainEnds, Zenon
<1> QED
  BY <1>1 DEF WaitInv, InLoop, Waits, Negotiating, Paused, Loading, IcmpIsOurs, HandlerIsOurs

\* The packets.
LEMMA WaitReceive ==
    ASSUME HandlerIsOurs, WaitInv, NEW p \in msgs, NEW final, NEW s,
           \/ ReceiveArp(p) \/ ReceiveEcho(p) \/ ReceiveUnreachable(p) \/ ReceiveBlock(p)
           \/ ReceiveTftpError(p, final) \/ ReceiveOffer(p, s) \/ ReceiveDhcpAck(p)
    PROVE  WaitInv'
<1> USE DEF WaitInv, InLoop, Waits, Negotiating, Paused, Loading, IcmpIsOurs
<1>1. /\ pc = "rx" /\ pc' = "rx" /\ UNCHANGED <<env, proto, expired, ipaddr>>
  BY ZenonT(30) DEF ReceiveArp, ReceiveEcho, ReceiveUnreachable, ReceiveBlock, ReceiveTftpError, ReceiveOffer,
     ReceiveDhcpAck, TftpAccepts, DhcpAccepts, cmdVars, addrVars
<1>2. CASE ReceiveArp(p)
  <2>1. /\ NetArpWaitPacketIP' = NoHost
        /\ UNCHANGED <<net_state, udp_handler, icmp_handler, NetTxPacket, NetOurIP>>
    BY <1>2, Zenon DEF ReceiveArp, handlers, addrVars
  <2> QED
    BY <1>1, <2>1
<1>3. CASE ReceiveEcho(p)
  <2>1. /\ net_state' = "SUCCESS"
        /\ UNCHANGED <<udp_handler, icmp_handler, NetArpWaitPacketIP, NetTxPacket, NetOurIP>>
    BY <1>3, Zenon DEF ReceiveEcho, handlers, addrVars, arpVars, txVars
  <2> QED
    BY <1>1, <2>1
<1>4. CASE ReceiveUnreachable(p) \/ ReceiveTftpError(p, final)
  <2>1. /\ udp_handler = "Tftp" \/ icmp_handler = "Tftp"
        /\ UNCHANGED <<icmp_handler, NetArpWaitPacketIP, NetTxPacket, NetOurIP>>
        /\ \/ NetStartAgain(net_state, timeHandler, envChanged)
           \/ udp_handler = "Tftp" /\ udp_handler' = "Tftp"
    BY <1>4, ZenonT(30) DEF ReceiveUnreachable, ReceiveTftpError, TftpAccepts, arpVars, txVars
  <2>2. CASE NetStartAgain(net_state, timeHandler, envChanged)
    BY <1>1, <2>1, <2>2, WaitStartAgain, Zenon
  <2>3. CASE udp_handler = "Tftp" /\ udp_handler' = "Tftp"
    BY <1>1, <2>1, <2>3
  <2> QED
    BY <2>1, <2>2, <2>3, Zenon
<1>5. CASE ReceiveBlock(p)
  <2>1. /\ udp_handler = "Tftp" /\ UNCHANGED <<udp_handler, icmp_handler, NetOurIP>>
        /\ NetSendUDPPacket(Ack(TftpOurPort, NetOurIP))
    BY <1>5, Zenon DEF ReceiveBlock, TftpAccepts, handlers, addrVars
  <2>2. NetTxPacket'.to = Server /\ NetArpWaitPacketIP' \in {NetArpWaitPacketIP, Server}
    BY <2>1 DEF NetSendUDPPacket, ArpWait, Ack, Frame, arpVars
  <2> QED
    BY <1>1, <2>1, <2>2
<1>6. CASE ReceiveOffer(p, s)
  <2>1. udp_handler = "Dhcp" /\ UNCHANGED <<net_state, udp_handler, icmp_handler, NetOurIP>>
    BY <1>6, Zenon DEF ReceiveOffer, DhcpAccepts, handlers, addrVars
  <2> QED
    BY <1>1, <2>1 DEF HandlerIsOurs
<1>7. CASE ReceiveDhcpAck(p)
  <2>1. udp_handler = "Dhcp"
    BY <1>7, Zenon DEF ReceiveDhcpAck, DhcpAccepts
  <2>2. CASE env.autoload = 1 /\ TftpStart(Lease(p.to))
    <3>1. NetTxPacket'.to = Server /\ NetArpWaitPacketIP' = Server /\ udp_handler' = "Tftp"
      BY <2>2 DEF TftpStart, ArpWait, Rrq, Frame
    <3> QED
      BY <1>1, <2>1, <2>2, <3>1 DEF HandlerIsOurs
  <2>3. CASE /\ env.autoload # 1 /\ net_state' = "SUCCESS" /\ UNCHANGED handlers
    BY <1>1, <2>1, <2>3 DEF HandlerIsOurs, handlers
  <2> QED
    BY <1>7, <2>2, <2>3, Zenon DEF ReceiveDhcpAck
<1> QED
  BY <1>2, <1>3, <1>4, <1>5, <1>6, <1>7, Zenon

\* Every step keeps it.
LEMMA WaitStep ==
    ASSUME Uniform
    PROVE  DeviceOk /\ Silent' /\ OursInv /\ WaitInv /\ [Next]_vars => WaitInv'
<1> SUFFICES ASSUME DeviceOk, Silent', OursInv, WaitInv, [Next]_vars PROVE WaitInv'
  OBVIOUS
<1>1. HandlerIsOurs /\ AddressKnown
  BY DEF OursInv
<1>2. CASE ArpTimeoutCheck
  <2>1. /\ pc = "rx" /\ pc' = "time"
        /\ UNCHANGED <<env, proto, expired, icmp_handler, NetArpWaitPacketIP, NetTxPacket, NetOurIP, ipaddr>>
        /\ NetStartAgain(net_state, timeHandler, envChanged) \/ UNCHANGED <<net_state, udp_handler>>
    BY <1>2, ZenonT(30) DEF ArpTimeoutCheck, cmdVars
  <2>2. CASE UNCHANGED <<net_state, udp_handler>>
    BY <2>1, <2>2 DEF WaitInv, InLoop, Waits, Negotiating, Paused, Loading, IcmpIsOurs
  <2> QED
    BY <1>1, <2>1, <2>2, WaitStartAgain, Zenon
<1>3. CASE Timeout
  <2>1. expired' = 1
    BY <1>3, Zenon DEF Timeout, TftpTimeout, BootpTimeout, StateTimeout, TimeReturn
  <2> QED
    BY <2>1 DEF WaitInv
<1>4. CASE Receive
  BY <1>1, <1>4, WaitReceive, ZenonT(30) DEF Receive
<1> QED
  BY <1>1, <1>2, <1>3, <1>4, WaitQuiet, WaitRestart, ZenonT(30) DEF Next, Loop

\* What an ARP answer sends is the packet that waits for that host: until a
\* command times out, and unless dhcp is negotiating, no other packet takes
\* the buffer while one waits, if all devices have an address or none has.
THEOREM ArpCorrect == ASSUME Uniform PROVE Spec => ArpSendsWaiting
<1>1. Init => WaitInv
  BY DEF Init, WaitInv, InLoop, Negotiating, Paused, Loading, IcmpIsOurs
<1>2. OursInv /\ WaitInv =>
          \A p \in msgs : ReceiveArp(p) /\ expired = 0 /\ udp_handler # "Dhcp" => NetTxPacket.to = p.to
  <2> SUFFICES ASSUME OursInv, WaitInv, NEW p \in msgs, ReceiveArp(p), expired = 0, udp_handler # "Dhcp"
               PROVE  NetTxPacket.to = p.to
    OBVIOUS
  <2>1. pc = "rx" /\ NetOurIP # 0 /\ NetArpWaitPacketIP = p.to /\ p.kind = "arp"
    BY Zenon DEF ReceiveArp
  <2>2. p.to # NoHost
    BY <2>1 DEF OursInv, EchoIsPing, EchoTo
  <2>3. Waits
    BY <2>1 DEF WaitInv, InLoop, Paused, OursInv, HandlerIsOurs
  <2> QED
    BY <2>1, <2>2, <2>3 DEF Waits
<1>3. OursInv /\ WaitInv =>
          [\A p \in msgs : ReceiveArp(p) /\ expired = 0 /\ udp_handler # "Dhcp" => NetTxPacket.to = p.to]_vars
  BY <1>2, Zenon
<1> QED
  BY <1>1, <1>3, DeviceInit, DeviceStep, SilentInit, SilentStep, OursInit, OursStep, WaitStep, PTL
     DEF Spec, ArpSendsWaiting
=============================================================================
