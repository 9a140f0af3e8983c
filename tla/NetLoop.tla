------------------------------ MODULE NetLoop ------------------------------
(***************************************************************************)
(* The network commands (net/net.c): NetLoop runs one protocol after       *)
(* another over the same static handlers, timer, ARP wait and transmit     *)
(* buffer.  ping, dhcp (net/bootp.c, with the load of the boot file that   *)
(* follows) and tftp are modelled; of a TFTP transfer there are the        *)
(* request, a first and a last block (Tftp.tla has the rest of it).        *)
(*                                                                         *)
(* A pass of the packet loop is eth_rx (any number of packets), the test   *)
(* for ctrl-c, ArpTimeoutCheck, the time handler and the test of net_state.*)
(* msgs holds all frames ever sent to a host that can answer: an answer    *)
(* may be lost, late or repeated.  Hosts are in our subnet, and the        *)
(* machine address of a host is named by the host.                         *)
(***************************************************************************)
EXTENDS Integers

CONSTANTS
    Envs,               \* environments: see EnvType
    Commands,           \* protocols the user may start
    PingHosts,          \* hosts the user may ping
    DhcpServers,
    Lease(_),           \* the address a DHCP server has for us
    StaticIP,           \* ipaddr of the environment
    TftpTimeoutMSecs, ARP_TIMEOUT, ARP_TIMEOUT_COUNT, PING_TIMEOUT, START_AGAIN,
    SELECT_TIMEOUT, TIMEOUT, TIMEOUT_COUNT,     \* net/bootp.c
    MaxCmds, MaxTries   \* bounds on commands and on NetTryCount, when it is retried forever

Server == "server"
NoHost == "none"
Forever == -1

\* netretry: number of tries; ethrotate is not "no"; autoload is not "no";
\* the devices are a ring 0..ndev-1, and addrs are the ones with an address.
EnvType == [netretry : Int, ethrotate : {0, 1}, autoload : {0, 1}, ndev : Nat \ {0},
            addrs : SUBSET Nat]

ASSUME NetAssumption ==
    /\ Envs \subseteq EnvType
    /\ Commands \subseteq {"TFTPGET", "PING", "DHCP"}
    /\ NoHost \notin PingHosts
    /\ StaticIP \in Nat /\ \A s \in DhcpServers : Lease(s) \in Nat \ {0}
    /\ {TftpTimeoutMSecs, ARP_TIMEOUT, PING_TIMEOUT, START_AGAIN, SELECT_TIMEOUT, TIMEOUT}
         \subseteq Nat \ {0}
    /\ ARP_TIMEOUT_COUNT \in Nat /\ TIMEOUT_COUNT \in Nat

VARIABLES
    env,
    pc,                 \* where NetLoop is, "idle" between commands
    proto, net_state,
    ret,                \* how the last command returned
    doneBy,             \* the protocol whose handler ended the loop with success
    expired,            \* a command has returned from its time handler
    udp_handler, icmp_handler, timeHandler, timeLeft,
    NetTryCount, NetRestarted, NetDevExists, NetRestartWrap, eth_current, first_failed,
    NetOurIP, ipaddr, envChanged, NetPingIP,
    NetTxPacket, NetServerEther,
    NetArpWaitPacketIP, NetArpWaitPacketMAC, NetArpWaitTry, arpLeft,
    TftpOurPort, TftpBlock,
    dhcp_state, BootpID, BootpTry, NetDHCPServerIP,
    ids, cmds, msgs

handlers == <<udp_handler, icmp_handler>>
timer == <<timeHandler, timeLeft>>
ethVars == <<NetRestartWrap, eth_current, first_failed>>
arpVars == <<NetArpWaitPacketIP, NetArpWaitPacketMAC, NetArpWaitTry, arpLeft>>
tftpVars == <<TftpOurPort, TftpBlock>>
dhcpVars == <<dhcp_state, BootpID, BootpTry, NetDHCPServerIP>>
addrVars == <<NetOurIP, ipaddr, envChanged, NetPingIP>>
cmdVars == <<env, proto, cmds, expired>>
retryVars == <<NetTryCount, NetRestarted, NetDevExists>>
txVars == <<NetTxPacket, NetServerEther, msgs>>
vars == <<pc, net_state, ret, doneBy, handlers, timer, ethVars, arpVars, tftpVars, dhcpVars,
          addrVars, cmdVars, retryVars, txVars, ids>>

\* Frames: the host they are for, our address at the time, and the port,
\* the transaction or the DHCP server they name.
Frame(kind, to, ip, id) == [kind |-> kind, to |-> to, ip |-> ip, id |-> id]
ArpFor(h, ip) == Frame("arp", h, ip, 0)
Rrq(id, ip) == Frame("rrq", Server, ip, id)
Ack(id, ip) == Frame("ack", Server, ip, id)
Echo(h, ip) == Frame("echo", h, ip, 0)
Discover(x) == Frame("discover", "all", 0, x)
Request(x, s) == Frame("request", s, 0, x)

\* What eth_send of packet p to the machine of host h adds: a frame at
\* another machine's door is lost.
Sent(p, h) == IF p.to = h THEN {p} ELSE {}

Init ==
    /\ env \in Envs
    /\ pc = "idle" /\ proto = "none" /\ net_state = "CONTINUE"
    /\ ret = "none" /\ doneBy = "none" /\ expired = 0
    /\ udp_handler = "dummy" /\ icmp_handler = "none" /\ timeHandler = "none" /\ timeLeft = 0
    /\ NetTryCount = 0 /\ NetRestarted = 0 /\ NetDevExists = 0
    /\ NetRestartWrap = 0 /\ eth_current = 0 /\ first_failed = Forever
    /\ NetOurIP = 0 /\ ipaddr = StaticIP /\ envChanged = 1 /\ NetPingIP = NoHost
    /\ NetTxPacket = Frame("none", NoHost, 0, 0) /\ NetServerEther = NoHost
    /\ NetArpWaitPacketIP = NoHost /\ NetArpWaitPacketMAC = NoHost
    /\ NetArpWaitTry = 0 /\ arpLeft = 0
    /\ TftpOurPort = 0 /\ TftpBlock = 0
    /\ dhcp_state = "INIT" /\ BootpID = 0 /\ BootpTry = 0 /\ NetDHCPServerIP = NoHost
    /\ ids = 0 /\ cmds = 0 /\ msgs = {}


-----------------------------------------------------------------------------
\* net/eth.c.  A device state: the current device, the first one that
\* failed, and NetRestartWrap.
Dev(cur, first, wrap) == [cur |-> cur, first |-> first, wrap |-> wrap]

\* Mutant: the list of devices is not a ring.
RotatedOut(d, k) ==
    IF env.ethrotate = 0 THEN d
    ELSE Dev(d.cur + k, d.first, IF \E j \in 1..k : d.cur + j = d.first THEN 1 ELSE d.wrap)

\* k calls of eth_try_another(0).
Rotated(d, k) ==
    IF env.ethrotate = 0 THEN d
    ELSE Dev((d.cur + k) % env.ndev, d.first,
             IF \E j \in 1..k : (d.cur + j) % env.ndev = d.first THEN 1 ELSE d.wrap)

\* eth_try_another(first_restart)
TryAnother(d, first_restart) ==
    Rotated(IF first_restart THEN Dev(d.cur, d.cur, d.wrap) ELSE d, 1)

\* eth_init: the first device that has a link; none after a full turn.
EthInit(d) == {Rotated(d, k) : k \in 0..env.ndev-1}
EthInitFailed(d) == Rotated(d, env.ndev)

\* The device state becomes d; ethact is set when another device is current.
SetDev(d, changed) ==
    /\ eth_current' = d.cur /\ first_failed' = d.first
    /\ envChanged' = IF d.cur # eth_current THEN 1 ELSE changed

NetSetTimeout(iv, f) == timeHandler' = f /\ timeLeft' = iv

\* Mutant: without a device the loop goes on.
StartWithNone(d, st, th) ==
    IF d.wrap = 1 /\ NetDevExists = 1
    THEN NetSetTimeout(START_AGAIN, "startAgain") /\ udp_handler' = "dummy" /\ net_state' = st
    ELSE /\ net_state' = IF d.wrap = 1 THEN st ELSE "RESTART"
         /\ timeHandler' = th /\ UNCHANGED <<timeLeft, udp_handler>>

\* The end of NetStartAgain: a pause when all devices have been tried.
StartWith(d, st, th) ==
    IF d.wrap = 1 /\ NetDevExists = 1
    THEN NetSetTimeout(START_AGAIN, "startAgain") /\ udp_handler' = "dummy" /\ net_state' = st
    ELSE /\ net_state' = IF d.wrap = 1 THEN "FAIL" ELSE "RESTART"
         /\ timeHandler' = th /\ UNCHANGED <<timeLeft, udp_handler>>

\* NetStartAgain, called in state st, with the time handler th and the
\* environment changed or not since NetInitLoop.
NetStartAgain(st, th, changed) ==
    IF env.netretry # Forever /\ NetTryCount >= env.netretry
    THEN /\ net_state' = "FAIL" /\ timeHandler' = th /\ envChanged' = changed
         /\ UNCHANGED <<NetTryCount, ethVars, timeLeft, udp_handler>>
    ELSE /\ NetTryCount < MaxTries /\ NetTryCount' = NetTryCount + 1
         /\ \E d \in LET a == TryAnother(Dev(eth_current, first_failed, NetRestartWrap), NetRestarted = 0)
                     IN EthInit(a) \cup {EthInitFailed(a)} :
               /\ SetDev(d, changed) /\ NetRestartWrap' = 0
               /\ StartWith(d, st, th)

\* A packet for host h waits for its machine's address.
ArpWait(h, ip) ==
    /\ NetArpWaitPacketIP' = h /\ NetArpWaitTry' = 1 /\ arpLeft' = ARP_TIMEOUT
    /\ msgs' = msgs \cup {ArpFor(h, ip)}

\* NetSendUDPPacket to the TFTP server.
NetSendUDPPacket(p) ==
    /\ NetTxPacket' = p
    /\ IF NetServerEther = NoHost
       THEN ArpWait(Server, NetOurIP) /\ NetArpWaitPacketMAC' = Server
       ELSE msgs' = msgs \cup Sent(p, NetServerEther) /\ UNCHANGED arpVars

\* TftpStart with our address ip.
TftpStart(ip) ==
    /\ NetSetTimeout(TftpTimeoutMSecs, "Tftp")
    /\ udp_handler' = "Tftp" /\ icmp_handler' = "Tftp"
    /\ TftpOurPort' = ids + 1 /\ ids' = ids + 1 /\ TftpBlock' = 0
    /\ NetServerEther' = NoHost
    /\ NetTxPacket' = Rrq(ids + 1, ip)
    /\ ArpWait(Server, ip) /\ NetArpWaitPacketMAC' = Server

ping_start(ip) ==
    /\ NetSetTimeout(PING_TIMEOUT, "ping")
    /\ NetTxPacket' = Echo(NetPingIP, ip)
    /\ ArpWait(NetPingIP, ip)
    /\ UNCHANGED <<handlers, tftpVars, ids, NetServerEther, NetArpWaitPacketMAC>>

BootpRequest(try) ==
    /\ BootpTry' = try + 1
    /\ BootpID' = ids + 1 /\ ids' = ids + 1
    /\ NetSetTimeout(SELECT_TIMEOUT, "Bootp")
    /\ dhcp_state' = "SELECTING" /\ udp_handler' = "Dhcp"
    /\ NetTxPacket' = Discover(ids + 1)
    /\ msgs' = msgs \cup {Discover(ids + 1)}
    /\ UNCHANGED <<NetDHCPServerIP, NetServerEther, icmp_handler>>

-----------------------------------------------------------------------------
\* The user sets a variable of the environment.
SetEnv ==
    /\ pc = "idle" /\ envChanged' = 1
    /\ UNCHANGED <<pc, net_state, ret, doneBy, handlers, timer, ethVars, arpVars, tftpVars, dhcpVars,
                   NetOurIP, ipaddr, NetPingIP, cmdVars, retryVars, txVars, ids>>

\* A command calls NetLoop: up to its label restart.
NetLoop(p) ==
    /\ pc = "idle" /\ cmds < MaxCmds
    /\ cmds' = cmds + 1 /\ proto' = p
    /\ IF p = "PING" THEN NetPingIP' \in PingHosts ELSE UNCHANGED NetPingIP
    /\ NetRestarted' = 0 /\ NetDevExists' = 0 /\ NetTryCount' = 1
    /\ LET d == Dev(eth_current, first_failed, NetRestartWrap)
       IN \/ \E e \in EthInit(d) : /\ SetDev(e, envChanged) /\ NetRestartWrap' = e.wrap
                                   /\ pc' = "start" /\ UNCHANGED ret
          \/ LET e == EthInitFailed(d)
             IN SetDev(e, envChanged) /\ NetRestartWrap' = e.wrap /\ pc' = "idle" /\ ret' = "FAIL"
    /\ UNCHANGED <<env, expired, net_state, doneBy, handlers, timer, arpVars, tftpVars, dhcpVars,
                   NetOurIP, ipaddr, txVars, ids>>

\* The label restart: NetInitLoop, net_check_prereq and the protocol's start.
Restart ==
    /\ pc = "start" /\ doneBy' = "none"
    /\ LET ip == IF envChanged = 1 THEN ipaddr ELSE NetOurIP
       IN \/ /\ proto # "DHCP" /\ ip = 0
             /\ pc' = "idle" /\ ret' = "FAIL" /\ net_state' = "CONTINUE"
             /\ NetOurIP' = ip /\ envChanged' = 0
             /\ UNCHANGED <<handlers, timer, ethVars, arpVars, tftpVars, dhcpVars, retryVars, txVars, ids>>
          \/ /\ proto = "DHCP" \/ ip # 0
             /\ eth_current \notin env.addrs
             /\ NetStartAgain("CONTINUE", timeHandler, 0)
             /\ pc' = "rx" /\ NetOurIP' = ip
             /\ UNCHANGED <<ret, icmp_handler, arpVars, tftpVars, dhcpVars,
                            NetRestarted, NetDevExists, txVars, ids>>
          \/ /\ proto = "DHCP" \/ ip # 0
             /\ eth_current \in env.addrs
             /\ pc' = "rx" /\ net_state' = "CONTINUE" /\ NetDevExists' = 1
             /\ envChanged' = 0
             /\ \/ proto = "TFTPGET" /\ TftpStart(ip) /\ NetOurIP' = ip /\ UNCHANGED dhcpVars
                \/ proto = "PING" /\ ping_start(ip) /\ NetOurIP' = ip /\ UNCHANGED dhcpVars
                \/ /\ proto = "DHCP" /\ BootpRequest(0) /\ NetOurIP' = 0
                   /\ UNCHANGED <<tftpVars, arpVars>>
             /\ UNCHANGED <<ret, ethVars, NetTryCount, NetRestarted>>
    /\ UNCHANGED <<env, proto, cmds, expired, ipaddr, NetPingIP>>


-----------------------------------------------------------------------------
\* eth_rx: packets of the hosts.  NetReceive drops what is not for our
\* address, if we have one.
ForUs(ip) == NetOurIP = 0 \/ ip = NetOurIP

\* Mutant: any answer is taken for the one that is waited for.
ReceiveAnyArp(p) ==
    /\ pc = "rx" /\ p.kind = "arp"
    /\ NetOurIP # 0 /\ p.ip = NetOurIP
    /\ NetArpWaitPacketIP # NoHost
    /\ NetServerEther' = IF NetArpWaitPacketMAC = Server THEN p.to ELSE NetServerEther
    /\ msgs' = msgs \cup Sent(NetTxPacket, p.to)
    /\ NetArpWaitPacketIP' = NoHost /\ NetArpWaitPacketMAC' = NoHost
    /\ UNCHANGED <<pc, net_state, ret, doneBy, handlers, timer, ethVars, NetArpWaitTry, arpLeft, tftpVars,
                   dhcpVars, addrVars, cmdVars, retryVars, NetTxPacket, ids>>

\* ArpReceive: the answer of host p.to sends the packet that waits for it.
ReceiveArp(p) ==
    /\ pc = "rx" /\ p.kind = "arp"
    /\ NetOurIP # 0 /\ p.ip = NetOurIP
    /\ NetArpWaitPacketIP = p.to
    /\ NetServerEther' = IF NetArpWaitPacketMAC = Server THEN p.to ELSE NetServerEther
    /\ msgs' = msgs \cup Sent(NetTxPacket, p.to)
    /\ NetArpWaitPacketIP' = NoHost /\ NetArpWaitPacketMAC' = NoHost
    /\ UNCHANGED <<pc, net_state, ret, doneBy, handlers, timer, ethVars, NetArpWaitTry, arpLeft, tftpVars,
                   dhcpVars, addrVars, cmdVars, retryVars, NetTxPacket, ids>>

\* ping_receive: any echo reply of the host pinged last.
ReceiveEcho(p) ==
    /\ pc = "rx" /\ p.kind = "echo" /\ ForUs(p.ip)
    /\ p.to = NetPingIP
    /\ net_state' = "SUCCESS" /\ doneBy' = "PING"
    /\ UNCHANGED <<pc, ret, handlers, timer, ethVars, arpVars, tftpVars, dhcpVars, addrVars, cmdVars,
                   retryVars, txVars, ids>>

\* The port a TFTP packet was for is unreachable.
ReceiveUnreachable(p) ==
    /\ pc = "rx" /\ p.kind \in {"rrq", "ack"} /\ ForUs(p.ip)
    /\ icmp_handler = "Tftp"
    /\ NetStartAgain(net_state, timeHandler, envChanged)
    /\ UNCHANGED <<pc, ret, doneBy, icmp_handler, arpVars, tftpVars, dhcpVars, NetOurIP, ipaddr, NetPingIP,
                   cmdVars, NetRestarted, NetDevExists, txVars, ids>>

\* TftpHandler: block 1 answers the request, block 2 the acknowledgement,
\* and block 2 is the last.
TftpAccepts(p) == pc = "rx" /\ ForUs(p.ip) /\ udp_handler = "Tftp" /\ p.id = TftpOurPort

ReceiveBlock(p) ==
    /\ TftpAccepts(p) /\ p.kind \in {"rrq", "ack"}
    /\ LET n == IF p.kind = "rrq" THEN 1 ELSE 2
       IN /\ n # TftpBlock
          /\ TftpBlock' = n
          /\ net_state' = IF n = 2 THEN "SUCCESS" ELSE net_state
          /\ doneBy' = IF n = 2 THEN "TFTPGET" ELSE doneBy
    /\ NetSetTimeout(TftpTimeoutMSecs, "Tftp")
    /\ NetSendUDPPacket(Ack(TftpOurPort, NetOurIP))
    /\ UNCHANGED <<pc, ret, handlers, ethVars, TftpOurPort, dhcpVars, addrVars, cmdVars, retryVars,
                   NetServerEther, ids>>

ReceiveTftpError(p, final) ==
    /\ TftpAccepts(p) /\ p.kind = "rrq"
    /\ IF final THEN /\ net_state' = "FAIL"
                     /\ UNCHANGED <<NetTryCount, ethVars, envChanged, timer, udp_handler>>
       ELSE NetStartAgain(net_state, timeHandler, envChanged)
    /\ UNCHANGED <<pc, ret, doneBy, icmp_handler, arpVars, tftpVars, dhcpVars, NetOurIP, ipaddr, NetPingIP,
                   cmdVars, NetRestarted, NetDevExists, txVars, ids>>

\* DhcpHandler: the first offer is taken, and the acknowledgement of the
\* request for it; net_auto_load follows.
\* Mutant: the transaction is not compared.
DhcpAcceptsAnyId(p) == pc = "rx" /\ udp_handler = "Dhcp"

DhcpAccepts(p) == pc = "rx" /\ udp_handler = "Dhcp" /\ p.id = BootpID

ReceiveOffer(p, s) ==
    /\ DhcpAccepts(p) /\ p.kind = "discover"
    /\ dhcp_state = "SELECTING"
    /\ dhcp_state' = "REQUESTING" /\ NetDHCPServerIP' = s
    /\ NetSetTimeout(TIMEOUT, "Bootp")
    /\ NetTxPacket' = Request(p.id, s)
    /\ msgs' = msgs \cup {Request(p.id, s)}
    /\ UNCHANGED <<pc, net_state, ret, doneBy, handlers, ethVars, arpVars, tftpVars, BootpID, BootpTry,
                   addrVars, cmdVars, retryVars, NetServerEther, ids>>

ReceiveDhcpAck(p) ==
    /\ DhcpAccepts(p) /\ p.kind = "request"
    /\ dhcp_state = "REQUESTING"
    /\ dhcp_state' = "BOUND" /\ NetDHCPServerIP' = p.to
    /\ NetOurIP' = Lease(p.to) /\ envChanged' = 1
    /\ IF env.autoload = 1
       THEN TftpStart(Lease(p.to)) /\ UNCHANGED <<net_state, doneBy>>
       ELSE /\ net_state' = "SUCCESS" /\ doneBy' = "DHCP" /\ NetServerEther' = p.to
            /\ UNCHANGED <<handlers, timer, tftpVars, arpVars, NetTxPacket, msgs, ids>>
    /\ UNCHANGED <<pc, ret, ethVars, BootpID, BootpTry, ipaddr, NetPingIP, cmdVars, retryVars>>

\* Mutant: the handlers are left in place.
DoneKeepsHandlers(r) ==
    /\ pc' = "idle" /\ ret' = r
    /\ timeHandler' = "none" /\ UNCHANGED <<handlers, timeLeft>>

\* net_cleanup_loop and the label done.
Done(r) ==
    /\ pc' = "idle" /\ ret' = r
    /\ udp_handler' = "dummy" /\ icmp_handler' = "none"
    /\ timeHandler' = "none" /\ UNCHANGED timeLeft

CtrlC ==
    /\ pc = "rx"
    /\ NetArpWaitPacketIP' = NoHost
    /\ Done("ABORT")
    /\ UNCHANGED <<net_state, doneBy, ethVars, NetArpWaitPacketMAC, NetArpWaitTry, arpLeft, tftpVars, dhcpVars,
                   addrVars, cmdVars, retryVars, txVars, ids>>

\* eth_rx is over and ctrl-c was not pressed.
ArpTimeoutCheck ==
    /\ pc = "rx" /\ pc' = "time"
    /\ IF NetArpWaitPacketIP = NoHost \/ arpLeft > 0
       THEN UNCHANGED <<NetArpWaitTry, arpLeft, msgs, net_state, NetTryCount, ethVars, envChanged, timer, udp_handler>>
       ELSE IF NetArpWaitTry + 1 >= ARP_TIMEOUT_COUNT
       THEN /\ NetArpWaitTry' = 0
            /\ NetStartAgain(net_state, timeHandler, envChanged) /\ UNCHANGED <<arpLeft, msgs>>
       ELSE /\ NetArpWaitTry' = NetArpWaitTry + 1 /\ arpLeft' = ARP_TIMEOUT
            /\ msgs' = msgs \cup {ArpFor(NetArpWaitPacketIP, NetOurIP)}
            /\ UNCHANGED <<net_state, NetTryCount, ethVars, envChanged, timer, udp_handler>>
    /\ UNCHANGED <<ret, doneBy, icmp_handler, NetArpWaitPacketIP, NetArpWaitPacketMAC, tftpVars, dhcpVars,
                   NetOurIP, ipaddr, NetPingIP, cmdVars, NetRestarted, NetDevExists, NetTxPacket,
                   NetServerEther, ids>>


\* The time handler is run when its time is over, and NetLoop returns.
Expired == timeHandler # "none" /\ timeLeft = 0

TimeReturn == pc = "time" /\ Expired /\ pc' = "idle" /\ ret' = "TIMEOUT" /\ expired' = 1

\* TftpTimeout.  Tftp.tla shows that its counter is 0 here.
TftpTimeout ==
    /\ TimeReturn /\ timeHandler = "Tftp"
    /\ NetSetTimeout(TftpTimeoutMSecs, "Tftp")
    /\ NetSendUDPPacket(IF TftpBlock = 0 THEN Rrq(TftpOurPort, NetOurIP) ELSE Ack(TftpOurPort, NetOurIP))
    /\ UNCHANGED <<net_state, doneBy, handlers, ethVars, tftpVars, dhcpVars, addrVars, env, proto, cmds,
                   retryVars, NetServerEther, ids>>

BootpTimeout ==
    /\ TimeReturn /\ timeHandler = "Bootp"
    /\ IF BootpTry >= TIMEOUT_COUNT
       THEN /\ NetStartAgain(net_state, "none", envChanged)
            /\ UNCHANGED <<icmp_handler, dhcpVars, txVars, ids>>
       ELSE BootpRequest(BootpTry) /\ UNCHANGED <<net_state, ethVars, NetTryCount, envChanged>>
    /\ UNCHANGED <<doneBy, arpVars, tftpVars, NetOurIP, ipaddr, NetPingIP, env, proto, cmds,
                   NetRestarted, NetDevExists>>

\* Mutant: the echo reply is waited for again.
StateTimeoutRearms ==
    /\ pc = "time" /\ Expired /\ pc' = "rx" /\ timeHandler \in {"startAgain", "ping"}
    /\ NetSetTimeout(PING_TIMEOUT, timeHandler)
    /\ UNCHANGED <<ret, net_state, doneBy, handlers, ethVars, arpVars, tftpVars, dhcpVars, addrVars, cmdVars,
                   retryVars, txVars, ids>>

\* startAgainTimeout and ping_timeout
StateTimeout ==
    /\ TimeReturn /\ timeHandler \in {"startAgain", "ping"}
    /\ net_state' = IF timeHandler = "ping" THEN "FAIL" ELSE "RESTART"
    /\ timeHandler' = "none" /\ UNCHANGED timeLeft
    /\ UNCHANGED <<doneBy, handlers, ethVars, arpVars, tftpVars, dhcpVars, addrVars, env, proto, cmds,
                   retryVars, txVars, ids>>

\* The time handler was not run, and net_state decides.
SwitchContinue ==
    /\ pc = "time" /\ ~Expired /\ net_state = "CONTINUE" /\ pc' = "rx"
    /\ UNCHANGED <<net_state, ret, doneBy, handlers, timer, ethVars, arpVars, tftpVars, dhcpVars, addrVars,
                   cmdVars, retryVars, txVars, ids>>

SwitchRestart ==
    /\ pc = "time" /\ ~Expired /\ net_state = "RESTART" /\ pc' = "start"
    /\ NetRestarted' = 1
    /\ UNCHANGED <<net_state, ret, doneBy, handlers, timer, ethVars, arpVars, tftpVars, dhcpVars, addrVars,
                   cmdVars, NetTryCount, NetDevExists, txVars, ids>>

\* The loop is over; netboot_common then saves the address.
SwitchDone ==
    /\ pc = "time" /\ ~Expired /\ net_state \in {"SUCCESS", "FAIL"}
    /\ Done(net_state)
    /\ IF net_state = "SUCCESS" /\ proto # "PING"
       THEN envChanged' = 1 /\ ipaddr' = IF NetOurIP # 0 THEN NetOurIP ELSE ipaddr
       ELSE UNCHANGED <<envChanged, ipaddr>>
    /\ UNCHANGED <<net_state, doneBy, ethVars, arpVars, tftpVars, dhcpVars, NetOurIP, NetPingIP, cmdVars,
                   retryVars, txVars, ids>>

\* Time passes.  The loop is much faster than a unit of time: it does not
\* pass while a timer of the loop is over.
Tick ==
    /\ timeLeft > 0 \/ arpLeft > 0
    /\ pc # "idle" => ~Expired /\ (NetArpWaitPacketIP = NoHost \/ arpLeft > 0)
    /\ timeLeft' = IF timeLeft > 0 THEN timeLeft - 1 ELSE 0
    /\ arpLeft' = IF arpLeft > 0 THEN arpLeft - 1 ELSE 0
    /\ UNCHANGED <<pc, net_state, ret, doneBy, handlers, timeHandler, ethVars, NetArpWaitPacketIP,
                   NetArpWaitPacketMAC, NetArpWaitTry, tftpVars, dhcpVars, addrVars, cmdVars, retryVars, txVars, ids>>

Receive ==
    \E p \in msgs :
        \/ ReceiveArp(p)
        \/ ReceiveEcho(p)
        \/ ReceiveUnreachable(p)
        \/ ReceiveBlock(p)
        \/ \E final \in BOOLEAN : ReceiveTftpError(p, final)
        \/ \E s \in DhcpServers : ReceiveOffer(p, s)
        \/ ReceiveDhcpAck(p)

Timeout == TftpTimeout \/ BootpTimeout \/ StateTimeout

\* The steps that NetLoop takes by itself.
Loop ==
    \/ Restart
    \/ ArpTimeoutCheck
    \/ Timeout
    \/ SwitchContinue
    \/ SwitchRestart
    \/ SwitchDone

Next ==
    \/ \E p \in Commands : NetLoop(p)
    \/ SetEnv
    \/ Loop
    \/ Receive
    \/ CtrlC
    \/ Tick

Spec == Init /\ [][Next]_vars

\* The processor runs and time passes; nobody is bound to send anything.
FairSpec == Spec /\ WF_vars(Loop) /\ WF_vars(Tick)

-----------------------------------------------------------------------------
\* Every variable has its type.
TypeOK ==
    /\ pc \in {"idle", "start", "rx", "time"}
    /\ proto \in {"none", "TFTPGET", "PING", "DHCP"}
    /\ net_state \in {"CONTINUE", "RESTART", "SUCCESS", "FAIL"}
    /\ ret \in {"none", "SUCCESS", "FAIL", "ABORT", "TIMEOUT"}
    /\ doneBy \in {"none", "TFTPGET", "PING", "DHCP"}
    /\ udp_handler \in {"dummy", "Tftp", "Dhcp"} /\ icmp_handler \in {"none", "Tftp"}
    /\ timeHandler \in {"none", "Tftp", "Bootp", "ping", "startAgain"}
    /\ timeLeft \in Nat /\ arpLeft \in Nat /\ NetTryCount \in Nat /\ NetArpWaitTry \in Nat
    /\ eth_current \in 0..env.ndev-1
    /\ dhcp_state \in {"INIT", "SELECTING", "REQUESTING", "BOUND"}
    /\ TftpBlock \in 0..2 /\ BootpTry \in Nat /\ ids \in Nat
    /\ NetOurIP \in Nat /\ ipaddr \in Nat

\* The packet loop never waits without a time handler: whatever packet is
\* lost, a timeout ends the wait.
WaitIsTimed == pc = "rx" /\ net_state = "CONTINUE" => timeHandler # "none"

\* A dhcp command that succeeds has configured, for itself and in the
\* environment, the address of the server that it asked in this transaction.
\* When it goes on to load the boot file, this needs that no command before
\* it has timed out.
BoundIsLeased ==
    pc = "idle" /\ proto = "DHCP" /\ ret = "SUCCESS"
        /\ (doneBy = "DHCP" \/ (doneBy = "TFTPGET" /\ expired = 0)) =>
        /\ NetDHCPServerIP \in DhcpServers
        /\ NetOurIP = Lease(NetDHCPServerIP) /\ ipaddr = NetOurIP
        /\ Request(BootpID, NetDHCPServerIP) \in msgs

\* What an ARP answer sends is the packet that waits for that host, if no
\* command before it has timed out and dhcp is not negotiating.
ArpSendsWaiting ==
    [][\A p \in msgs : ReceiveArp(p) /\ expired = 0 /\ udp_handler # "Dhcp"
                        => NetTxPacket.to = p.to]_vars

\* A command that succeeds was ended by the handler of its own protocol, if
\* no command before it has timed out and no ping was sent before it.
Owner(p) == IF p = "DHCP" THEN {"DHCP", "TFTPGET"} ELSE {p}
SuccessIsOurs ==
    ret = "SUCCESS" /\ expired = 0 /\ (proto = "PING" \/ NetPingIP = NoHost) /\ pc = "idle" =>
        doneBy \in Owner(proto)

\* "host ... is alive": the host was heard when ping says so.
PingMeansAlive == pc = "idle" /\ proto = "PING" /\ ret = "SUCCESS" => doneBy = "PING"

\* With a finite number of tries every command returns.
LoopReturns == (pc # "idle" /\ env.netretry # Forever) ~> (pc = "idle")
=============================================================================
