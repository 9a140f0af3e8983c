CONSTANTS
    IP = {host1, remote}
    Local = {host1}
    HostIP = hostip
    NoIP = noip
    MAC = {eth1, eth2}
    HostMAC = hosteth
    NoMAC = noeth
    UIP_ARPTAB_SIZE = 2
    UIP_ARP_MAXAGE = 3
    ARPTIME_MOD = 4
    ARPTIMER = 2
SPECIFICATION Spec
INVARIANTS TypeOK TableIsCurrent LocalFramesReachTheirHost
PROPERTIES AnswerIsNeverDropped NoEarlyExpiry
