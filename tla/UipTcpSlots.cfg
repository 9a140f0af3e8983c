CONSTANTS
    UIP_CONNS = 2
    MaxSend = 0
    Ports = {p1, p2, p3}
    NoPort = noport
    SEQ_MOD = 1
    TIMER_MOD = 4
    UIP_RTO = 1
    UIP_MAXRTX = 1
    UIP_MAXSYNRTX = 0
    UIP_TIME_WAIT_TIMEOUT = 3
    Rto = {1}
    Windows = {1}
    MssOptions = {1}
    NoMss = nomss
    UIP_TCP_MSS = 1
    SegFlags = {{"SYN"}, {"ACK"}, {"FIN"}, {"FIN", "ACK"}, {"RST"}}
    SegLens = {0}
SPECIFICATION Spec
INVARIANTS OneSlotPerRemote TimerArmed
 
