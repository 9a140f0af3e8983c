CONSTANTS
    UIP_CONNS = 1
    MaxSend = 1
    Ports = {p1, p2}
    NoPort = noport
    SEQ_MOD = 2
    TIMER_MOD = 3
    UIP_RTO = 1
    UIP_MAXRTX = 1
    UIP_MAXSYNRTX = 0
    UIP_TIME_WAIT_TIMEOUT = 2
    Rto = {0}
    Windows = {1}
    MssOptions = {1}
    NoMss = nomss
    UIP_TCP_MSS = 1
    SegFlags = {{"SYN"}, {"ACK"}, {"FIN", "ACK"}, {"RST"}}
    SegLens = {0, 1}
SPECIFICATION FairSpec
INVARIANT TypeOK
PROPERTIES ImplementsApi 
