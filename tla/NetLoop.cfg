SPECIFICATION FairSpec
CONSTANTS
    Envs <- MCEnvs
    Commands = {"TFTPGET", "PING", "DHCP"}
    PingHosts = {"peer"}
    DhcpServers = {"d1", "d2"}
    Lease <- MCLease
    StaticIP = 1
    TftpTimeoutMSecs = 2
    ARP_TIMEOUT = 1
    ARP_TIMEOUT_COUNT = 2
    PING_TIMEOUT = 2
    START_AGAIN = 1
    SELECT_TIMEOUT = 1
    TIMEOUT = 1
    TIMEOUT_COUNT = 5
    MaxCmds = 2
    MaxTries = 2
INVARIANTS TypeOK WaitIsTimed BoundIsLeased SuccessIsOurs
PROPERTIES ArpSendsWaiting LoopReturns
CHECK_DEADLOCK FALSE
