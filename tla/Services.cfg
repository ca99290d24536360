\* Each of the services on a small instance of its own.
SPECIFICATION ServicesSpec
CONSTANTS
    Listen = {l1, l2}
    MaxClients = 3
    Peer = {p1, p2}
    NoAddr = NoAddr
    MaxOpened = 3
    Conn = {k1, k2, k3}
    Client = {t1, t2, t3}
    m_maxSize = 1
    m_maxRequest = 1
    m_maxAliveTime = 2
    Word = 16
    NowMs = 5
    NoConn = NoConn
    MaxLen = 3
    MaxErrors = 1
    m_baseSize = 3
    Group = 8
    BaItems <- Items
    BaMaxItems = 3
    file1 = file1
    name1 = name1
    name2 = name2
    CfgLoader = {u1, u2}
    CfgFiles <- FileList
    CfgTexts <- Texts
    CfgNames = {name1}
    CfgListener = {c1}
    BadValue = 9
    CfgMaxEdits = 2
    CfgMaxScans = 2
    LogThread = {w1, w2}
    LogNames = {"a"}
    LogLevels = {1, 2}
    LogConfigs <- LoggerConfigs
    LogMaxApply = 3
    LogMaxEvents = 2
    Instance = {i1, i2}
    Configured = {i1}
    MaxCrashes = 2
    AddrBits = 2
    AddrGroups = 4
    AddrBytes = {0, 2}
    AddrNodes <- HostNames
    AddrServices <- ServiceNames
INVARIANTS
    SocketOwnsOne
    PoolSound
    StreamExact
    BaFaithful
    ConfigInEffect
    LogAsConfigured
    AddressExact
PROPERTIES
    AcceptLoopEnds
    CrashRestarts
CHECK_DEADLOCK FALSE
