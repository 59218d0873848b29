CONSTANTS
    Conns <- MCConns
    Sources <- MCSources
    Peer <- MCPeer
    MaxConnections = 3
    MaxConnectionsPerIp = 2
SPECIFICATION FairSpec
INVARIANTS
    GuardAccounting
    MetricsBalance
PROPERTIES
    ReturnedIsReleased
    ImplementsPool
CHECK_DEADLOCK FALSE
