SPECIFICATION FairSpec
CONSTANTS
    Callers = {c1, c2}
    Closer = closer
    Providers = {"http", "kafka", "mongo", "postgres", "rabbitmq", "redis"}
    Connections <- AllConnections
    Effects <- AllEffects
    Keys <- AllKeys
    None = None
    MaxClients = 3
INVARIANT CallsTypeOK
INVARIANT OwnClient
INVARIANT ClientsAreConfigured
INVARIANT LockedOneOpenClient
INVARIANT LockedNoneLeaked
INVARIANT CachedIsOpenOrClosing
PROPERTY CallsEnd
