SPECIFICATION DetailsSpec
CONSTANTS
    Keys = {k1, k2}
    Workers = {w1}
    Routes = {r1, r2}
    Taken = Taken
    None = None
    MaxVersion = 3
    MaxBreaks = 1
    Syncs = {s1, s2}
    OwnHosts = {h1}
    Managed = {http, https}
    OtherPort = tcp
    MaxWrites = 4
    PortKeys = {k1}
    PortWorkers = {w1}
    MaxChanges = 2
    MaxFaults = 2
CHECK_DEADLOCK FALSE
INVARIANTS
    TypesOK
    CacheIsHistory
    OwnerIsObeyed
    HostsAreListedOnce
    ServersAgree
    RecordIsOwn
    NodePortsStayHome
    PanicsAreCounted
PROPERTIES
    ImplementsLaggedCopy
    LastVersionIsSynced
    EditsAreSetEdits
