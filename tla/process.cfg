SPECIFICATION ProcessSpec
CONSTANTS
    Keys = {k1, k2, k3}
    Workers = {w1, w2}
    None = None
    MaxFailures = 2
    Alive = Alive
    MaxBacklog = 3
    MaxSignals = 3
    Types = {t1, t2}
    Callers = {a, b}
    MaxCalls = 3
CHECK_DEADLOCK FALSE
INVARIANTS
    TypeOK
    TypesOK
    NeverSharedKey
    QueueIsBacklog
    FailedKeyIsKept
    NoEarlySync
    ExitCodesAreEarned
    InformersAreShared
    RunsOnce
    HolderGoesOn
PROPERTIES
    RequestIsServed
    ImplementsKeyedWork
    SignalEndsProcess
    KeysAreTaken
    StartIsComplete
    WaitIsComplete
