SPECIFICATION MCSafetySpec
CONSTANTS
    k1 = k1
    k2 = k2
    w1 = w1
    w2 = w2
    r1 = r1
    r2 = r2
    c1 = c1
    c2 = c2
    d1 = d1
    d2 = d2
    Keys = {k1, k2}
    Workers = {w1, w2}
    Clusters = {c1, c2}
    ClusterOf <- TwoClusters
    Routes = {r1}
    NoRoute = NoRoute
    Data = {d1}
    Taken = Taken
    None = None
    Budget <- RestartBudget
INVARIANTS
    NoOrphans
SYMMETRY ClustersMayBeSwapped
CHECK_DEADLOCK FALSE
