SPECIFICATION SafetySpec
CONSTANTS
    Keys = {k1, k2}
    Workers = {w1, w2}
    Routes = {r1, r2}
    Taken = Taken
    None = None
    MaxVersion = 4
    MaxBreaks = 1
CHECK_DEADLOCK FALSE
INVARIANTS OnlyServiceRoutes
