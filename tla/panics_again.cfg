SPECIFICATION SafetySpec
CONSTANTS
    Keys = {k1}
    Workers = {w1}
    Routes = {r1, r2}
    PortLists <- SomeLists
    None = None
    MaxChanges = 2
    MaxFaults = 0
CHECK_DEADLOCK FALSE
INVARIANTS PanicsOnce
