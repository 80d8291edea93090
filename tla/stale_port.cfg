SPECIFICATION Spec
CONSTANTS
    Keys = {k1}
    Workers = {w1}
    Routes = {r1}
    PortLists <- SomeLists
    None = None
    MaxChanges = 2
    MaxFaults = 0
CHECK_DEADLOCK FALSE
PROPERTIES PortIsFollowed
