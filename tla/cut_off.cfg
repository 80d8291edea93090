SPECIFICATION Spec
CONSTANTS
    Workers = {w1, w2}
    Alive = Alive
    MaxBacklog = 3
    MaxSignals = 3
CHECK_DEADLOCK FALSE
PROPERTIES WorkersFinish
