SPECIFICATION LiveSpec
CONSTANTS
    None = None
    w1 = w1
    w2 = w2
    t1 = t1
    t2 = t2
    p1 = p1
    p2 = p2
PROPERTIES EverySlotTaken WaitsEnd
CHECK_DEADLOCK FALSE
