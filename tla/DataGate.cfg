CONSTANTS
    Threads = {t1, t2}
    Slots = {s1, s2}
    Limit = 1
    NWorkers = 2
    Slow = {}
    Mortal = {t2}
    Meta = Meta
    None = None
SPECIFICATION LiveSpec
INVARIANTS
    NoBarging
    PermitsConserved
    
PROPERTIES
    CallEnds
    WaiterServed
