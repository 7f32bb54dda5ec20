CONSTANTS
    p1 = p1
    p2 = p2
    r1 = r1
    r2 = r2
    Procs = {p1, p2}
    Readers = {r1, r2}
    ProcOf <- OneProcess
    Writers = {w1, w2}
    Hosts = {h1}
    NoHost = NoHost
    MaxClock = 2
SPECIFICATION Spec
INVARIANTS
    TypeOK
    FreshReads
    CacheCurrent
SYMMETRY Symmetry
