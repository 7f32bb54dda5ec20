SPECIFICATION Spec
CONSTANTS
    None = None
    Unlinked = Unlinked
    f1 = f1
    h1 = h1
    t0 = t0
    t1 = t1
    t2 = t2
    r1 = r1
SYMMETRY Symmetry
INVARIANTS  LayersSound
 
CHECK_DEADLOCK FALSE
