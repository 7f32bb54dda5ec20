SPECIFICATION Spec
CONSTANTS
    None = None
    t1 = t1
    t2 = t2
    p1 = p1
    g1 = g1
    g2 = g2
    k1 = k1
SYMMETRY Symmetry
INVARIANTS TreesSound  
PROPERTIES TheirsKept
CHECK_DEADLOCK FALSE
