SPECIFICATION Spec
CONSTANTS
    None = None
    Meta = Meta
    t1 = t1
    t2 = t2
    s1 = s1
    s2 = s2
SYMMETRY Symmetry
INVARIANTS HandleTables FilesServed 
 
CHECK_DEADLOCK FALSE
