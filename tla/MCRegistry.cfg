SPECIFICATION Spec
CONSTANTS
    None = None
    NoVal = NoVal
    t1 = t1
    t2 = t2
    k1 = k1
    k2 = k2
SYMMETRY Symmetry
  
PROPERTIES CompletedOnce
CHECK_DEADLOCK FALSE
