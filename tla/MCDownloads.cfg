SPECIFICATION Spec
CONSTANTS
    None = None
    d1 = d1
    d2 = d2
    t1 = t1
    t2 = t2
SYMMETRY Symmetry
  
PROPERTIES RenewedForCause
CHECK_DEADLOCK FALSE
