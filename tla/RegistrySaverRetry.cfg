SPECIFICATION Spec
CONSTANTS
  Callers = {c1}
  MaxVersion = 1
  HasSync = TRUE
INVARIANTS SyncsGetRetried
