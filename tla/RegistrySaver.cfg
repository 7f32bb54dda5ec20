SPECIFICATION Spec
CONSTANTS
  Callers = {c1}
  MaxVersion = 2
  HasSync = TRUE
INVARIANTS Bookkeeping DurableMeansKept
PROPERTIES SavesInOrder KeepsPromise
