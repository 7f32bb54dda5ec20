SPECIFICATION Spec
CONSTANTS
  Threads = {t1, t2}
  Paths = {p1, p2}
  Scratch = {}
  Guids = {g1}
  None = None
  Tokens = {k1}
  MaxVer = 1
  Policies = {"OnEveryClose", "Deferred"}
  LeavesHandles = FALSE
  OrphanDeleteFails = FALSE
  IOErrors = TRUE
SYMMETRY Symmetry
INVARIANTS RowsHaveData OpenFilesStay CrashSafe 
