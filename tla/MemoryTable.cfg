SPECIFICATION MCSpec
CONSTANTS
  p1 = p1
  p2 = p2
  i1 = i1
  Ids = {i1, i2}
  Procs <- MCProcs
  Contents = {"plain", "today"}
  Temporary = {"today"}
  Ops <- MCOps
  NewAttrs <- MCAttrs
  Patches <- MCPatches
  WorkingAt = 1
  CoreAt = 2
  ProtectAt = 1
  MaxVersion = 3
  MaxAccess = 2
SYMMETRY ProcSymmetry
INVARIANTS RowsSafe SerialExact
PROPERTY IsRegister
