SPECIFICATION Spec
CONSTANTS
  Ids = {i1, i2}
  Values = {v1, v2}
  Procs = {p1, p2}
  Ops = {"list", "inject", "create", "update", "delete", "trigger", "induce", "sweep"}
  MaxRuns = 2
  MaxItems = 1
  MaxRequests = 4
SYMMETRY Symmetry
INVARIANT ProfileSafe
CHECK_DEADLOCK FALSE
