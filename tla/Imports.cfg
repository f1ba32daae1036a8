SPECIFICATION MCSpec
CONSTANTS
  Files = {"f1"}
  Tasks = {"t1", "t2"}
  Procs = {"p1", "p2"}
  First = "p1"
  Second = "p2"
  Old = "t1"
  New = "t2"
  Ops = {"import", "force", "json", "trigger", "rollback"}
  ImportPermits = 2
  MaxRequests = 3
INVARIANT ImportsSafe
PROPERTY ImportSettles
CHECK_DEADLOCK FALSE
