\* Two batches at a time over three memories, with users and failures.
SPECIFICATION Spec
CONSTANTS
  Ids = {i1, i2, i3}
  f1 = f1
  f2 = f2
  f3 = f3
  f4 = f4
  t1 = t1
  t2 = t2
  t3 = t3
  s1 = s1
  Facts = {f1, f2, f3, f4}
  Texts = {t1, t2, t3}
  Sessions = {s1}
  Procs = {p1, p2}
  Source <- MCSource
  Weight <- MCWeight
  NoteWeight = 1
  Kin <- MCKin
  Near <- MCNear
  Plain = {t1}
  Projects = {f4}
  Requests <- MCRequests
  MaxRequests = 3
SYMMETRY Symmetry
PROPERTY BatchesSafe
CHECK_DEADLOCK FALSE
