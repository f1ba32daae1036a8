SPECIFICATION Spec
CONSTANTS
  Sessions = {"s1", "s2"}
  Short = {2}
  Interval = 2
  Procs = {p1, p2}
  MaxMessages <- Lengths
  MaxFaults = 1
  MaxResumes = 1
INVARIANTS
  TypeOK
  ResentNeedsCause
  TailDelivered
PROPERTIES
  Delivers
CHECK_DEADLOCK FALSE
SYMMETRY Symmetry
