SPECIFICATION Spec
CONSTANTS
  Sessions = {"s1", "s2"}
  Agents = {"build", "guest"}
  StaticAgent = "build"
  Policy <- Access
  Threshold = 0
  Stamped = FALSE
  Timers = {t1, t2}
  Chats = {c1, c2}
  MaxMessages <- Lengths
  MaxEvents <- Bounds
  MaxBudget = 2
INVARIANTS
  ResendBounded
  QuietMeansCaptured
  OnlyMainStored
  InjectionHonest
CHECK_DEADLOCK FALSE
SYMMETRY Symmetry
