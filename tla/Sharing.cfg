SPECIFICATION MCSpec
CONSTANTS
  alice = alice
  team = team
  bob = bob
  Users = {alice, bob}
  Spaces = {team}
  Writers = {alice}
  Admins = {alice}
  Ids = {m1, m2, m3, m4}
  Procs = {p1, p2}
  Ops = {"share", "pull", "reshare", "unshare", "create", "import", "edit", "touch", "remove", "sweep"}
  RuleSources = {alice}
  MaxVersion = 2
SYMMETRY Symmetry
INVARIANT CopiesExact
CHECK_DEADLOCK FALSE
