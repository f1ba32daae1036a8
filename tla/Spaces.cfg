SPECIFICATION SpSpec
CONSTANTS
  alice = alice
  bob = bob
  Users = {alice, bob}
  SpaceIds = {s1}
  Rules = {"r1"}
  Handlers = {p1, p2}
  Extras <- MCExtras
  Changes <- MCChanges
  MaxMembers = 3
SYMMETRY Symmetry
INVARIANT SpacesSafe
CHECK_DEADLOCK FALSE
