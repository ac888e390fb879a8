CONSTANTS
  Users = {ann, bob, cyd, dan}
  RoomIds = {r1, r2, r3}
  Calls = {c1, c2, c3}
  None = None
  MAX_PLAYERS = 2
  Overlap = "disjoint"
  MayCrash = TRUE
SPECIFICATION Spec
SYMMETRY Symmetry
INVARIANTS
  SeatsCorrect
  OwnerPlays
PROPERTIES
  OwnershipInherited
  ActsAtomically
