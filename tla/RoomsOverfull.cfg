CONSTANTS
  Users = {ann, bob, cyd}
  RoomIds = {r1, r2}
  Calls = {c1, c2}
  None = None
  MAX_PLAYERS = 2
  Overlap = "any"
  MayCrash = FALSE
SPECIFICATION Spec
SYMMETRY Symmetry
INVARIANTS
  SeatsNotOversold
