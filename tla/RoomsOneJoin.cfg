CONSTANTS
  Users = {ann, bob, cyd}
  RoomIds = {r1, r2}
  Calls = {c1, c2, c3}
  None = None
  MAX_PLAYERS = 2
  Overlap = "one join per room"
  MayCrash = TRUE
SPECIFICATION Spec
SYMMETRY Symmetry
INVARIANTS
  MembersSeated
  AnnouncedRoomsAreGone
  SeatsNotOversold
  WaitingHasSeat
