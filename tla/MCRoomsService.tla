--------------------------- MODULE MCRoomsService ---------------------------
EXTENDS RoomsService, TLC

Symmetry ==
  Permutations(Users) \cup Permutations(RoomIds) \cup Permutations(Calls)
=============================================================================
