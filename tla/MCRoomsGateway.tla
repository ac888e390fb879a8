--------------------------- MODULE MCRoomsGateway ---------------------------
EXTENDS RoomsGateway, TLC

CalmOrOrderly == {{}, {"restart", "failing leave"}}

CalmOrWild == {{}, AllHazards}

Symmetry ==
  Permutations(Users) \cup Permutations(RoomIds)
    \cup Permutations(Sockets) \cup Permutations(Calls) \cup Permutations(Timers)
=============================================================================
