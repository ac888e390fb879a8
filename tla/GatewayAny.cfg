\* Liveness is checked without symmetry.
CONSTANTS
  Users = {ann}
  RoomIds = {r1}
  None = None
  MAX_PLAYERS = 2
  Sockets = {s1, s2}
  Calls = {c1, c2}
  Timers = {t1, t2}
  Events = {"create", "rejoin", "leave", "chat"}
  Environments <- CalmOrWild
SPECIFICATION FairSpec
INVARIANTS
  EntriesAreArmed
PROPERTIES
  AwayLeaves
