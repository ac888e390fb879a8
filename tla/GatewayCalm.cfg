CONSTANTS
  Users = {ann, bob, cid}
  RoomIds = {r1, r2}
  None = None
  MAX_PLAYERS = 2
  Sockets = {s1, s2}
  Calls = {c1, c2}
  Timers = {t1}
  Events = {"create", "join", "rejoin", "leave", "update"}
  Environments <- CalmOrOrderly
SPECIFICATION Spec
SYMMETRY Symmetry
INVARIANTS
  SeatedIsWatched
  ListenersPlay
  UpdatesReachTheirRoom
PROPERTIES
  ReturnedIsKept
