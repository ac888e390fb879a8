CONSTANTS
  PlayerX = x
  PlayerO = o
  None = None
  NotStarted = NotStarted
  Lost = Lost
  Cells <- SmallCells
  WIN_LINES <- SmallLines
  GameIds = {g1, g2}
  PlayedGames = {g1}
  Calls = {c1, c2}
  TTL = 2
  MaxMoves = 3
  Environments <- FourEnvironments
SPECIFICATION Spec
SYMMETRY Symmetry
INVARIANTS
  EndedLeavesRedis
  CurrentHasNoResult
  StateIsReplay
  MetaOutlivesState
  RecordIsTheGame
  DecidedGamesLeave
PROPERTIES
  ResultWrittenOnce
  PlaysTheGame
