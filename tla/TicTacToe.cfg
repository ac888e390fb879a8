CONSTANTS
  PlayerX = x
  PlayerO = o
  None = None
  NotStarted = NotStarted
  Lost = Lost
  Cells <- RealCells
  WIN_LINES <- RealLines
SPECIFICATION Spec
INVARIANTS
  TurnsAlternate
  ResultIsRight
