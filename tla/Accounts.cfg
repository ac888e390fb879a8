\* Liveness is checked without symmetry.
CONSTANTS
  Persons = {ann, bob}
  Calls = {c1, c2}
  None = None
  Names <- ThreeNames
  FalsePositives <- OneAccident
  MaxAttempts = 2
  Environments <- FourEnvironments
SPECIFICATION FairSpec
INVARIANTS
  TakenIsReported
PROPERTIES
  CallsEnd
