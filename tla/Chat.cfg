\* Liveness is checked without symmetry.
CONSTANTS
  Calls = {c1, c2, c3}
  MAX_MESSAGES = 2
  LastMessage = 5
  Environments <- TwoEnvironments
SPECIFICATION FairSpec
INVARIANTS
  LatestInOrder
  Bounded
  NoGap
  HeardInOrder
PROPERTIES
  GoneInTheEnd
