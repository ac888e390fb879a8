\* Symmetry would shorten nothing: the counterexample is a few steps long.
CONSTANTS
  Persons = {ann, bob}
  Calls = {c1, c2}
  None = None
  Names <- ThreeNames
  FalsePositives <- OneAccident
  MaxAttempts = 2
  Environments <- OneAtATime
SPECIFICATION Spec
INVARIANT RetryHelps
