CONSTANTS
  Ids = {s1, s2, s3}
  Calls = {c1, c2}
  Browsers = {b1, b2}
  None = None
  MaxChanges = 2
  Environments <- SomeEnvironments
SPECIFICATION AuthSpec
SYMMETRY Symmetry
INVARIANTS
  OnlyRevokedBlacklisted
  RevokedGetsBlacklisted
  RefreshedOnce
  OldPasswordsOut
  CookieIsUnspent
  ActiveIsHeld
PROPERTIES
  DemotionSticks
