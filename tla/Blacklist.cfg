CONSTANTS
  SECOND = 3
  ACCESS_TOKEN_TTL = 2
  LastTick = 14
SPECIFICATION TimesSpec
INVARIANTS
  RefusedButForLastSecond
