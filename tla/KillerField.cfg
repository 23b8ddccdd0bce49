CONSTANTS
  Games = {1, 2}
  Bytes = {1, 2, 3}
  Rosters = {{1, 2}, {2, 3}, {1, 3}}
  Straddling = {{1, 3}}
  Fillers = {1}
  TAIL_MAX = 2
  MIN_PREDICTIONS = 2
  FIELD_PRECISION = 97
  MaxDeaths = 3
SPECIFICATION KillerSpec
INVARIANT LearnedIsAll
PROPERTY SearchEnds
CHECK_DEADLOCK FALSE
