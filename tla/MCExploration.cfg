CONSTANTS
  Parts = {"visibility", "framing", "patches", "stats", "chain", "profile", "layout", "arrays", "locked", "fingerprint", "codec"}
  Order = {c1}
  Chaos = {c2}
  Objects = {o1}
  Enter = enter
  Leave = leave
  Others = {other}
  Payloads = {p1, p2}
  MIN_LABELLED = 2
  MaxBlocks = 7
  NetIds = {n1, n2}
  Ids = {1, 2, 3}
  RosterSize = 2
  EDGE_WINDOW = 3
  BlockTimes = {0, 3, 4, 7}
  MaxFramed = 6
  Target = {1, 2, 3}
  Reference = {1, 2, 3}
  Scores = {60, 85, 95}
  CONFIDENT_SCORE = 85
  CONFIDENT_MARGIN = 15
  Roster = {a1, a2}
  Amounts = {0, 1}
  Rows = {0, 1}
  MIN_SPREAD = 2
  MAX_OFFSET = 1
  MIN_TESTS = 3
  MaxReplays = 4
  Alphabet = {0, 1, 2, 3, 4}
  CHAIN_MIN = 2
  WAYPOINT_MIN_AGREE = 1
  FlagCounts = {2, 4}
  MaxChanges = 2
  Values <- FewValues
  DISTINCT_CAP = 2
  PerChunk = 2
  MaxProfiled = 4
  Streams <- ClassStreams
  Optional = {"B"}
  Plain = {0, 1, 2}
  MIN_BLOCKS = 2
  MIN_VARIETY = 3
  MaxSamples = 3
  Chunks = {h1, h2}
  TrueStride = 2
  Counts = {1, 2, 3}
  Rooms = {1, 2}
  StraySizes = {2, 4}
  STRIDE_MAX = 4
  ENTRIES_PER_BLOCK = 2
  MaxArrays = 3
  LockClasses = {k1}
  Fighters = {f1, f2}
  NoFighter = none
  GameLengths = {8}
  Scale = 8
  KillTimes = {1, 2}
  Moments = {1, 4}
  EVENT_WINDOW = 1
  MIN_LOCKED_BLOCKS = 2
  LOCKED_SHARE = 90
  LOCKED_LIFT = 4
  MaxGames = 2
  MaxKills = 2
  MaxLockBlocks = 3
  Lengths = {1, 2, 3, 4}
  Units = {u1, u2}
  ChampionIds = {u1}
  LENGTH_CAP = 3
  Stamps = {0, 1}
  MaxPrints = 2
  MaxSeen = 4
  Groups = 2
  IdSize = 32
  LowSize = 8
  MaskSize = 8
  NumChampions = 2
  TAIL_MAX = 2
SPECIFICATION Spec
INVARIANTS
  PairIsRead
  ChampionsFound
  ConfidentIsAlone
  OneOffsetEach
  ChainIsTrue
  CountsAreExact
  LayoutIsTrue
  EntriesAreTrue LocksAreTrue PoolIsTheWhole IdsAreFound
PROPERTY ImplementsBestFirst
CHECK_DEADLOCK FALSE
