CONSTANTS
  Parts = {"assists"}
  b1 = b1
  b2 = b2
  r1 = r1
  MaxTime = 2
  Heroes = {r1}
  Items = {1, 2, 3, 4}
  Recipe <- MCRecipe
  NumSlots = 3
  Champions = {b1, b2}
  MaxPackets = 7
  Owners = {b1, b2}
  Strangers = {nobody}
  WardPlaces = {0, 1, 3, 4}
  Radius = 2
  Drift = 1
  MaxWards = 3
  Places = {0, 1, 2, 3}
  Speeds = {1, 2}
  PerSecond = 2
  GameLength = 6
  MaxMoves = 4
  Blue = {b1, b2}
  Red = {r1}
  WINDOW = 1
  MaxLag = 1
  MaxDeaths = 3
  WardWrites <- WardDecryption
  X_WRITE_COUNT = 1
  BATCH_SIZE = 2
  NumHits = 3
  WardIds = {1, 2, 3}
  Spots = {0, 1}
  CorpseDrift = 1
  MaxWardPackets = 6
  PathUnits = {u1, u2}
  PathPlayers = {u1}
  Ends = {0, 3}
  Paces = {0, 1}
  Second = 2
  LastTime = 5
  MaxPaths = 3
  Bits = 4
  GroupUnits = {5}
  FirstPlaces <- FewPlaces
  Shifts <- FewShifts
  OnMap <- AllButTheEdge
  MAX_ENTRIES = 2
  MAX_BUFFER = 14
  MaxPoints = 4
  MaxEntries = 2
  NumPlayers = 3
  BlueSide = {1, 2}
  OtherUnits = {9}
  Amount = 3
  DAMAGE_SLACK = 2
  MaxLevel = 2
  MaxFacts = 3
  VERSION_OFFSET = 3
  SIGNATURE_SIZE = 2
  METADATA_LEN_TRAILER_SIZE = 1
  VersionLens = {0, 2}
  ChunkBytes = {0, 3}
  JsonBytes = {2, 3}
  MaxTrailer = 6
  Roles <- TwoRoles
  MaxPlayers = 2
SPECIFICATION Spec
SYMMETRY Symmetry
INVARIANT TotalsExact
CHECK_DEADLOCK FALSE
